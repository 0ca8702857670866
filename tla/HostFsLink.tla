----------------------------- MODULE HostFsLink -----------------------------
(***************************************************************************)
(* The USB link between the PSP and usbhostfs_pc.  On the PSP, usb_thread   *)
(* handles attach and detach and shakes hands; client threads exchange      *)
(* commands with the PC under g_mainsema (usbhostfs/main.c).  On the PC,    *)
(* one loop writes the magic, then reads and serves packets                 *)
(* (usbhostfs_pc/main.c, start_hostfs).                                     *)
(*                                                                          *)
(* A transfer is a rendezvous: the PSP posts its one g_bulkin_req or        *)
(* g_bulkout_req, the PC's read or write completes it, and the completion   *)
(* callback sets a bit of g_transevent.  The request structures are shared  *)
(* by all threads and re-initialised by every post.                         *)
(***************************************************************************)
EXTENDS Integers, Sequences, FiniteSets

CONSTANTS Client,        \* threads that use host0: or the USB API
          Ops,           \* the operations they perform, a subset of DOMAIN Prog
          MaxSession,    \* bound: how often the PC opens the device
          MaxRestart,    \* bound: how often the driver is stopped and started
          PcTimeouts,    \* TRUE: the PC's 10 s timeouts may expire
          Unplugged,     \* what a post does without a PC: "error", "refuse"
          Prompt,        \* TRUE: the PSP's threads come to rest before a re-open
          NULL

U == "usb_thread"
Thread == Client \cup {U}

\* The packets of every operation in order: command_xchg (a plain command, one
\* with data, one whose response carries data), send_async, usbWriteBulkData,
\* and usb_thread's own handshake.
Prog == [hello |-> <<"cmd", "resp">>,
         magic |-> <<"magic">>,
         close |-> <<"cmd", "resp">>,
         write |-> <<"cmd", "data", "resp">>,
         read  |-> <<"cmd", "resp", "rdata">>,
         async |-> <<"async">>,
         bulk  |-> <<"bulk", "bdata">>]

\* The packets the PSP sends (endpoint 1); the others go to it (endpoint 2).
InPackets == {"cmd", "data", "async", "bulk", "bdata"}
Dir(what) == IF what \in InPackets THEN "IN" ELSE "OUT"

ASSUME LinkAssumption ==
  /\ IsFiniteSet(Client) /\ U \notin Client /\ NULL \notin Thread
  /\ Ops \subseteq DOMAIN Prog \ {"hello", "magic"}
  /\ MaxSession \in Nat /\ MaxRestart \in Nat
  /\ PcTimeouts \in BOOLEAN /\ Prompt \in BOOLEAN
  /\ Unplugged \subseteq {"error", "refuse"} /\ Unplugged # {}

VARIABLES up,         \* the driver is started (g_mainsema and the flags exist)
          restarts,   \* number of stop_func calls
          attached,   \* the PC has the device open
          session,    \* number of times it opened it
          mainev,     \* g_mainevent
          transev,    \* g_transevent
          sema,       \* who holds g_mainsema
          connected,  \* g_connected
          req,        \* g_bulkin_req and g_bulkout_req
          areq,       \* state of g_async_req
          th,         \* the PSP threads
          waited,     \* what each client's last usbWaitForConnect returned
          host,       \* start_hostfs: the packets left of what it serves
          caught      \* a history: a restart overtook a client in an exchange

vars == <<up, restarts, attached, session, mainev, transev, sema, connected,
          req, areq, th, waited, host, caught>>

\* A thread: where it is, its operation, the packets left, whether everything it
\* received in this operation was meant for it, and how the last one ended.
\* usb_thread also keeps the result of its last event wait.
ThreadInit == [pc |-> "idle", op |-> "close", prog |-> <<>>, clean |-> TRUE,
               ret |-> "none", result |-> {}]

NoPacket == [to |-> NULL, op |-> "close", what |-> "none"]
NoReq == [st |-> "none", pkt |-> NoPacket]
HostIdle == [todo |-> <<>>, from |-> NULL, op |-> "close"]

Init ==
  /\ up = TRUE /\ restarts = 0
  /\ attached = FALSE /\ session = 0
  /\ mainev = {} /\ transev = {}
  /\ sema = NULL /\ connected = FALSE
  /\ req = [IN |-> NoReq, OUT |-> NoReq]
  /\ areq = "none"
  /\ th = [t \in Thread |-> ThreadInit]
  /\ waited = [c \in Client |-> NULL]
  /\ host = HostIdle
  /\ caught = FALSE

-----------------------------------------------------------------------------
(* Transfers. *)

Waiting(tt, d) == {t \in Thread : tt[t].pc = "wait" /\ Dir(Head(tt[t].prog)) = d}

\* Setting a bit of g_transevent wakes one waiter, which consumes it, or leaves
\* it set.  The value is the set of <<threads, g_transevent>> it may lead to.
SetTransEvent(d, tt, ev) ==
  IF Waiting(tt, d) = {}
  THEN {<<tt, ev \cup {d}>>}
  ELSE {<<[tt EXCEPT ![t].pc = "woken"], ev>> : t \in Waiting(tt, d)}

\* bulkin_req_done, bulkout_req_done: the bus completes the posted request.
Complete(d, st, pkt) ==
  /\ req[d].st = "pending"
  /\ req' = [req EXCEPT ![d] = [st |-> st, pkt |-> pkt]]
  /\ \E r \in SetTransEvent(d, th, transev) : th' = r[1] /\ transev' = r[2]

\* The packets of an operation are over: the thread still has to signal the
\* semaphore.  The magic is read without it: usb_thread goes back to its event
\* wait, or on to the hello.
Ended(t, r) ==
  [th[t] EXCEPT !.ret = r,
                !.prog = <<>>,
                !.pc = IF th[t].op # "magic" THEN "signal"
                       ELSE IF r = "fail" THEN "idle" ELSE "greet"]

End(t, r) == th' = [th EXCEPT ![t] = Ended(t, r)]

\* The operation is over and the caller gets its result.
Returned(t) ==
  [th[t] EXCEPT !.pc = IF t = U /\ th[t].ret = "ok" THEN "hello_ok" ELSE "idle"]

\* Mutant of Signal: an early return that leaves the semaphore taken.
SignalNever(t) ==
  /\ th[t].pc = "signal"
  /\ th' = [th EXCEPT ![t] = Returned(t)]
  /\ UNCHANGED <<up, restarts, attached, session, mainev, transev, sema, connected,
                 req, areq, waited, host, caught>>

\* sceKernelSignalSema(g_mainsema): whatever semaphore is there now is free, also
\* one that another thread took since (its count is at most one); none is there
\* while the driver is stopped.
Signal(t) ==
  /\ th[t].pc = "signal"
  /\ th' = [th EXCEPT ![t] = Returned(t)]
  /\ sema' = NULL
  /\ UNCHANGED <<up, restarts, attached, session, mainev, transev, connected, req,
                 areq, waited, host, caught>>

\* What a post does: the bus takes it, completes it with an error, or refuses it.
PostOutcomes == IF attached THEN {"pending"} ELSE
                {IF u = "error" THEN "err" ELSE "none" : u \in Unplugged}

\* set_bulkin_req, set_bulkout_req: the shared request is wiped and posted, its
\* bit cleared.  read_data gives up when the post is refused; write_data ignores
\* that and goes on to wait.
Post(t) ==
  LET what == Head(th[t].prog)
      d == Dir(what)
      pkt == IF d = "IN" THEN [to |-> t, op |-> th[t].op, what |-> what] ELSE NoPacket
  IN
  /\ th[t].pc = "post"
  /\ IF ~up
     THEN /\ End(t, "fail")
          /\ UNCHANGED <<req, transev>>
     ELSE \E st \in PostOutcomes :
            /\ req' = [req EXCEPT ![d] = [st |-> st, pkt |-> pkt]]
            /\ transev' = IF st = "err" THEN transev \cup {d} ELSE transev \ {d}
            /\ IF st = "none" /\ d = "OUT"
               THEN End(t, "fail")
               ELSE th' = [th EXCEPT ![t].pc = "posted"]
  /\ UNCHANGED <<up, restarts, attached, session, mainev, sema, connected, areq, waited, host, caught>>

\* sceKernelWaitEventFlag without a timeout, with WAITCLEAR.
Block(t) ==
  LET d == Dir(Head(th[t].prog)) IN
  /\ th[t].pc = "posted"
  /\ IF ~up
     THEN End(t, "fail") /\ UNCHANGED transev
     ELSE /\ transev' = transev \ {d}
          /\ th' = [th EXCEPT ![t].pc = IF d \in transev THEN "woken" ELSE "wait"]
  /\ UNCHANGED <<up, restarts, attached, session, mainev, sema, connected, req, areq, waited,
                 host, caught>>

\* The thread looks at the request structure as it is now: anything but a
\* successful completion with data ends the operation, and so does a packet that
\* is not the four bytes of the magic when those were asked for.  A packet shorter
\* than what is wanted (the magic where a response was expected) is followed by
\* another post for the rest.
Inspect(t) ==
  LET what == Head(th[t].prog)
      d == Dir(what)
      pkt == req[d].pkt
      mine == d = "IN" \/ pkt = [to |-> t, op |-> th[t].op, what |-> what]
      seen == [th EXCEPT ![t].clean = @ /\ mine]
  IN
  /\ th[t].pc = "woken"
  /\ IF req[d].st # "ok" \/ (what = "magic" /\ pkt.what # "magic")
     THEN End(t, "fail")
     ELSE IF pkt.what = "magic" /\ what # "magic"
     THEN th' = [seen EXCEPT ![t].pc = "post"]
     ELSE IF Len(th[t].prog) > 1
     THEN th' = [seen EXCEPT ![t].pc = "post", ![t].prog = Tail(@)]
     ELSE th' = [seen EXCEPT ![t] = [Ended(t, "ok") EXCEPT !.clean = seen[t].clean]]
  /\ UNCHANGED <<up, restarts, attached, session, mainev, transev, sema, connected, req,
                 areq, waited, host, caught>>

-----------------------------------------------------------------------------
(* Client threads. *)

\* usb_connected() is read before the semaphore is asked for.
Call(c, op) ==
  /\ th[c].pc = "idle"
  /\ th' = [th EXCEPT ![c] =
              IF connected
              THEN [ThreadInit EXCEPT !.pc = "sema", !.op = op, !.prog = Prog[op]]
              ELSE [ThreadInit EXCEPT !.ret = "fail"]]
  /\ UNCHANGED <<up, restarts, attached, session, mainev, transev, sema, connected,
                 req, areq, waited, host, caught>>

\* The wait for the semaphore failed: command_xchg returns 0 without signalling.
Refused(t) == [th[t] EXCEPT !.ret = "fail", !.prog = <<>>, !.pc = "idle"]

\* Mutant of WaitSema: the semaphore is not taken.
WaitSemaNever(t) ==
  /\ th[t].pc = "sema" /\ up
  /\ th' = [th EXCEPT ![t].pc = "post"]
  /\ UNCHANGED <<up, restarts, attached, session, mainev, transev, sema, connected, req,
                 areq, waited, host, caught>>

\* sceKernelWaitSema(g_mainsema) without a timeout.
WaitSema(t) ==
  /\ th[t].pc = "sema"
  /\ IF up
     THEN /\ sema = NULL /\ sema' = t
          /\ th' = [th EXCEPT ![t].pc = "post"]
     ELSE /\ th' = [th EXCEPT ![t] = Refused(t)]
          /\ UNCHANGED sema
  /\ UNCHANGED <<up, restarts, attached, session, mainev, transev, connected, req,
                 areq, waited, host, caught>>

\* usbWaitForConnect sleeps until g_mainevent exists, then waits for CONNECT and
\* leaves it set; it returns 1, or 0 when the wait fails (stop_func).
usbWaitForConnectCall(c) ==
  /\ up /\ th[c].pc = "idle"
  /\ th' = [th EXCEPT ![c] = [ThreadInit EXCEPT !.pc = "conn"]]
  /\ UNCHANGED <<up, restarts, attached, session, mainev, transev, sema, connected,
                 req, areq, waited, host, caught>>

usbWaitForConnectDone(c) ==
  /\ th[c].pc = "conn" /\ "CONNECT" \in mainev
  /\ th' = [th EXCEPT ![c] = ThreadInit]
  /\ waited' = [waited EXCEPT ![c] = 1]
  /\ UNCHANGED <<up, restarts, attached, session, mainev, transev, sema, connected,
                 req, areq, host, caught>>

-----------------------------------------------------------------------------
(* usb_thread. *)

\* Mutant of WaitedFor: USB_EVENT_ALL.
WaitedForAll == {"ATTACH", "DETACH", "ASYNC", "CONNECT"}

\* The bits usb_thread waits for and clears; CONNECT stays.
WaitedFor == {"ATTACH", "DETACH", "ASYNC"}

usb_thread_wait ==
  LET bits == mainev \cap WaitedFor IN
  /\ up /\ th[U].pc = "idle" /\ bits # {}
  /\ mainev' = mainev \ bits
  /\ th' = [th EXCEPT ![U].pc = "handle", ![U].result = bits]
  /\ UNCHANGED <<up, restarts, attached, session, transev, sema, connected, req,
                 areq, waited, host, caught>>

\* set_ayncreq, whose result is ignored: the request's new state and the bits.
Armed == {IF st = "none" THEN areq ELSE st : st \in PostOutcomes}
ArmedEvents(st, ev) == IF st = "err" THEN ev \cup {"ASYNC"} ELSE ev \ {"ASYNC"}

\* Mutants: only an attach disconnects; CONNECT is never cleared; a delivered
\* packet does not arm the request again.
DownOnAttach(result) == "ATTACH" \in result
KeepConnect(down) == {"ATTACH", "DETACH", "ASYNC", "CONNECT"}
NeverRearm(result) == FALSE

\* A detach and an attach disconnect; CONNECT is cleared then; a good packet arms
\* the request again.
Down(result) == result \cap {"ATTACH", "DETACH"} # {}
Keep(down) == {"ATTACH", "DETACH", "ASYNC"} \cup (IF down THEN {} ELSE {"CONNECT"})
Rearm(result) == "ASYNC" \in result /\ areq = "ok"

\* ASYNC first: a good packet is delivered and the request armed again.  Then
\* DETACH and ATTACH; both disconnect, and ATTACH starts reading the magic,
\* without the semaphore.
usb_thread_handle ==
  LET rearm == Rearm(th[U].result)
      down  == Down(th[U].result)
  IN
  /\ th[U].pc = "handle"
  /\ \E st \in IF rearm THEN Armed ELSE {areq} :
       /\ areq' = st
       /\ mainev' = (IF rearm THEN ArmedEvents(st, mainev) ELSE mainev) \cap Keep(down)
  /\ connected' = (connected /\ ~down)
  /\ th' = [th EXCEPT ![U] =
              IF "ATTACH" \in th[U].result
              THEN [ThreadInit EXCEPT !.pc = "post", !.op = "magic", !.prog = Prog.magic]
              ELSE ThreadInit]
  /\ UNCHANGED <<up, restarts, attached, session, transev, sema, req, waited, host, caught>>

\* The magic is right: send_hello_cmd asks for the semaphore.
usb_thread_greet ==
  /\ th[U].pc = "greet"
  /\ th' = [th EXCEPT ![U] = [ThreadInit EXCEPT !.pc = "sema", !.op = "hello",
                                                !.prog = Prog.hello]]
  /\ UNCHANGED <<up, restarts, attached, session, mainev, transev, sema, connected,
                 req, areq, waited, host, caught>>

\* HELLO was answered.
usb_thread_connect ==
  /\ th[U].pc = "hello_ok"
  /\ \E st \in Armed :
       /\ areq' = st
       /\ mainev' = ArmedEvents(st, mainev) \cup {"CONNECT"}
  /\ connected' = TRUE
  /\ th' = [th EXCEPT ![U] = ThreadInit]
  /\ UNCHANGED <<up, restarts, attached, session, transev, sema, req, waited, host, caught>>

-----------------------------------------------------------------------------
(* The PC and the bus. *)

\* A thread is outside an operation or blocked in one, and usb_thread has seen
\* every attach and detach.
AtRest(t) ==
  /\ th[t].pc \in {"idle", "wait"} \/ (th[t].pc = "sema" /\ sema # NULL)
     \/ (th[t].pc = "conn" /\ "CONNECT" \notin mainev)
  /\ t = U /\ th[U].pc = "idle" => mainev \cap {"ATTACH", "DETACH"} = {}

\* open_device succeeds: usb_set_configuration makes the PSP call usb_attach, and
\* the PC starts to write the magic.
open_device ==
  /\ up /\ ~attached /\ session < MaxSession
  /\ Prompt => \A t \in Thread : AtRest(t)
  /\ attached' = TRUE
  /\ session' = session + 1
  /\ mainev' = mainev \cup {"ATTACH"}
  /\ host' = [todo |-> Prog.magic, from |-> U, op |-> "magic"]
  /\ UNCHANGED <<up, restarts, transev, sema, connected, req, areq, th, waited, caught>>

\* The session ends (the cable, the PC program's end, usb_reset in close_device):
\* everything posted completes with an error and usb_detach is called.
CloseSession ==
  LET failed == {d \in {"IN", "OUT"} : req[d].st = "pending"}
      first  == IF "IN" \in failed THEN SetTransEvent("IN", th, transev)
                ELSE {<<th, transev>>}
  IN
  /\ attached' = FALSE
  /\ req' = [d \in {"IN", "OUT"} |->
               IF d \in failed THEN [req[d] EXCEPT !.st = "err"] ELSE req[d]]
  /\ \E r \in first :
       \E s \in IF "OUT" \in failed THEN SetTransEvent("OUT", r[1], r[2]) ELSE {r} :
         th' = s[1] /\ transev' = s[2]
  /\ areq' = IF areq = "pending" THEN "err" ELSE areq
  /\ mainev' = mainev \cup {"DETACH"} \cup (IF areq = "pending" THEN {"ASYNC"} ELSE {})
  /\ host' = HostIdle
  /\ UNCHANGED <<up, restarts, session, sema, connected, waited, caught>>

Detach == attached /\ CloseSession

\* The magic could not be written within a second: the PC closes the device.
MagicTimeout ==
  /\ attached /\ host.todo = <<"magic">> /\ req.OUT.st # "pending"
  /\ CloseSession

\* The PC reads a packet.  In its main loop a packet that starts an operation is
\* dispatched; any other has no magic and is skipped.
bulk_read ==
  LET pkt == req.IN.pkt
      start == pkt.what \in {"cmd", "async", "bulk"}
  IN
  /\ attached
  /\ \/ /\ host.todo = <<>>
        /\ host' = IF start THEN [host EXCEPT !.from = pkt.to, !.op = pkt.op,
                                              !.todo = Tail(Prog[pkt.op])]
                   ELSE host
     \/ /\ host.todo # <<>> /\ Dir(Head(host.todo)) = "IN"
        /\ host' = [host EXCEPT !.todo = Tail(@)]
  /\ Complete("IN", "ok", pkt)
  /\ UNCHANGED <<up, restarts, attached, session, mainev, sema, connected, areq, waited,
                 caught>>

\* The PC writes the magic, a response or its data to whoever has a read posted.
bulk_write ==
  /\ attached /\ host.todo # <<>> /\ Dir(Head(host.todo)) = "OUT"
  /\ Complete("OUT", "ok", [to |-> host.from, op |-> host.op, what |-> Head(host.todo)])
  /\ host' = [host EXCEPT !.todo = Tail(@)]
  /\ UNCHANGED <<up, restarts, attached, session, mainev, sema, connected, areq, waited,
                 caught>>

\* A handler's transfer times out: it returns -1 and the main loop goes on.
HandlerTimeout ==
  /\ PcTimeouts /\ attached
  /\ host.todo # <<>> /\ host.todo # <<"magic">>
  /\ req[Dir(Head(host.todo))].st # "pending"
  /\ host' = [host EXCEPT !.todo = <<>>]
  /\ UNCHANGED <<up, restarts, attached, session, mainev, transev, sema, connected,
                 req, areq, th, waited, caught>>

\* The PC's async thread forwards socket data to endpoint 3.
async_write ==
  /\ attached /\ areq = "pending"
  /\ areq' = "ok"
  /\ mainev' = mainev \cup {"ASYNC"}
  /\ UNCHANGED <<up, restarts, attached, session, transev, sema, connected, req, th, waited, host, caught>>

-----------------------------------------------------------------------------
(* The driver is switched off and on (usbhoff, usbhon). *)

\* The device has been deactivated before: no session is open.  usb_thread is
\* killed wherever it is; every wait on the deleted flags fails, and so does that
\* on the semaphore.  A client that has found itself connected and is about to
\* ask for the semaphore goes on to do so.  g_connected is left alone.
stop_func ==
  /\ up /\ ~attached /\ restarts < MaxRestart
  /\ up' = FALSE /\ restarts' = restarts + 1
  /\ mainev' = {} /\ transev' = {} /\ sema' = NULL
  /\ \E asleep \in SUBSET {c \in Client : th[c].pc = "sema"} :
       th' = [t \in Thread |->
                IF t = U THEN ThreadInit
                ELSE IF th[t].pc = "wait" THEN Ended(t, "fail")
                ELSE IF t \in asleep THEN Refused(t)
                ELSE IF th[t].pc = "conn" THEN ThreadInit ELSE th[t]]
  /\ waited' = [c \in Client |-> IF th[c].pc = "conn" THEN 0 ELSE waited[c]]
  /\ UNCHANGED <<attached, session, connected, req, areq, host, caught>>

\* Threads that take part in an exchange, from the semaphore's grant to its signal.
InExchange == {t \in Thread : th[t].pc \in {"post", "posted", "wait", "woken", "signal"}}

\* The flags and the semaphore are created anew, whatever the clients are at: one
\* that stop_func overtook in an exchange goes on with it, without the semaphore,
\* and signals it in the end.
start_func ==
  /\ ~up
  /\ up' = TRUE
  /\ caught' = (caught \/ InExchange # {})
  /\ UNCHANGED <<restarts, attached, session, mainev, transev, sema, connected, req,
                 areq, th, waited, host>>

Step(t) == Post(t) \/ Block(t) \/ Inspect(t) \/ Signal(t) \/ WaitSema(t)
UsbThread == \/ usb_thread_wait \/ usb_thread_handle
             \/ usb_thread_greet \/ usb_thread_connect

Next ==
  \/ \E t \in Thread : Step(t)
  \/ \E c \in Client : \/ \E op \in Ops : Call(c, op)
                      \/ usbWaitForConnectCall(c) \/ usbWaitForConnectDone(c)
  \/ UsbThread
  \/ open_device \/ Detach \/ MagicTimeout
  \/ bulk_read \/ bulk_write \/ HandlerTimeout \/ async_write
  \/ stop_func \/ start_func

Spec == Init /\ [][Next]_vars

\* Every thread that can run eventually does, the semaphore is granted in turn,
\* and the PC program keeps reading and answering; its write of the magic
\* does time out when nobody reads.
Fairness == /\ \A t \in Thread : /\ WF_vars(Post(t) \/ Block(t) \/ Inspect(t) \/ Signal(t))
                                 /\ SF_vars(WaitSema(t))
            /\ WF_vars(UsbThread)
            /\ WF_vars(bulk_read) /\ WF_vars(bulk_write) /\ WF_vars(MagicTimeout)
            /\ \A c \in Client : WF_vars(usbWaitForConnectDone(c))

FairSpec == Spec /\ Fairness

-----------------------------------------------------------------------------
Packet == [to : Thread \cup {NULL}, op : DOMAIN Prog,
           what : {"none", "magic", "resp", "rdata"} \cup InPackets]

Rests(p) == {SubSeq(p, i, Len(p)) : i \in 1 .. (Len(p) + 1)}

TypeOK ==
  /\ {up, attached, connected, caught} \subseteq BOOLEAN
  /\ restarts \in 0 .. MaxRestart /\ session \in 0 .. MaxSession
  /\ mainev \subseteq {"ATTACH", "DETACH", "ASYNC", "CONNECT"}
  /\ transev \subseteq {"IN", "OUT"}
  /\ sema \in Thread \cup {NULL}
  /\ req \in [{"IN", "OUT"} -> [st : {"none", "pending", "ok", "err"}, pkt : Packet]]
  /\ areq \in {"none", "pending", "ok", "err"}
  /\ \A t \in Thread :
       /\ th[t].pc \in {"idle", "sema", "post", "posted", "wait", "woken", "handle",
                        "greet", "hello_ok", "signal", "conn"}
       /\ th[t].op \in DOMAIN Prog /\ th[t].ret \in {"none", "ok", "fail"}
       /\ th[t].result \subseteq {"ATTACH", "DETACH", "ASYNC"}
       /\ th[t].prog \in Rests(Prog[th[t].op])
  /\ host.todo \in Rests(Prog[host.op])
  /\ waited \in [Client -> {NULL, 0, 1}]

\* An exchange that reports success received exactly the packets the PC sent for
\* it: never another thread's response, an earlier session's, or the handshake
\* magic, although every thread posts the same two request structures and
\* usb_thread reads the magic without the semaphore (command_xchg, read_data).
\* Restarts keep it so, but for one case: a client that usbhoff and the next
\* usbhon overtake between its grant of the semaphore and its signal goes on
\* beside the new holder (start_func waits for nobody).
ExchangeIsMine == ~caught => \A t \in Thread : th[t].ret = "ok" => th[t].clean

\* usb_thread still has to look at an attach or a detach.
NewsPending ==
  LET news == {"ATTACH", "DETACH"} IN
  mainev \cap news # {} \/ (th[U].pc = "handle" /\ th[U].result \cap news # {})

\* g_connected is true only while the PC serves this session, or usb_thread has
\* yet to hear that it no longer does: a detach and a re-attach, however fast,
\* never leave it stale.
ConnectedMeansSession ==
  connected => NewsPending \/ (attached /\ host.todo # <<"magic">>)

\* The same until the driver is first stopped: stop_func leaves g_connected set
\* and the next start_func takes it over.
FreshConnection == restarts = 0 => ConnectedMeansSession

\* Input keeps flowing: while connected, the receive request of endpoint 3 is
\* armed or its completion is on its way to usb_thread.
InputStaysArmed ==
  connected /\ ~NewsPending /\ restarts = 0 =>
    \/ areq = "pending"
    \/ "ASYNC" \in mainev \cup (IF th[U].pc = "handle" THEN th[U].result ELSE {})

\* Everybody waiting for the connection is told: CONNECT is set exactly while
\* connected (usbWaitForConnect).
ConnectAnnounced == up /\ restarts = 0 => (connected <=> "CONNECT" \in mainev)

\* All three: what a program learns of the connection, and the input it is
\* promised, follow the cable until the driver is first stopped.
ConnectionFollows == TypeOK /\ FreshConnection /\ InputStaysArmed /\ ConnectAnnounced

\* A session that lasts gets through the handshake, whatever the clients were
\* doing when it began.
Handshaken == connected /\ ~NewsPending /\ th[U].pc = "idle"
SessionConnects ==
  \A s \in 1 .. MaxSession :
    (attached /\ session = s) ~> (Handshaken \/ ~attached \/ session # s)

\* No client stays in an exchange for ever, holding the semaphore or waiting for
\* it, whether the session ends or not.
ExchangeEnds ==
  \A c \in Client : th[c].pc \notin {"idle", "conn"} ~> th[c].pc = "idle"
=============================================================================
