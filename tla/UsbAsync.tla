------------------------------ MODULE UsbAsync ------------------------------
(***************************************************************************)
(* The asynchronous channels of the PSP-side USB driver (usbhostfs/main.c). *)
(* usb_thread demultiplexes packets from endpoint 3 into the ring of the    *)
(* channel they name; client threads (usbshell, usbgdb, echo, remotejoy)    *)
(* block in usbAsyncRead on the channel's bit of one event flag.            *)
(*                                                                          *)
(* The functions that touch g_async_chan or a ring run with interrupts off  *)
(* and are single steps.  usbAsyncRead is three: the check of the channel,  *)
(* the wait, and the copy; everything else can happen between them.         *)
(***************************************************************************)
EXTENDS Ring

CONSTANTS NumChan,      \* MAX_ASYNC_CHANNELS
          AsyncUser,    \* ASYNC_USER: first channel ASYNC_ALLOC_CHAN may give
          Client,       \* client modules, each with one AsyncEndpoint and one reader
          Want,         \* the channel each client asks for: a number or Alloc
          Payload,      \* the payloads a packet may carry (nonempty sequences)
          MaxRead,      \* bound on the len argument of usbAsyncRead
          Quiesce,      \* TRUE: a channel is torn down only when nobody reads it
          NULL

Chan  == 0 .. (NumChan - 1)
Alloc == -1             \* ASYNC_ALLOC_CHAN

ASSUME AsyncAssumption ==
  /\ NumChan \in Nat \ {0} /\ AsyncUser \in Chan
  /\ Want \in [Client -> Chan \cup {Alloc}]
  /\ \A r \in Client : Want[r] # Alloc => Want[r] < AsyncUser
  /\ \A r, s \in Client : r # s /\ Want[r] # Alloc => Want[r] # Want[s]
  /\ Payload \subseteq Seq(Byte) \ {<<>>}
  /\ MaxRead \in Nat \ {0}
  /\ Quiesce \in BOOLEAN
  /\ NULL \notin Client

VARIABLES up,        \* g_asyncevent exists (between start_func and stop_func)
          chan,      \* g_async_chan: the client whose endpoint a channel has
          endp,      \* the AsyncEndpoint of every client
          event,     \* bits set in g_asyncevent
          pc,        \* where every client's usbAsyncRead is
          mychan,    \* the channel number the client passes to the API
          got        \* bytes its last usbAsyncRead returned; NULL for -1

vars == <<up, chan, endp, event, pc, mychan, got>>

Reading(r) == pc[r] \in {"wait", "woken"}

\* Nobody is inside usbAsyncRead on channel c, or teardown need not care.
MayTearDown(c) == Quiesce => \A r \in Client : Reading(r) => mychan[r] # c

Init ==
  /\ up = FALSE
  /\ chan = [c \in Chan |-> NULL]
  /\ endp = [r \in Client |-> EmptyRing]
  /\ event = {}
  /\ pc = [r \in Client |-> "idle"]
  /\ mychan = Want
  /\ got = [r \in Client |-> <<>>]

-----------------------------------------------------------------------------
(***************************************************************************)
(* The kernel's event flag with PSP_EVENT_WAITCLEAR waiters: setting a bit  *)
(* somebody waits for wakes one waiter, which consumes the bit; otherwise   *)
(* the bit stays set until the next wait or clear.                          *)
(***************************************************************************)
sceKernelSetEventFlag(c, pcs) ==
  LET waiters == {r \in Client : pcs[r] = "wait" /\ mychan[r] = c} IN
  \/ /\ waiters = {}
     /\ event' = event \cup {c}
     /\ pc' = pcs
  \/ \E r \in waiters :
       /\ pc' = [pcs EXCEPT ![r] = "woken"]
       /\ UNCHANGED event

\* usb_thread got a packet for channel c: the payload goes into the ring as far
\* as it fits, and the bit is set even when nothing fitted.
fill_async(c, data) ==
  /\ up /\ chan[c] # NULL
  /\ endp' = [endp EXCEPT ![chan[c]] = RingPut(@, data)]
  /\ sceKernelSetEventFlag(c, pc)
  /\ UNCHANGED <<up, chan, mychan, got>>

-----------------------------------------------------------------------------
\* The free channels a request may be given: ASYNC_ALLOC_CHAN scans upwards
\* from ASYNC_USER, a fixed number is taken only if it is free.
Granted(want) ==
  IF want = Alloc
  THEN {c \in AsyncUser .. (NumChan - 1) :
          chan[c] = NULL /\ \A d \in AsyncUser .. (c - 1) : chan[d] # NULL}
  ELSE {c \in {want} : chan[c] = NULL}

\* A client registers its own endpoint, which no channel holds at that time.
\* The trailing usbAsyncFlush is part of it.
usbAsyncRegister(r) ==
  /\ pc[r] = "idle"
  /\ \A c \in Chan : chan[c] # r
  /\ \E c \in Granted(Want[r]) :
       /\ chan' = [chan EXCEPT ![c] = r]
       /\ endp' = [endp EXCEPT ![r] = RingFlush(@)]
       /\ event' = event \ {c}
       /\ mychan' = [mychan EXCEPT ![r] = c]
  /\ UNCHANGED <<up, pc, got>>

\* The event bit is left alone.
usbAsyncUnregister(c) ==
  /\ chan[c] # NULL /\ MayTearDown(c)
  /\ chan' = [chan EXCEPT ![c] = NULL]
  /\ UNCHANGED <<up, endp, event, pc, mychan, got>>

usbAsyncFlush(c) ==
  /\ chan[c] # NULL
  /\ endp' = [endp EXCEPT ![chan[c]] = RingFlush(@)]
  /\ event' = event \ {c}
  /\ UNCHANGED <<up, chan, pc, mychan, got>>

-----------------------------------------------------------------------------
\* Mutant of Registered: the NULL check dropped.
InRange(r) == mychan[r] \in Chan

\* The channel number passed in is in range and somebody has registered it.
Registered(r) == mychan[r] \in Chan /\ chan[mychan[r]] # NULL

\* usbAsyncRead, first part: the bounds and registration check, then the wait.
\* A bit that is already set is consumed without blocking; an event flag that
\* does not exist makes the wait fail.
usbAsyncReadCall(r) ==
  /\ pc[r] = "idle"
  /\ \/ /\ ~(Registered(r) /\ up)
        /\ got' = [got EXCEPT ![r] = NULL]
        /\ UNCHANGED <<event, pc>>
     \/ /\ Registered(r) /\ up
        /\ IF mychan[r] \in event
           THEN /\ event' = event \ {mychan[r]}
                /\ pc' = [pc EXCEPT ![r] = "woken"]
           ELSE /\ pc' = [pc EXCEPT ![r] = "wait"]
                /\ UNCHANGED event
        /\ UNCHANGED got
  /\ UNCHANGED <<up, chan, endp, mychan>>

\* Mutant of MoreToRead: leftover bytes are not signalled again.
NeverMore(ring, n) == FALSE

\* Bytes stay in the ring after n of them were copied out.
MoreToRead(ring, n) == ring.size # n

\* usbAsyncRead, second part, after the wait: g_async_chan[chan] is read again
\* and followed without a check.  Bytes left over set the bit again.
usbAsyncReadCopy(r) ==
  LET c == mychan[r] IN
  /\ pc[r] = "woken" /\ chan[c] # NULL
  /\ LET ring == endp[chan[c]] IN
     \E len \in 1 .. MaxRead :
       LET n == Smaller(len, ring.size) IN
       /\ got' = [got EXCEPT ![r] = RingBytes(ring, n)]
       /\ endp' = [endp EXCEPT ![chan[c]] = RingTake(ring, n)]
       /\ IF MoreToRead(ring, n) /\ up
          THEN sceKernelSetEventFlag(c, [pc EXCEPT ![r] = "idle"])
          ELSE /\ pc' = [pc EXCEPT ![r] = "idle"]
               /\ UNCHANGED event
  /\ UNCHANGED <<up, chan, mychan>>

\* The same access through a channel that was torn down meanwhile: a fault in
\* the driver with interrupts off, from which the client does not come back.
usbAsyncReadFault(r) ==
  /\ pc[r] = "woken" /\ chan[mychan[r]] = NULL
  /\ pc' = [pc EXCEPT ![r] = "fault"]
  /\ UNCHANGED <<up, chan, endp, event, mychan, got>>

-----------------------------------------------------------------------------
\* start_func forgets every registration and creates a cleared event flag.
start_func ==
  /\ ~up /\ \A c \in Chan : MayTearDown(c)
  /\ up' = TRUE
  /\ chan' = [c \in Chan |-> NULL]
  /\ event' = {}
  /\ UNCHANGED <<endp, pc, mychan, got>>

\* stop_func deletes the event flag; a blocked reader's wait fails with -1.
stop_func ==
  /\ up
  /\ up' = FALSE
  /\ event' = {}
  /\ pc' = [r \in Client |-> IF pc[r] = "wait" THEN "idle" ELSE pc[r]]
  /\ got' = [r \in Client |-> IF pc[r] = "wait" THEN NULL ELSE got[r]]
  /\ UNCHANGED <<chan, endp, mychan>>

Next ==
  \/ start_func \/ stop_func
  \/ \E c \in Chan :
       \/ \E data \in Payload : fill_async(c, data)
       \/ usbAsyncUnregister(c)
       \/ usbAsyncFlush(c)
  \/ \E r \in Client :
       \/ usbAsyncRegister(r)
       \/ usbAsyncReadCall(r)
       \/ usbAsyncReadCopy(r)
       \/ usbAsyncReadFault(r)

\* A client thread that is runnable runs: it calls usbAsyncRead in a loop and,
\* once woken, leaves the copy loop.
Fairness == \A r \in Client : /\ WF_vars(usbAsyncReadCall(r))
                              /\ WF_vars(usbAsyncReadCopy(r))

Spec == Init /\ [][Next]_vars
FairSpec == Spec /\ Fairness

-----------------------------------------------------------------------------
TypeOK ==
  /\ up \in BOOLEAN
  /\ chan \in [Chan -> Client \cup {NULL}]
  /\ endp \in [Client -> RingType]
  /\ event \in SUBSET Chan
  /\ pc \in [Client -> {"idle", "wait", "woken", "fault"}]
  /\ mychan \in [Client -> Chan \cup {Alloc}]
  /\ got \in [Client -> Seq(Byte) \cup {NULL}]

\* Every ring's positions and count agree, whatever mix of short reads, full
\* buffers, flushes and re-registrations led here (fill_async, usbAsyncRead).
RingsConsistent == \A r \in Client : RingConsistent(endp[r])

\* No lost wake-up in usbAsyncRead: a reader blocked on a channel whose ring
\* holds data has another woken reader of that channel ahead of it (which sets
\* the bit again for what it leaves), and its bit is not already set.
NoLostWakeup ==
  \A r \in Client : pc[r] = "wait" =>
    /\ mychan[r] \notin event
    /\ (chan[mychan[r]] # NULL /\ endp[chan[mychan[r]]].size > 0) =>
         \E s \in Client : pc[s] = "woken" /\ mychan[s] = mychan[r]

\* When channels are torn down only with no reader inside usbAsyncRead, its
\* unchecked second use of g_async_chan[chan] never follows a NULL pointer.
NoFault == Quiesce => \A r \in Client : pc[r] # "fault"

\* ... and a client of a reserved channel only ever drains its own endpoint.
ReaderOwnsChannel ==
  Quiesce => \A r \in Client :
    Reading(r) /\ Want[r] # Alloc => chan[mychan[r]] = r

\* The byte at the head of a registered client's ring is eventually read (or
\* flushed, or the registration goes): partial reads keep the bit set and no
\* interleaving of packets and reads leaves data behind with nobody signalled.
Live(r) == up /\ mychan[r] # Alloc /\ chan[mychan[r]] = r

HeadIsRead ==
  \A r \in Client : \A p \in Pos :
    (Live(r) /\ endp[r].read_pos = p /\ endp[r].size > 0)
      ~> (~Live(r) \/ endp[r].read_pos # p \/ endp[r].size = 0)

-----------------------------------------------------------------------------
\* The unread bytes of every endpoint, oldest first.
Unread == [r \in Client |-> Contents(endp[r])]

\* The bounded FIFO every endpoint is meant to be.
Pipe == INSTANCE AsyncPipe WITH Capacity <- BufSize, queue <- Unread

\* fill_async, usbAsyncRead and usbAsyncFlush over the ring implement a bounded
\* FIFO per endpoint: no byte is reordered, duplicated or taken from a stale
\* slot, whatever the positions are.
ImplementsPipe == Pipe!Spec
=============================================================================
