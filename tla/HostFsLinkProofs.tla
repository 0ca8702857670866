-------------------------- MODULE HostFsLinkProofs --------------------------
(***************************************************************************)
(* The USB link for every number of client threads, sessions and restarts:  *)
(* an exchange that reports success received its own packets, and what      *)
(* programs learn of the connection follows the cable.                      *)
(***************************************************************************)
EXTENDS HostFsLink, SequenceTheorems, TLAPS

-----------------------------------------------------------------------------
(* The inductive invariant. *)

What == {"magic", "resp", "rdata"} \cup InPackets

Pc == {"idle", "sema", "post", "posted", "wait", "woken", "handle", "greet",
       "hello_ok", "signal", "conn"}

ThreadRec == [pc : Pc, op : DOMAIN Prog, prog : Seq(What), clean : BOOLEAN,
              ret : {"none", "ok", "fail"}, result : SUBSET {"ATTACH", "DETACH", "ASYNC"}]

\* TypeOK, and what kind of value the threads and the host are.
Typed == /\ TypeOK
         /\ th \in [Thread -> ThreadRec]
         /\ host \in [todo : Seq(What), from : Thread \cup {NULL}, op : DOMAIN Prog]

\* A thread inside an operation has packets left and no result yet, one that is
\* about to signal has a result; one that waits for the semaphore has not begun;
\* only usb_thread reads the magic.
Placed(t, r) ==
  /\ r.prog \in Rests(Prog[r.op])
  /\ r.pc \in {"sema", "post", "posted", "wait", "woken"} => r.prog # <<>> /\ r.ret = "none"
  /\ r.pc = "sema" => r.op # "magic" /\ r.prog = Prog[r.op] /\ r.clean
  /\ r.pc = "signal" => r.op # "magic" /\ r.ret # "none"
  /\ r.pc \in {"handle", "greet", "hello_ok"} => t = U
  /\ r.op = "magic" => t = U /\ r.clean
  /\ t = U => r.op \in {"magic", "hello", "close"} /\ (r.op = "close" => r.prog = <<>> /\ r.pc # "signal")

Stopped == ~up => th[U].pc = "idle" /\ restarts # 0

\* The magic is usb_thread's.
MagicIsU ==
  LET magic == [to |-> U, op |-> "magic", what |-> "magic"] IN
  /\ host.todo = <<"magic">> => host.from = U /\ host.op = "magic"
  /\ req["OUT"].pkt.what = "magic" => req["OUT"].pkt = magic

Base == /\ Typed /\ Stopped /\ MagicIsU
        /\ \A t \in Thread : Placed(t, th[t])

\* The thread exchanges packets under the semaphore; it holds the semaphore until
\* it signals.
InOp(t) == th[t].pc \in {"post", "posted", "wait", "woken"} /\ th[t].op # "magic"
Holds(t) == InOp(t) \/ th[t].pc = "signal"

\* One thread at a time does, even while stop_func lets the last one run out.
Exclusive ==
  /\ \A t \in Thread : Holds(t) => sema = t \/ ~up
  /\ \A s, t \in Thread : Holds(s) /\ Holds(t) => s = t
  /\ \A t \in Thread : sema = t => Holds(t) /\ up

\* The direction of the packet a thread is at, and whether it was transferred.
Way(t) == Dir(Head(th[t].prog))
Done(t) == th[t].pc \in {"posted", "wait", "woken"} /\ req[Way(t)].st = "ok"

\* The thread has posted a packet and has not been woken.
Sending(t) == InOp(t) /\ th[t].pc \in {"posted", "wait"} /\ Way(t) = "IN"

\* Requests are pending only in a session, and the one of endpoint 1 only for the
\* thread whose packet it carries.
BusOwned ==
  /\ attached => up
  /\ ~attached => host.todo = <<>>
  /\ \A d \in {"IN", "OUT"} : req[d].st = "pending" => attached
  /\ req["IN"].pkt.what # "magic"
  /\ req["IN"].st = "pending" =>
       /\ "IN" \notin transev
       /\ \E t \in Thread :
            /\ Sending(t)
            /\ req["IN"].pkt = [to |-> t, op |-> th[t].op, what |-> Head(th[t].prog)]

\* The PC is idle or at the magic; it serves thread t's operation.
Quiet == host.todo \in {<<>>, <<"magic">>}
Serves(t) == host.from = t /\ host.op = th[t].op

\* While the PC waits for data it waits for the thread's that sends it.
Awaits == host.todo # <<>> /\ Dir(Head(host.todo)) = "IN"
AwaitedBy(t) ==
  /\ InOp(t) /\ Serves(t)
  /\ IF Done(t) THEN host.todo = Tail(th[t].prog)
     ELSE /\ host.todo = th[t].prog
          /\ th[t].pc = "post" \/ req["IN"].st = "pending"
HostAwaits == Awaits => \E t \in Thread : AwaitedBy(t)

\* The PC is with thread t or ahead of it, never behind: what it still has to
\* send is a rest of what the thread expects, and all of it only if nothing
\* foreign was received.  Before its first packet a thread may find the PC busy
\* with what an earlier one gave up.
NotYet(t) == \/ Quiet
             \/ /\ Serves(t) /\ host.todo \in Rests(th[t].prog)
                /\ host.todo = th[t].prog => th[t].clean
             \/ th[t].prog = Prog[th[t].op]

Sent(t) == Quiet \/ (Serves(t) /\ host.todo \in Rests(Tail(th[t].prog)))

Received(t) ==
  LET pkt == req["OUT"].pkt IN
  \/ pkt.what = "magic" /\ Quiet
  \/ \E q \in Rests(th[t].prog) :
       /\ q # <<>> /\ pkt = [to |-> t, op |-> th[t].op, what |-> Head(q)]
       /\ q = th[t].prog => th[t].clean
       /\ Quiet \/ (Serves(t) /\ host.todo \in Rests(Tail(q)))

Along(t) ==
  /\ Way(t) = "IN" => th[t].clean
  /\ ~Done(t) => NotYet(t)
  /\ Done(t) /\ Way(t) = "IN" => Sent(t)
  /\ Done(t) /\ Way(t) = "OUT" => Received(t)
InStep == \A t \in Thread : InOp(t) => Along(t)

\* What a successful exchange received was its own.
OwnPackets == \A t \in Thread : th[t].ret = "ok" => th[t].clean

\* All of it, as long as no restart overtook an exchange.
XInv == Base /\ Exclusive /\ BusOwned /\ HostAwaits /\ InStep /\ OwnPackets
SInv == Base /\ (~caught => XInv)

\* usb_thread has not yet been told of an attach or a detach.
News == mainev \cap {"ATTACH", "DETACH"} # {}
Served == News \/ (attached /\ host.todo # <<"magic">>)

\* A handshake that got past the magic did so in this session, or there is news.
Greeted ==
  /\ th[U].op = "magic" /\ th[U].pc \in {"posted", "wait", "woken"}
       /\ req["OUT"].st = "ok" /\ req["OUT"].pkt.what = "magic" => Served
  /\ th[U].op = "hello" /\ th[U].pc \in {"sema", "post", "posted", "wait", "woken", "signal"} => Served
  /\ th[U].pc \in {"greet", "hello_ok"} => Served

\* The receive request of endpoint 3 is armed, or holds a packet usb_thread will
\* be told of.
InputArmed ==
  connected /\ ~NewsPending /\ restarts = 0 =>
    \/ areq = "pending"
    \/ areq = "ok" /\ "ASYNC" \in mainev \cup (IF th[U].pc = "handle" THEN th[U].result ELSE {})

Follows == FreshConnection /\ ConnectAnnounced /\ InputArmed
CInv == Base /\ Greeted /\ Follows

-----------------------------------------------------------------------------
(* The packets of an operation, and what is left of them. *)

\* Every operation is one, two or three packets.
LEMMA ProgIs ==
  /\ DOMAIN Prog = {"hello", "magic", "close", "write", "read", "async", "bulk"}
  /\ Prog["hello"] = <<"cmd", "resp">> /\ Prog["magic"] = <<"magic">>
  /\ Prog["close"] = <<"cmd", "resp">> /\ Prog["write"] = <<"cmd", "data", "resp">>
  /\ Prog["read"] = <<"cmd", "resp", "rdata">> /\ Prog["async"] = <<"async">>
  /\ Prog["bulk"] = <<"bulk", "bdata">>
BY DEF Prog

\* What is left of an operation without packets: nothing.
LEMMA RestsEmpty == Rests(<<>>) = {<<>>}
<1>1. SubSeq(<<>>, 1, 0) = <<>>
  OBVIOUS
<1>2. Rests(<<>>) = {SubSeq(<<>>, 1, 0)}
  BY DEF Rests
<1>3. QED BY <1>1, <1>2

\* The rests of a sequence are itself and the rests of its tail.
LEMMA RestsStep ==
  ASSUME NEW S, NEW w \in Seq(S), w # <<>>
  PROVE  Rests(w) = {w} \cup Rests(Tail(w))
<1> DEFINE t == Tail(w)
           n == Len(w)
<1>1. /\ t \in Seq(S) /\ Len(t) = n - 1 /\ n \in Nat /\ n >= 1
      /\ \A i \in 1 .. Len(t) : t[i] = w[i + 1]
  BY HeadTailProperties
<1>2. SubSeq(w, 1, n) = w
  BY SubSeqFull
<1>3. ASSUME NEW i \in 2 .. (n + 1)
      PROVE  SubSeq(w, i, n) = SubSeq(t, i - 1, n - 1)
  <2> DEFINE u == SubSeq(w, i, n)
             v == SubSeq(t, i - 1, n - 1)
  <2>0. i \in Int /\ n \in Int /\ i - 1 \in Int /\ n - 1 \in Int /\ i >= 2 /\ i <= n + 1
    BY <1>1
  <2>1. /\ \A j \in i .. n : w[j] \in S
        /\ \A j \in (i - 1) .. (n - 1) : t[j] \in S
    BY <1>1, <2>0
  <2>2. /\ u \in Seq(S) /\ Len(u) = IF i <= n THEN n - i + 1 ELSE 0
        /\ \A j \in 1 .. n - i + 1 : u[j] = w[i + j - 1]
    BY <2>0, <2>1, SubSeqProperties
  <2>3. /\ v \in Seq(S)
        /\ Len(v) = IF i - 1 <= n - 1 THEN (n - 1) - (i - 1) + 1 ELSE 0
        /\ \A j \in 1 .. (n - 1) - (i - 1) + 1 : v[j] = t[(i - 1) + j - 1]
    BY <2>0, <2>1, SubSeqProperties
  <2> HIDE DEF u, v, n, t
  <2>4. Len(u) = n - i + 1 /\ Len(v) = n - i + 1
    BY <2>0, <2>2, <2>3
  <2>5. ASSUME NEW j \in 1 .. (n - i + 1) PROVE u[j] = v[j]
    <3>1. /\ (i - 1) + j - 1 \in 1 .. Len(t) /\ (i - 1) + j - 1 + 1 = i + j - 1
          /\ (n - 1) - (i - 1) + 1 = n - i + 1
      BY <1>1, <2>0
    <3>2. v[j] = t[(i - 1) + j - 1] /\ u[j] = w[i + j - 1]
      BY <2>2, <2>3, <3>1
    <3>3. t[(i - 1) + j - 1] = w[(i - 1) + j - 1 + 1]
      BY <1>1, <3>1
    <3>4. QED BY <3>1, <3>2, <3>3
  <2>6. QED BY <2>2, <2>3, <2>4, <2>5, SeqEqual DEF u, v
<1>4. Rests(t) = {SubSeq(t, i - 1, n - 1) : i \in 2 .. (n + 1)}
  <2>1. Rests(t) = {SubSeq(t, i, n - 1) : i \in 1 .. n}
    BY <1>1 DEF Rests
  <2> HIDE DEF t, n
  <2>2. \A i \in 2 .. (n + 1) : i - 1 \in 1 .. n
    BY <1>1
  <2>3. \A i \in 1 .. n : i + 1 \in 2 .. (n + 1) /\ (i + 1) - 1 = i
    BY <1>1
  <2>4. QED BY <2>1, <2>2, <2>3
<1>5. Rests(w) = {SubSeq(w, i, n) : i \in 1 .. (n + 1)}
  BY DEF Rests
<1> HIDE DEF t, n
<1>6. \A i \in 1 .. (n + 1) : i = 1 \/ i \in 2 .. (n + 1)
  BY <1>1
<1>7. 1 \in 1 .. (n + 1) /\ \A i \in 2 .. (n + 1) : i \in 1 .. (n + 1)
  BY <1>1
<1>8. Rests(w) = {w} \cup Rests(t)
  BY <1>2, <1>3, <1>4, <1>5, <1>6, <1>7
<1>9. QED BY <1>8 DEF t

\* The rests of one, two and three packets.
LEMMA RestsOne == \A a : Rests(<<a>>) = {<<a>>, <<>>}
<1> TAKE a
<1> DEFINE w == <<a>>
<1>1. w \in Seq({a}) /\ w # <<>> /\ Tail(w) = <<>>
  OBVIOUS
<1> HIDE DEF w
<1>2. Rests(w) = {w} \cup {<<>>}
  BY <1>1, RestsStep, RestsEmpty
<1>3. QED BY <1>2 DEF w

\* What is left of an operation of two packets.
LEMMA RestsTwo == \A a, b : Rests(<<a, b>>) = {<<a, b>>, <<b>>, <<>>}
<1> TAKE a, b
<1> DEFINE w == <<a, b>>
           u == <<b>>
<1>1. w \in Seq({a, b}) /\ w # <<>> /\ Tail(w) = u
  OBVIOUS
<1>2. Rests(u) = {u, <<>>}
  BY RestsOne
<1> HIDE DEF w, u
<1>3. Rests(w) = {w} \cup {u, <<>>}
  BY <1>1, <1>2, RestsStep
<1>4. QED BY <1>3 DEF w, u

\* What is left of an operation of three packets.
LEMMA RestsThree == \A a, b, c : Rests(<<a, b, c>>) = {<<a, b, c>>, <<b, c>>, <<c>>, <<>>}
<1> TAKE a, b, c
<1> DEFINE w == <<a, b, c>>
           u == <<b, c>>
<1>1. w \in Seq({a, b, c}) /\ w # <<>> /\ Tail(w) = u
  OBVIOUS
<1>2. Rests(u) = {u, <<c>>, <<>>}
  BY RestsTwo
<1> HIDE DEF w, u
<1>3. Rests(w) = {w} \cup {u, <<c>>, <<>>}
  BY <1>1, <1>2, RestsStep
<1>4. QED BY <1>3 DEF w, u

\* What is left of a sequence of up to three packets: itself, and what is left
\* after the first.
Below(w, p, q) ==
  /\ q \in Rests(w)
  /\ q # p => q \in Rests(Tail(p))
  /\ q # <<>> => /\ Tail(q) \in Rests(p) /\ p \notin Rests(Tail(q))
                 /\ \A r \in Rests(Tail(q)) : r \in Rests(p)
Ordered(w) ==
  \A p \in Rests(w) :
    /\ p \in Rests(p) /\ <<>> \in Rests(p)
    /\ p # <<>> => Tail(p) \in Rests(w) /\ (Len(p) > 1 <=> Tail(p) # <<>>)
    /\ \A q \in Rests(p) : Below(w, p, q)

\* So are the packets of every operation.
LEMMA OrderedOne == \A c : Ordered(<<c>>)
<1> TAKE c
<1> DEFINE w0 == <<>>
           w1 == <<c>>
<1>1. /\ Rests(w0) = {w0}
      /\ Rests(w1) = {w1, w0}
  BY RestsEmpty, RestsOne
<1>2. /\ w0 = <<>>
      /\ Tail(w1) = w0 /\ w1 # w0
      /\ ~ Len(w1) > 1
  OBVIOUS
<1> HIDE DEF w0, w1
<1>3. \A q \in Rests(w0) : Below(w1, w0, q)
  <2>1. Below(w1, w0, w0)
    BY <1>1, <1>2 DEF Below
  <2>2. QED BY <1>1, <2>1
<1>4. \A q \in Rests(w1) : Below(w1, w1, q)
  <2>1. Below(w1, w1, w0)
    BY <1>1, <1>2 DEF Below
  <2>2. Below(w1, w1, w1)
    <3>1. Rests(Tail(w1)) = {w0}
      BY <1>1, <1>2
    <3>2. QED BY <1>1, <1>2, <3>1 DEF Below
  <2>3. QED BY <1>1, <2>1, <2>2
<1>5. Ordered(w1)
  BY <1>1, <1>2, <1>3, <1>4 DEF Ordered
<1>6. QED BY <1>5 DEF w1

\* The rests of two packets lie one inside the other.
LEMMA OrderedTwo == \A b, c : Ordered(<<b, c>>)
<1> TAKE b, c
<1> DEFINE w0 == <<>>
           w1 == <<c>>
           w2 == <<b, c>>
<1>1. /\ Rests(w0) = {w0}
      /\ Rests(w1) = {w1, w0}
      /\ Rests(w2) = {w2, w1, w0}
  BY RestsEmpty, RestsOne, RestsTwo
<1>2. /\ w0 = <<>>
      /\ Tail(w1) = w0 /\ w1 # w0
      /\ Tail(w2) = w1 /\ w2 # w0 /\ w2 # w1
      /\ ~ Len(w1) > 1 /\ Len(w2) > 1
  OBVIOUS
<1> HIDE DEF w0, w1, w2
<1>3. \A q \in Rests(w0) : Below(w2, w0, q)
  <2>1. Below(w2, w0, w0)
    BY <1>1, <1>2 DEF Below
  <2>2. QED BY <1>1, <2>1
<1>4. \A q \in Rests(w1) : Below(w2, w1, q)
  <2>1. Below(w2, w1, w0)
    BY <1>1, <1>2 DEF Below
  <2>2. Below(w2, w1, w1)
    BY <1>1, <1>2 DEF Below
  <2>3. QED BY <1>1, <2>1, <2>2
<1>5. \A q \in Rests(w2) : Below(w2, w2, q)
  <2>1. Below(w2, w2, w0)
    BY <1>1, <1>2 DEF Below
  <2>2. Below(w2, w2, w1)
    BY <1>1, <1>2 DEF Below
  <2>3. Below(w2, w2, w2)
    BY <1>1, <1>2 DEF Below
  <2>4. QED BY <1>1, <2>1, <2>2, <2>3
<1>6. Ordered(w2)
  BY <1>1, <1>2, <1>3, <1>4, <1>5 DEF Ordered
<1>7. QED BY <1>6 DEF w2

\* The rests of three packets lie one inside the other.
LEMMA OrderedThree == \A a, b, c : Ordered(<<a, b, c>>)
<1> TAKE a, b, c
<1> DEFINE w0 == <<>>
           w1 == <<c>>
           w2 == <<b, c>>
           w3 == <<a, b, c>>
<1>1. /\ Rests(w0) = {w0}
      /\ Rests(w1) = {w1, w0}
      /\ Rests(w2) = {w2, w1, w0}
      /\ Rests(w3) = {w3, w2, w1, w0}
  BY RestsEmpty, RestsOne, RestsTwo, RestsThree
<1>2. /\ w0 = <<>>
      /\ Tail(w1) = w0 /\ w1 # w0
      /\ Tail(w2) = w1 /\ w2 # w0 /\ w2 # w1
      /\ Tail(w3) = w2 /\ w3 # w0 /\ w3 # w1 /\ w3 # w2
      /\ ~ Len(w1) > 1 /\ Len(w2) > 1 /\ Len(w3) > 1
  OBVIOUS
<1> HIDE DEF w0, w1, w2, w3
<1>3. \A q \in Rests(w0) : Below(w3, w0, q)
  <2>1. Below(w3, w0, w0)
    BY <1>1, <1>2 DEF Below
  <2>2. QED BY <1>1, <2>1
<1>4. \A q \in Rests(w1) : Below(w3, w1, q)
  <2>1. Below(w3, w1, w0)
    BY <1>1, <1>2 DEF Below
  <2>2. Below(w3, w1, w1)
    BY <1>1, <1>2 DEF Below
  <2>3. QED BY <1>1, <2>1, <2>2
<1>5. \A q \in Rests(w2) : Below(w3, w2, q)
  <2>1. Below(w3, w2, w0)
    BY <1>1, <1>2 DEF Below
  <2>2. Below(w3, w2, w1)
    BY <1>1, <1>2 DEF Below
  <2>3. Below(w3, w2, w2)
    BY <1>1, <1>2 DEF Below
  <2>4. QED BY <1>1, <2>1, <2>2, <2>3
<1>6. \A q \in Rests(w3) : Below(w3, w3, q)
  <2>1. Below(w3, w3, w0)
    BY <1>1, <1>2 DEF Below
  <2>2. Below(w3, w3, w1)
    BY <1>1, <1>2 DEF Below
  <2>3. Below(w3, w3, w2)
    BY <1>1, <1>2 DEF Below
  <2>4. Below(w3, w3, w3)
    BY <1>1, <1>2 DEF Below
  <2>5. QED BY <1>1, <2>1, <2>2, <2>3, <2>4
<1>7. Ordered(w3)
  BY <1>1, <1>2, <1>3, <1>4, <1>5, <1>6 DEF Ordered
<1>8. QED BY <1>7 DEF w3

\* What is left of each operation, spelled out.
LEMMA ProgRests ==
  /\ Rests(Prog["hello"]) = {<<"cmd", "resp">>, <<"resp">>, <<>>}
  /\ Rests(Prog["magic"]) = {<<"magic">>, <<>>}
  /\ Rests(Prog["close"]) = {<<"cmd", "resp">>, <<"resp">>, <<>>}
  /\ Rests(Prog["write"]) = {<<"cmd", "data", "resp">>, <<"data", "resp">>, <<"resp">>, <<>>}
  /\ Rests(Prog["read"]) = {<<"cmd", "resp", "rdata">>, <<"resp", "rdata">>, <<"rdata">>, <<>>}
  /\ Rests(Prog["async"]) = {<<"async">>, <<>>}
  /\ Rests(Prog["bulk"]) = {<<"bulk", "bdata">>, <<"bdata">>, <<>>}
BY ProgIs, RestsOne, RestsTwo, RestsThree

\* So the rests of every operation are ordered by inclusion.
LEMMA ProgOrdered == \A op \in DOMAIN Prog : Ordered(Prog[op])
BY ProgIs, OrderedOne, OrderedTwo, OrderedThree

\* An operation other than the handshake has no magic in it, starts with a packet
\* the PC dispatches, and has no other such packet; once it receives it never
\* sends again.
Shape(op, p) ==
  /\ p \in Seq(What)
  /\ p # <<>> => /\ Head(p) \in What
                 /\ op # "magic" =>
                      /\ Head(p) # "magic"
                      /\ p = Prog[op] <=> Head(p) \in {"cmd", "async", "bulk"}
                 /\ Dir(Head(p)) = "OUT" =>
                      \A q \in Rests(p) : q # <<>> => Dir(Head(q)) = "OUT"

\* Every rest of every operation has the shape its packets give it.
LEMMA RestsShaped == \A op \in DOMAIN Prog : \A p \in Rests(Prog[op]) : Shape(op, p)
<1> USE ProgIs, ProgRests
<1>1. \A p \in Rests(Prog["hello"]) : Shape("hello", p)
  <2>1. Shape("hello", <<"cmd", "resp">>)
    BY RestsEmpty, RestsOne, RestsTwo, RestsThree DEF Shape, Dir, InPackets, What
  <2>2. Shape("hello", <<"resp">>)
    BY RestsEmpty, RestsOne, RestsTwo, RestsThree DEF Shape, Dir, InPackets, What
  <2>3. Shape("hello", <<>>)
    BY RestsEmpty, RestsOne, RestsTwo, RestsThree DEF Shape, Dir, InPackets, What
  <2>4. QED BY <2>1, <2>2, <2>3
<1>2. \A p \in Rests(Prog["magic"]) : Shape("magic", p)
  <2>1. Shape("magic", <<"magic">>)
    BY RestsEmpty, RestsOne, RestsTwo, RestsThree DEF Shape, Dir, InPackets, What
  <2>2. Shape("magic", <<>>)
    BY RestsEmpty, RestsOne, RestsTwo, RestsThree DEF Shape, Dir, InPackets, What
  <2>3. QED BY <2>1, <2>2
<1>3. \A p \in Rests(Prog["close"]) : Shape("close", p)
  <2>1. Shape("close", <<"cmd", "resp">>)
    BY RestsEmpty, RestsOne, RestsTwo, RestsThree DEF Shape, Dir, InPackets, What
  <2>2. Shape("close", <<"resp">>)
    BY RestsEmpty, RestsOne, RestsTwo, RestsThree DEF Shape, Dir, InPackets, What
  <2>3. Shape("close", <<>>)
    BY RestsEmpty, RestsOne, RestsTwo, RestsThree DEF Shape, Dir, InPackets, What
  <2>4. QED BY <2>1, <2>2, <2>3
<1>4. \A p \in Rests(Prog["write"]) : Shape("write", p)
  <2>1. Shape("write", <<"cmd", "data", "resp">>)
    BY RestsEmpty, RestsOne, RestsTwo, RestsThree DEF Shape, Dir, InPackets, What
  <2>2. Shape("write", <<"data", "resp">>)
    BY RestsEmpty, RestsOne, RestsTwo, RestsThree DEF Shape, Dir, InPackets, What
  <2>3. Shape("write", <<"resp">>)
    BY RestsEmpty, RestsOne, RestsTwo, RestsThree DEF Shape, Dir, InPackets, What
  <2>4. Shape("write", <<>>)
    BY RestsEmpty, RestsOne, RestsTwo, RestsThree DEF Shape, Dir, InPackets, What
  <2>5. QED BY <2>1, <2>2, <2>3, <2>4
<1>5. \A p \in Rests(Prog["read"]) : Shape("read", p)
  <2>1. Shape("read", <<"cmd", "resp", "rdata">>)
    BY RestsEmpty, RestsOne, RestsTwo, RestsThree DEF Shape, Dir, InPackets, What
  <2>2. Shape("read", <<"resp", "rdata">>)
    BY RestsEmpty, RestsOne, RestsTwo, RestsThree DEF Shape, Dir, InPackets, What
  <2>3. Shape("read", <<"rdata">>)
    BY RestsEmpty, RestsOne, RestsTwo, RestsThree DEF Shape, Dir, InPackets, What
  <2>4. Shape("read", <<>>)
    BY RestsEmpty, RestsOne, RestsTwo, RestsThree DEF Shape, Dir, InPackets, What
  <2>5. QED BY <2>1, <2>2, <2>3, <2>4
<1>6. \A p \in Rests(Prog["async"]) : Shape("async", p)
  <2>1. Shape("async", <<"async">>)
    BY RestsEmpty, RestsOne, RestsTwo, RestsThree DEF Shape, Dir, InPackets, What
  <2>2. Shape("async", <<>>)
    BY RestsEmpty, RestsOne, RestsTwo, RestsThree DEF Shape, Dir, InPackets, What
  <2>3. QED BY <2>1, <2>2
<1>7. \A p \in Rests(Prog["bulk"]) : Shape("bulk", p)
  <2>1. Shape("bulk", <<"bulk", "bdata">>)
    BY RestsEmpty, RestsOne, RestsTwo, RestsThree DEF Shape, Dir, InPackets, What
  <2>2. Shape("bulk", <<"bdata">>)
    BY RestsEmpty, RestsOne, RestsTwo, RestsThree DEF Shape, Dir, InPackets, What
  <2>3. Shape("bulk", <<>>)
    BY RestsEmpty, RestsOne, RestsTwo, RestsThree DEF Shape, Dir, InPackets, What
  <2>4. QED BY <2>1, <2>2, <2>3
<1>8. QED BY <1>1, <1>2, <1>3, <1>4, <1>5, <1>6, <1>7

\* The handshake is the magic alone; every other operation begins by sending.
LEMMA ProgStarts ==
  /\ \A op \in DOMAIN Prog : Prog[op] # <<>> /\ (op # "magic" => Dir(Head(Prog[op])) = "IN")
  /\ \A op \in DOMAIN Prog : \A p \in Rests(Prog[op]) : p = <<"magic">> <=> op = "magic" /\ p # <<>>
BY ProgIs, ProgRests DEF Dir, InPackets

\* The facts about rests that the steps use.
LEMMA RestFacts ==
  ASSUME NEW op \in DOMAIN Prog
  PROVE  /\ <<>> \in Rests(Prog[op]) /\ Prog[op] \in Rests(Prog[op]) /\ Prog[op] # <<>>
         /\ \A p \in Rests(Prog[op]) : p # <<>> =>
              /\ Tail(p) \in Rests(Prog[op]) /\ Head(p) \in What
              /\ Len(p) > 1 <=> Tail(p) # <<>>
              /\ Head(p) = "magic" <=> p = <<"magic">>
              /\ p = <<"magic">> <=> op = "magic"
              /\ Tail(p) # <<"magic">>
         /\ \A p \in Rests(Prog[op]) : p \in Seq(What)
<1>1. Ordered(Prog[op]) /\ Prog[op] # <<>>
  BY ProgOrdered, ProgStarts
<1>2. Prog[op] \in Rests(Prog[op])
  BY ProgIs, ProgRests
<1>3. <<>> \in Rests(Prog[op])
  BY <1>1, <1>2 DEF Ordered
<1>4. ASSUME NEW p \in Rests(Prog[op])
      PROVE  /\ p \in Seq(What)
             /\ p # <<>> => /\ Tail(p) \in Rests(Prog[op]) /\ Head(p) \in What
                            /\ Len(p) > 1 <=> Tail(p) # <<>>
  <2>1. Shape(op, p)
    BY RestsShaped
  <2>2. p \in Seq(What)
    BY <2>1 DEF Shape
  <2>3. p # <<>> => Head(p) \in What
    BY <2>1 DEF Shape
  <2>4. p # <<>> => Tail(p) \in Rests(Prog[op]) /\ (Len(p) > 1 <=> Tail(p) # <<>>)
    BY <1>1 DEF Ordered
  <2>5. QED BY <2>2, <2>3, <2>4
<1>5. ASSUME NEW p \in Rests(Prog[op]), p # <<>>
      PROVE  /\ Head(p) = "magic" <=> p = <<"magic">>
             /\ p = <<"magic">> <=> op = "magic"
             /\ Tail(p) # <<"magic">>
  <2>1. p = <<"magic">> <=> op = "magic"
    BY <1>5, ProgStarts
  <2>2. p = <<"magic">> => Head(p) = "magic" /\ Tail(p) # <<"magic">>
    BY ProgIs
  <2>3. op # "magic" => Head(p) # "magic"
    <3>1. Shape(op, p)
      BY RestsShaped
    <3>2. QED BY <1>5, <3>1 DEF Shape
  <2>4. op # "magic" => Tail(p) # <<"magic">>
    <3>1. Tail(p) \in Rests(Prog[op])
      BY <1>4, <1>5
    <3>2. QED BY <3>1, ProgStarts
  <2>5. QED BY <2>1, <2>2, <2>3, <2>4
<1>6. QED BY <1>1, <1>2, <1>3, <1>4, <1>5

-----------------------------------------------------------------------------
(* What the steps of a thread do to the threads. *)

\* Thread t alone moves, within its operation.
Moves(t, pc, prog, clean, ret) ==
  /\ th' \in [Thread -> ThreadRec]
  /\ \A s \in Thread : s # t => th'[s] = th[s]
  /\ th'[t].pc = pc /\ th'[t].prog = prog /\ th'[t].clean = clean /\ th'[t].ret = ret
  /\ th'[t].op = th[t].op /\ th'[t].result = th[t].result

\* It fails where it is, or before it had the semaphore; it goes on.
Quits(t) == IF th[t].op = "magic" THEN "idle" ELSE "signal"
Fails(t) == /\ \E pc \in {"idle", "signal"} : Moves(t, pc, <<>>, th[t].clean, "fail")
            /\ UNCHANGED sema
FailsIn(t) == Moves(t, Quits(t), <<>>, th[t].clean, "fail") /\ UNCHANGED sema
Goes(t, pc) == Moves(t, pc, th[t].prog, th[t].clean, th[t].ret) /\ UNCHANGED sema

\* Failing inside an operation: nothing left but to signal the semaphore.
LEMMA EndFails ==
  ASSUME Typed, NEW t \in Thread, End(t, "fail"), UNCHANGED sema
  PROVE  FailsIn(t)
<1>1. Ended(t, "fail") \in ThreadRec
  <2>1. <<>> \in Seq(What)
    OBVIOUS
  <2>2. th[t] \in ThreadRec
    BY DEF Typed
  <2>3. QED BY <2>1, <2>2 DEF Ended, ThreadRec, Pc
<1>2. th \in [Thread -> ThreadRec]
  BY DEF Typed
<1>3. th' = [th EXCEPT ![t] = Ended(t, "fail")]
  BY DEF End
<1>4. /\ Ended(t, "fail").pc = Quits(t) /\ Ended(t, "fail").prog = <<>>
      /\ Ended(t, "fail").clean = th[t].clean /\ Ended(t, "fail").ret = "fail"
      /\ Ended(t, "fail").op = th[t].op /\ Ended(t, "fail").result = th[t].result
  BY <1>2 DEF Ended, Quits, ThreadRec
<1>5. QED BY <1>1, <1>2, <1>3, <1>4 DEF FailsIn, Moves

\* A thread the semaphore is refused is idle, with nothing left.
LEMMA RefusedFails ==
  ASSUME Typed, NEW t \in Thread, th' = [th EXCEPT ![t] = Refused(t)]
  PROVE  Moves(t, "idle", <<>>, th[t].clean, "fail")
<1>1. <<>> \in Seq(What) /\ th \in [Thread -> ThreadRec] /\ th[t] \in ThreadRec
  BY DEF Typed
<1>2. Refused(t) \in ThreadRec
  BY <1>1 DEF Refused, ThreadRec, Pc
<1>3. /\ Refused(t).pc = "idle" /\ Refused(t).prog = <<>>
      /\ Refused(t).clean = th[t].clean /\ Refused(t).ret = "fail"
      /\ Refused(t).op = th[t].op /\ Refused(t).result = th[t].result
  BY <1>1 DEF Refused, ThreadRec
<1>4. QED BY <1>1, <1>2, <1>3 DEF Moves

\* Where a thread is when its operation has returned.
Back(t) == IF t = U /\ th[t].ret = "ok" THEN "hello_ok" ELSE "idle"

\* The signal frees the semaphore, whoever has it, and the operation returns.
LEMMA SignalIs ==
  ASSUME Typed, NEW t \in Thread, Signal(t)
  PROVE  /\ th[t].pc = "signal" /\ sema' = NULL
         /\ UNCHANGED <<up, restarts, attached, session, mainev, transev, connected, req,
                        areq, waited, host, caught>>
         /\ Moves(t, Back(t), th[t].prog, th[t].clean, th[t].ret)
<1>1. th \in [Thread -> ThreadRec] /\ th[t] \in ThreadRec
  BY DEF Typed
<1>2. th' = [th EXCEPT ![t] = Returned(t)]
  BY DEF Signal
<1>3. Returned(t) \in ThreadRec
  BY <1>1 DEF Returned, ThreadRec, Pc
<1>4. /\ Returned(t).pc = Back(t) /\ Returned(t).prog = th[t].prog
      /\ Returned(t).clean = th[t].clean /\ Returned(t).ret = th[t].ret
      /\ Returned(t).op = th[t].op /\ Returned(t).result = th[t].result
  BY <1>1 DEF Returned, Back, ThreadRec
<1>5. Moves(t, Back(t), th[t].prog, th[t].clean, th[t].ret)
  BY <1>1, <1>2, <1>3, <1>4 DEF Moves
<1>6. QED BY <1>5 DEF Signal

\* A thread that only changes its place keeps its operation and its result.
LEMMA PcMoves ==
  ASSUME Typed, NEW t \in Thread, NEW pc \in Pc, th' = [th EXCEPT ![t].pc = pc]
  PROVE  Moves(t, pc, th[t].prog, th[t].clean, th[t].ret)
BY DEF Moves, Typed, ThreadRec

\* A request the bus accepts or not, and the thread that goes on to wait.
Posts(t, st) ==
  /\ up /\ st \in PostOutcomes
  /\ req' = [req EXCEPT ![Way(t)] =
               [st |-> st, pkt |-> IF Way(t) = "IN"
                                   THEN [to |-> t, op |-> th[t].op, what |-> Head(th[t].prog)]
                                   ELSE NoPacket]]
  /\ transev' = IF st = "err" THEN transev \cup {Way(t)} ELSE transev \ {Way(t)}
  /\ Goes(t, "posted") \/ (Way(t) = "OUT" /\ FailsIn(t))

\* set_bulkin_req, set_bulkout_req: fail, or post the request and go on to the wait.
LEMMA PostIs ==
  ASSUME Typed, NEW t \in Thread, Post(t)
  PROVE  /\ th[t].pc = "post"
         /\ UNCHANGED <<up, restarts, attached, session, mainev, connected, areq, waited, host, caught>>
         /\ \/ ~up /\ FailsIn(t) /\ UNCHANGED <<req, transev>>
            \/ \E st \in {"none", "pending", "err"} : Posts(t, st)
<1>1. /\ th[t].pc = "post"
      /\ UNCHANGED <<up, restarts, attached, session, mainev, connected, areq, waited, host, caught>>
  BY DEF Post
<1>2. CASE ~up
  <2>1. End(t, "fail") /\ UNCHANGED <<req, transev, sema>>
    BY <1>2 DEF Post
  <2>2. QED BY <1>1, <1>2, <2>1, EndFails
<1>3. CASE up
  <2>1. PICK st \in PostOutcomes :
          /\ req' = [req EXCEPT ![Way(t)] =
               [st |-> st, pkt |-> IF Way(t) = "IN"
                                   THEN [to |-> t, op |-> th[t].op, what |-> Head(th[t].prog)]
                                   ELSE NoPacket]]
          /\ transev' = IF st = "err" THEN transev \cup {Way(t)} ELSE transev \ {Way(t)}
          /\ IF st = "none" /\ Way(t) = "OUT"
             THEN End(t, "fail")
             ELSE th' = [th EXCEPT ![t].pc = "posted"]
          /\ UNCHANGED sema
    BY <1>3 DEF Post, Way
  <2>2. st \in {"none", "pending", "err"}
    BY DEF PostOutcomes
  <2>3. Goes(t, "posted") \/ (Way(t) = "OUT" /\ FailsIn(t))
    BY <2>1, EndFails, PcMoves DEF Pc, Goes
  <2>4. QED BY <1>1, <1>3, <2>1, <2>2, <2>3 DEF Posts
<1>4. QED BY <1>2, <1>3, Typed DEF Typed, TypeOK

\* The thread clears the stale event and waits, unless the event is already there.
LEMMA BlockIs ==
  ASSUME Typed, NEW t \in Thread, Block(t)
  PROVE  /\ th[t].pc = "posted"
         /\ UNCHANGED <<up, restarts, attached, session, mainev, connected, req, areq, waited, host, caught>>
         /\ \/ ~up /\ FailsIn(t) /\ UNCHANGED transev
            \/ up /\ transev' = transev \ {Way(t)} /\ Goes(t, "woken") /\ Way(t) \in transev
            \/ up /\ transev' = transev \ {Way(t)} /\ Goes(t, "wait") /\ Way(t) \notin transev
<1>1. /\ th[t].pc = "posted"
      /\ UNCHANGED <<up, restarts, attached, session, mainev, connected, req, areq, waited, host, caught>>
  BY DEF Block
<1>2. CASE ~up
  <2>1. End(t, "fail") /\ UNCHANGED <<transev, sema>>
    BY <1>2 DEF Block
  <2>2. QED BY <1>1, <1>2, <2>1, EndFails
<1>3. CASE up
  <2>1. /\ transev' = transev \ {Way(t)}
        /\ th' = [th EXCEPT ![t].pc = IF Way(t) \in transev THEN "woken" ELSE "wait"]
        /\ UNCHANGED sema
    BY <1>3 DEF Block, Way
  <2>2. QED BY <1>1, <1>3, <2>1, PcMoves DEF Pc, Goes
<1>4. QED BY <1>2, <1>3, Typed DEF Typed, TypeOK

\* The packet in the request is the one the thread is at.
Mine(t) == \/ Way(t) = "IN"
           \/ req[Way(t)].pkt = [to |-> t, op |-> th[t].op, what |-> Head(th[t].prog)]
Ends(t) == IF th[t].op = "magic" THEN "greet" ELSE "signal"

\* After the wait: fail, or take the packet and go on, or end the operation.
LEMMA InspectIs ==
  ASSUME Typed, NEW t \in Thread, Inspect(t)
  PROVE  /\ th[t].pc = "woken"
         /\ UNCHANGED <<up, restarts, attached, session, mainev, transev, connected, req,
                        areq, waited, host, caught>>
         /\ LET what == Head(th[t].prog)
                r == req[Way(t)]
            IN
            \/ /\ r.st # "ok" \/ (what = "magic" /\ r.pkt.what # "magic")
               /\ FailsIn(t)
            \/ /\ r.st = "ok" /\ r.pkt.what = "magic" /\ what # "magic"
               /\ Moves(t, "post", th[t].prog, th[t].clean /\ Mine(t), th[t].ret)
               /\ UNCHANGED sema
            \/ /\ r.st = "ok" /\ (r.pkt.what = "magic" <=> what = "magic")
               /\ Len(th[t].prog) > 1
               /\ Moves(t, "post", Tail(th[t].prog), th[t].clean /\ Mine(t), th[t].ret)
               /\ UNCHANGED sema
            \/ /\ r.st = "ok" /\ (r.pkt.what = "magic" <=> what = "magic")
               /\ ~ Len(th[t].prog) > 1
               /\ Moves(t, Ends(t), <<>>, th[t].clean /\ Mine(t), "ok") /\ UNCHANGED sema
<1> DEFINE what == Head(th[t].prog)
           r == req[Way(t)]
           c == th[t].clean /\ Mine(t)
<1>1. /\ th[t].pc = "woken" /\ UNCHANGED sema
      /\ UNCHANGED <<up, restarts, attached, session, mainev, transev, connected, req,
                     areq, waited, host, caught>>
  BY DEF Inspect
<1>2. IF r.st # "ok" \/ (what = "magic" /\ r.pkt.what # "magic")
      THEN End(t, "fail")
      ELSE IF r.pkt.what = "magic" /\ what # "magic"
      THEN th' = [[th EXCEPT ![t].clean = c] EXCEPT ![t].pc = "post"]
      ELSE IF Len(th[t].prog) > 1
      THEN th' = [[th EXCEPT ![t].clean = c] EXCEPT ![t].pc = "post", ![t].prog = Tail(@)]
      ELSE th' = [[th EXCEPT ![t].clean = c] EXCEPT
                    ![t] = [Ended(t, "ok") EXCEPT !.clean = [th EXCEPT ![t].clean = c][t].clean]]
  BY DEF Inspect, Way, Mine
<1>3. th \in [Thread -> ThreadRec] /\ th[t] \in ThreadRec
  BY DEF Typed
<1>4. c \in BOOLEAN
  BY <1>3 DEF ThreadRec
<1> HIDE DEF c, what, r
<1>5. ASSUME th' = [[th EXCEPT ![t].clean = c] EXCEPT ![t].pc = "post"]
      PROVE  Moves(t, "post", th[t].prog, c, th[t].ret)
  <2>1. th' = [th EXCEPT ![t] = [th[t] EXCEPT !.clean = c, !.pc = "post"]]
    BY <1>3, <1>5 DEF ThreadRec
  <2>2. [th[t] EXCEPT !.clean = c, !.pc = "post"] \in ThreadRec
    BY <1>3, <1>4 DEF ThreadRec, Pc
  <2>3. QED BY <1>3, <2>1, <2>2 DEF Moves, ThreadRec
<1>6. ASSUME th' = [[th EXCEPT ![t].clean = c] EXCEPT ![t].pc = "post", ![t].prog = Tail(@)],
             Len(th[t].prog) > 1
      PROVE  Moves(t, "post", Tail(th[t].prog), c, th[t].ret)
  <2>1. Tail(th[t].prog) \in Seq(What)
    <3>1. th[t].prog \in Seq(What) /\ th[t].prog # <<>>
      BY <1>3, <1>6 DEF ThreadRec
    <3>2. QED BY <3>1, HeadTailProperties
  <2>2. th' = [th EXCEPT ![t] = [th[t] EXCEPT !.clean = c, !.pc = "post", !.prog = Tail(th[t].prog)]]
    BY <1>3, <1>6 DEF ThreadRec
  <2>3. [th[t] EXCEPT !.clean = c, !.pc = "post", !.prog = Tail(th[t].prog)] \in ThreadRec
    BY <1>3, <1>4, <2>1 DEF ThreadRec, Pc
  <2>4. QED BY <1>3, <1>4, <2>2, <2>3 DEF Moves, ThreadRec
<1>7. ASSUME th' = [[th EXCEPT ![t].clean = c] EXCEPT
                     ![t] = [Ended(t, "ok") EXCEPT !.clean = [th EXCEPT ![t].clean = c][t].clean]]
      PROVE  Moves(t, Ends(t), <<>>, c, "ok")
  <2> DEFINE e == [Ended(t, "ok") EXCEPT !.clean = c]
  <2>1. th' = [th EXCEPT ![t] = e]
    BY <1>3, <1>7 DEF ThreadRec
  <2>2. <<>> \in Seq(What)
    OBVIOUS
  <2>3. e \in ThreadRec
    BY <1>3, <1>4, <2>2 DEF Ended, ThreadRec, Pc
  <2>4. /\ e.pc = Ends(t) /\ e.prog = <<>> /\ e.clean = c /\ e.ret = "ok"
        /\ e.op = th[t].op /\ e.result = th[t].result
    BY <1>3 DEF Ended, ThreadRec, Ends
  <2> HIDE DEF e
  <2>5. QED BY <1>3, <2>1, <2>3, <2>4 DEF Moves
<1>8. \/ /\ r.st # "ok" \/ (what = "magic" /\ r.pkt.what # "magic")
         /\ FailsIn(t)
      \/ /\ r.st = "ok" /\ r.pkt.what = "magic" /\ what # "magic"
         /\ Moves(t, "post", th[t].prog, c, th[t].ret) /\ UNCHANGED sema
      \/ /\ r.st = "ok" /\ (r.pkt.what = "magic" <=> what = "magic")
         /\ Len(th[t].prog) > 1
         /\ Moves(t, "post", Tail(th[t].prog), c, th[t].ret) /\ UNCHANGED sema
      \/ /\ r.st = "ok" /\ (r.pkt.what = "magic" <=> what = "magic")
         /\ ~ Len(th[t].prog) > 1
         /\ Moves(t, Ends(t), <<>>, c, "ok") /\ UNCHANGED sema
  BY <1>1, <1>2, <1>5, <1>6, <1>7, EndFails
<1>9. QED BY <1>1, <1>8 DEF c, what, r

\* A thread takes the free semaphore and begins its operation, or fails.
LEMMA WaitSemaIs ==
  ASSUME Typed, NEW t \in Thread, WaitSema(t)
  PROVE  /\ th[t].pc = "sema"
         /\ UNCHANGED <<up, restarts, attached, session, mainev, transev, connected, req,
                        areq, waited, host, caught>>
         /\ \/ ~up /\ Moves(t, "idle", <<>>, th[t].clean, "fail") /\ UNCHANGED sema
            \/ /\ up /\ sema = NULL /\ sema' = t
               /\ Moves(t, "post", th[t].prog, th[t].clean, th[t].ret)
<1>1. CASE ~up
  BY <1>1, RefusedFails DEF WaitSema
<1>2. CASE up
  BY <1>2, PcMoves DEF WaitSema, Pc
<1>3. QED BY <1>1, <1>2 DEF Typed, TypeOK

\* Threads waiting for one of the directions ds may have been woken.
Wakes(ds, tt, uu) ==
  /\ uu \in [Thread -> ThreadRec]
  /\ \A s \in Thread :
       /\ uu[s].op = tt[s].op /\ uu[s].prog = tt[s].prog /\ uu[s].clean = tt[s].clean
       /\ uu[s].ret = tt[s].ret /\ uu[s].result = tt[s].result
       /\ \/ uu[s].pc = tt[s].pc
          \/ tt[s].pc = "wait" /\ uu[s].pc = "woken" /\ Dir(Head(tt[s].prog)) \in ds

\* Setting a transfer event wakes at most one waiter, one that waits for it.
LEMMA SetTransEventWakes ==
  ASSUME NEW tt \in [Thread -> ThreadRec], NEW d, NEW ev, NEW r \in SetTransEvent(d, tt, ev)
  PROVE  Wakes({d}, tt, r[1]) /\ r[2] \subseteq ev \cup {d}
<1>1. CASE Waiting(tt, d) = {}
  <2>1. r = <<tt, ev \cup {d}>>
    BY <1>1 DEF SetTransEvent
  <2>2. QED BY <2>1 DEF Wakes
<1>2. CASE Waiting(tt, d) # {}
  <2>1. PICK t \in Waiting(tt, d) : r = <<[tt EXCEPT ![t].pc = "woken"], ev>>
    BY <1>2 DEF SetTransEvent
  <2>2. t \in Thread /\ tt[t].pc = "wait" /\ Dir(Head(tt[t].prog)) = d
    BY DEF Waiting
  <2>3. [tt[t] EXCEPT !.pc = "woken"] \in ThreadRec
    BY <2>2 DEF ThreadRec, Pc
  <2>4. r[1] = [tt EXCEPT ![t] = [tt[t] EXCEPT !.pc = "woken"]] /\ r[2] = ev
    BY <2>1
  <2>5. QED BY <2>2, <2>3, <2>4 DEF Wakes, ThreadRec
<1>3. QED BY <1>1, <1>2

\* A completion on the bus.
LEMMA CompleteIs ==
  ASSUME Typed, NEW d \in {"IN", "OUT"}, NEW st, NEW pkt, Complete(d, st, pkt)
  PROVE  /\ req[d].st = "pending"
         /\ req' = [req EXCEPT ![d] = [st |-> st, pkt |-> pkt]]
         /\ Wakes({d}, th, th') /\ transev' \subseteq transev \cup {d}
<1>1. PICK r \in SetTransEvent(d, th, transev) : th' = r[1] /\ transev' = r[2]
  BY DEF Complete
<1>2. QED BY <1>1, SetTransEventWakes DEF Complete, Typed

\* The end of a session.
LEMMA CloseSessionIs ==
  ASSUME Typed, CloseSession
  PROVE  /\ attached' = FALSE /\ host' = HostIdle
         /\ UNCHANGED <<up, restarts, session, sema, connected, waited, caught>>
         /\ Wakes({"IN", "OUT"}, th, th') /\ transev' \subseteq transev \cup {"IN", "OUT"}
         /\ req' = [d \in {"IN", "OUT"} |-> IF req[d].st = "pending"
                                            THEN [req[d] EXCEPT !.st = "err"] ELSE req[d]]
         /\ areq' = IF areq = "pending" THEN "err" ELSE areq
         /\ mainev' = mainev \cup {"DETACH"} \cup (IF areq = "pending" THEN {"ASYNC"} ELSE {})
<1> DEFINE failed == {d \in {"IN", "OUT"} : req[d].st = "pending"}
           first == IF "IN" \in failed THEN SetTransEvent("IN", th, transev)
                    ELSE {<<th, transev>>}
<1>1. PICK r \in first :
        \E s \in IF "OUT" \in failed THEN SetTransEvent("OUT", r[1], r[2]) ELSE {r} :
          th' = s[1] /\ transev' = s[2]
  BY DEF CloseSession
<1>2. PICK s \in IF "OUT" \in failed THEN SetTransEvent("OUT", r[1], r[2]) ELSE {r} :
        th' = s[1] /\ transev' = s[2]
  BY <1>1
<1>3. th \in [Thread -> ThreadRec]
  BY DEF Typed
<1>4. Wakes({"IN"}, th, r[1]) /\ r[2] \subseteq transev \cup {"IN"}
  <2>1. CASE "IN" \in failed
    BY <1>3, <2>1, SetTransEventWakes
  <2>2. CASE ~ ("IN" \in failed)
    <3>1. r = <<th, transev>>
      BY <2>2
    <3>2. QED BY <1>3, <3>1 DEF Wakes
  <2>3. QED BY <2>1, <2>2
<1>5. r[1] \in [Thread -> ThreadRec]
  BY <1>4 DEF Wakes
<1>6. Wakes({"OUT"}, r[1], s[1]) /\ s[2] \subseteq r[2] \cup {"OUT"}
  <2>1. CASE "OUT" \in failed
    <3> DEFINE tt == r[1]
               ev == r[2]
    <3>1. s \in SetTransEvent("OUT", tt, ev) /\ tt \in [Thread -> ThreadRec]
      BY <1>5, <2>1
    <3> HIDE DEF tt, ev
    <3>2. Wakes({"OUT"}, tt, s[1]) /\ s[2] \subseteq ev \cup {"OUT"}
      BY <3>1, SetTransEventWakes
    <3>3. QED BY <3>2 DEF tt, ev
  <2>2. CASE ~ ("OUT" \in failed)
    <3>1. s = r
      BY <2>2
    <3>2. QED BY <1>5, <3>1 DEF Wakes
  <2>3. QED BY <2>1, <2>2
<1> HIDE DEF failed, first
<1>7. Wakes({"IN", "OUT"}, th, s[1])
  BY <1>4, <1>6 DEF Wakes
<1>8. s[2] \subseteq transev \cup {"IN", "OUT"}
  BY <1>4, <1>6
<1>9. QED BY <1>2, <1>7, <1>8 DEF CloseSession

-----------------------------------------------------------------------------
(* The base of the invariant: types, where a thread can be, the magic. *)

\* The variables other than the threads and what is left of the host's packets.
Globals ==
  /\ up \in BOOLEAN /\ attached \in BOOLEAN /\ connected \in BOOLEAN /\ caught \in BOOLEAN
  /\ restarts \in 0 .. MaxRestart /\ session \in 0 .. MaxSession
  /\ mainev \subseteq {"ATTACH", "DETACH", "ASYNC", "CONNECT"}
  /\ transev \subseteq {"IN", "OUT"}
  /\ sema \in Thread \cup {NULL}
  /\ req \in [{"IN", "OUT"} -> [st : {"none", "pending", "ok", "err"}, pkt : Packet]]
  /\ areq \in {"none", "pending", "ok", "err"}
  /\ waited \in [Client -> {NULL, 0, 1}]
Hosted == /\ host \in [todo : Seq(What), from : Thread \cup {NULL}, op : DOMAIN Prog]
          /\ host.todo \in Rests(Prog[host.op])
Threads == th \in [Thread -> ThreadRec] /\ \A t \in Thread : Placed(t, th[t])

\* The base invariant by what each part speaks of.
LEMMA BaseParts == Base <=> Globals /\ Hosted /\ Threads /\ Stopped /\ MagicIsU
<1>1. Base => Globals /\ Hosted /\ Threads /\ Stopped /\ MagicIsU
  BY DEF Base, Typed, TypeOK, Globals, Hosted, Threads
<1>2. ASSUME Globals, Hosted, Threads, Stopped, MagicIsU
      PROVE  Base
  <2>1. ASSUME NEW t \in Thread
        PROVE  /\ th[t].pc \in Pc /\ th[t].op \in DOMAIN Prog /\ th[t].ret \in {"none", "ok", "fail"}
               /\ th[t].result \subseteq {"ATTACH", "DETACH", "ASYNC"}
               /\ th[t].prog \in Rests(Prog[th[t].op])
    BY <1>2 DEF Threads, ThreadRec, Placed
  <2>2. TypeOK
    BY <1>2, <2>1 DEF TypeOK, Globals, Hosted, Pc
  <2>3. QED BY <1>2, <2>2 DEF Base, Typed, Threads, Hosted
<1>3. QED BY <1>1, <1>2

\* The threads stay placed when one moves, or when some are woken.
LEMMA MovedThreads ==
  ASSUME Threads, NEW t \in Thread, th' \in [Thread -> ThreadRec],
         \A s \in Thread : s # t => th'[s] = th[s], Placed(t, th'[t])
  PROVE  Threads'
BY DEF Threads

\* Waking threads leaves each of them in its operation.
LEMMA WokenThreads ==
  ASSUME Threads, NEW ds, Wakes(ds, th, th')
  PROVE  Threads'
BY DEF Threads, Wakes, Placed

\* A thread that fails is well placed: idle, or about to signal.
LEMMA FailsPlaced ==
  ASSUME Threads, NEW t \in Thread, NEW pc,
         pc = "idle" \/ (pc = "signal" /\ th[t].op # "magic" /\ th[t].prog # <<>>),
         Moves(t, pc, <<>>, th[t].clean, "fail")
  PROVE  Threads'
<1>1. th[t].op \in DOMAIN Prog
  BY DEF Threads, ThreadRec
<1>2. <<>> \in Rests(Prog[th[t].op])
  BY <1>1, RestFacts
<1>3. Placed(t, th'[t])
  BY <1>2 DEF Threads, Moves, Placed
<1>4. QED BY <1>3, MovedThreads DEF Moves

\* So is one that fails in its operation.
LEMMA FailsInPlaced ==
  ASSUME Threads, NEW t \in Thread, FailsIn(t), th[t].pc \in {"post", "posted", "wait", "woken"}
  PROVE  Threads' /\ Fails(t)
<1> DEFINE pc == Quits(t)
<1>1. /\ pc = "idle" \/ (pc = "signal" /\ th[t].op # "magic" /\ th[t].prog # <<>>)
      /\ Moves(t, pc, <<>>, th[t].clean, "fail") /\ UNCHANGED sema
  BY DEF Quits, FailsIn, Threads, Placed
<1> HIDE DEF pc
<1>2. Threads'
  BY <1>1, FailsPlaced
<1>3. Fails(t)
  BY <1>1 DEF Fails
<1>4. QED BY <1>2, <1>3

\* A thread that moves on inside its operation is still well placed.
LEMMA GoesPlaced ==
  ASSUME Threads, NEW t \in Thread, NEW pc \in {"post", "posted", "wait", "woken"},
         th[t].pc \in {"sema", "post", "posted", "wait", "woken"},
         Moves(t, pc, th[t].prog, th[t].clean, th[t].ret)
  PROVE  Threads' /\ th'[t].pc = pc
<1>1. Placed(t, th'[t])
  BY DEF Threads, Moves, Placed
<1>2. QED BY <1>1, MovedThreads DEF Moves

\* Restarting, idle and starting an operation: a fresh record.
LEMMA FreshPlaced ==
  /\ ThreadInit \in ThreadRec
  /\ \A t \in Thread : Placed(t, ThreadInit)
  /\ \A t \in Thread : \A r \in {[ThreadInit EXCEPT !.ret = "fail"], [ThreadInit EXCEPT !.pc = "conn"]} :
       r \in ThreadRec /\ Placed(t, r)
  /\ \A t \in Thread : \A op \in DOMAIN Prog \ {"magic"} : (t = U => op = "hello") =>
       LET r == [ThreadInit EXCEPT !.pc = "sema", !.op = op, !.prog = Prog[op]]
       IN  r \in ThreadRec /\ Placed(t, r)
  /\ LET r == [ThreadInit EXCEPT !.pc = "post", !.op = "magic", !.prog = Prog.magic]
     IN  r \in ThreadRec /\ Placed(U, r)
<1>1. "close" \in DOMAIN Prog /\ "magic" \in DOMAIN Prog /\ <<>> \in Seq(What)
  BY ProgIs
<1>2. <<>> \in Rests(Prog["close"])
  BY <1>1, RestFacts
<1>3. \A op \in DOMAIN Prog : /\ Prog[op] \in Rests(Prog[op]) /\ Prog[op] # <<>>
                              /\ Prog[op] \in Seq(What)
  BY RestFacts
<1>4. Prog.magic = Prog["magic"]
  OBVIOUS
<1>5. ThreadInit \in ThreadRec
  BY <1>1 DEF ThreadInit, ThreadRec, Pc
<1>6. \A t \in Thread : Placed(t, ThreadInit)
  BY <1>2 DEF Placed, ThreadInit
<1>7. \A t \in Thread : \A r \in {[ThreadInit EXCEPT !.ret = "fail"], [ThreadInit EXCEPT !.pc = "conn"]} :
        r \in ThreadRec /\ Placed(t, r)
  BY <1>1, <1>2 DEF Placed, ThreadInit, ThreadRec, Pc
<1>8. ASSUME NEW t \in Thread, NEW op \in DOMAIN Prog \ {"magic"}, t = U => op = "hello"
      PROVE  LET r == [ThreadInit EXCEPT !.pc = "sema", !.op = op, !.prog = Prog[op]]
             IN  r \in ThreadRec /\ Placed(t, r)
  BY <1>1, <1>3, <1>8 DEF Placed, ThreadInit, ThreadRec, Pc
<1>9. LET r == [ThreadInit EXCEPT !.pc = "post", !.op = "magic", !.prog = Prog.magic]
      IN  r \in ThreadRec /\ Placed(U, r)
  BY <1>1, <1>3, <1>4 DEF Placed, ThreadInit, ThreadRec, Pc
<1>10. QED BY <1>5, <1>6, <1>7, <1>8, <1>9

\* The base invariant: a step of a thread inside an operation.
LEMMA ThreadStepBase ==
  ASSUME LinkAssumption, Base, NEW t \in Thread, Step(t)
  PROVE  Base'
<1>0. /\ Globals /\ Hosted /\ Threads /\ Stopped /\ MagicIsU /\ Typed
      /\ th[t] \in ThreadRec /\ Placed(t, th[t])
  BY BaseParts DEF Base, Threads
<1>1. t # NULL /\ U \in Thread
  BY DEF LinkAssumption, Thread
<1>2. CASE Post(t)
  <2>1. /\ th[t].pc = "post"
        /\ UNCHANGED <<up, restarts, attached, session, mainev, connected, areq, waited, host, caught>>
        /\ \/ ~up /\ FailsIn(t) /\ UNCHANGED <<req, transev>>
           \/ \E st \in {"none", "pending", "err"} : Posts(t, st)
    BY <1>0, <1>2, PostIs
  <2>2. Threads' /\ sema' = sema /\ (t = U => up)
    BY <1>0, <2>1, FailsInPlaced, GoesPlaced DEF Posts, Goes, FailsIn, Stopped
  <2>3. Stopped'
    BY <1>0, <1>1, <2>1, <2>2 DEF Stopped, FailsIn, Posts, Goes, Moves
  <2>4. /\ req' \in [{"IN", "OUT"} -> [st : {"none", "pending", "ok", "err"}, pkt : Packet]]
        /\ req'["OUT"].pkt.what = "magic" => req'["OUT"] = req["OUT"]
        /\ transev' \subseteq {"IN", "OUT"}
    <3>1. CASE UNCHANGED <<req, transev>>
      BY <1>0, <3>1 DEF Globals
    <3>2. ASSUME NEW st \in {"none", "pending", "err"}, Posts(t, st)
          PROVE  <2>4!1 /\ <2>4!2 /\ <2>4!3
      <4>1. Way(t) \in {"IN", "OUT"}
        BY DEF Way, Dir
      <4>2. Head(th[t].prog) \in What /\ th[t].op \in DOMAIN Prog
        BY <1>0, <2>1, RestFacts DEF Placed, ThreadRec
      <4>3. NoPacket \in Packet /\ NoPacket.what # "magic"
        BY ProgIs DEF NoPacket, Packet
      <4>4. [to |-> t, op |-> th[t].op, what |-> Head(th[t].prog)] \in Packet
        BY <4>2 DEF Packet, What
      <4>5. QED BY <1>0, <3>2, <4>1, <4>3, <4>4 DEF Posts, Globals
    <3>3. QED BY <2>1, <3>1, <3>2
  <2>5. Globals' /\ Hosted' /\ MagicIsU'
    BY <1>0, <1>1, <2>1, <2>2, <2>4 DEF Globals, Hosted, MagicIsU
  <2>6. QED BY <2>2, <2>3, <2>5, BaseParts, PTL
<1>3. CASE Block(t)
  <2>1. /\ th[t].pc = "posted"
        /\ UNCHANGED <<up, restarts, attached, session, mainev, connected, req, areq, waited, host, caught>>
        /\ \/ ~up /\ FailsIn(t) /\ UNCHANGED transev
           \/ up /\ transev' = transev \ {Way(t)} /\ Goes(t, "woken")
           \/ up /\ transev' = transev \ {Way(t)} /\ Goes(t, "wait")
    BY <1>0, <1>3, BlockIs
  <2>2. Threads' /\ sema' = sema /\ (t = U => up)
    BY <1>0, <2>1, FailsInPlaced, GoesPlaced DEF Goes, FailsIn, Stopped
  <2>3. Stopped'
    BY <1>0, <1>1, <2>1, <2>2 DEF Stopped, FailsIn, Goes, Moves
  <2>4. Globals' /\ Hosted' /\ MagicIsU'
    BY <1>0, <1>1, <2>1, <2>2 DEF Globals, Hosted, MagicIsU
  <2>5. QED BY <2>2, <2>3, <2>4, BaseParts, PTL
<1>4. CASE WaitSema(t)
  <2>1. /\ th[t].pc = "sema"
        /\ UNCHANGED <<up, restarts, attached, session, mainev, transev, connected, req,
                       areq, waited, host, caught>>
        /\ \/ ~up /\ Moves(t, "idle", <<>>, th[t].clean, "fail") /\ UNCHANGED sema
           \/ /\ up /\ sema' = t
              /\ Moves(t, "post", th[t].prog, th[t].clean, th[t].ret)
    BY <1>0, <1>4, WaitSemaIs
  <2>2. Threads' /\ sema' \in {sema, t} /\ (t = U => up)
    BY <1>0, <2>1, FailsPlaced, GoesPlaced DEF Stopped
  <2>3. Stopped'
    BY <1>0, <1>1, <2>1, <2>2 DEF Stopped, FailsIn, Moves
  <2>4. Globals' /\ Hosted' /\ MagicIsU'
    BY <1>0, <1>1, <2>1, <2>2 DEF Globals, Hosted, MagicIsU
  <2>5. QED BY <2>2, <2>3, <2>4, BaseParts, PTL
<1>5. CASE Inspect(t)
  <2>1. /\ th[t].pc = "woken"
        /\ UNCHANGED <<up, restarts, attached, session, mainev, transev, connected, req,
                       areq, waited, host, caught>>
        /\ \/ FailsIn(t)
           \/ /\ Head(th[t].prog) # "magic"
              /\ Moves(t, "post", th[t].prog, th[t].clean /\ Mine(t), th[t].ret)
              /\ UNCHANGED sema
           \/ /\ req[Way(t)].pkt.what = "magic" <=> Head(th[t].prog) = "magic"
              /\ Len(th[t].prog) > 1
              /\ Moves(t, "post", Tail(th[t].prog), th[t].clean /\ Mine(t), th[t].ret)
              /\ UNCHANGED sema
           \/ /\ req[Way(t)].pkt.what = "magic" <=> Head(th[t].prog) = "magic"
              /\ Moves(t, Ends(t), <<>>, th[t].clean /\ Mine(t), "ok") /\ UNCHANGED sema
    BY <1>0, <1>5, InspectIs
  <2>2. /\ <<>> \in Rests(Prog[th[t].op])
        /\ Tail(th[t].prog) \in Rests(Prog[th[t].op])
        /\ Len(th[t].prog) > 1 => Tail(th[t].prog) # <<>>
        /\ th[t].prog # <<>> /\ th[t].ret = "none"
        /\ th[t].op = "magic" <=> Head(th[t].prog) = "magic"
        /\ th[t].op = "magic" => t = U /\ th[t].clean
    BY <1>0, <2>1, RestFacts DEF Placed, ThreadRec
  <2>3. /\ req[Way(t)].pkt.what = "magic" <=> Head(th[t].prog) = "magic"
        /\ th[t].op = "magic"
        => Mine(t)
    BY <1>0, <2>2 DEF Mine, MagicIsU, Way, Dir, InPackets
  <2>4. Threads'
    <3>1. CASE FailsIn(t)
      BY <1>0, <2>1, <3>1, FailsInPlaced
    <3>2. CASE /\ Head(th[t].prog) # "magic"
               /\ Moves(t, "post", th[t].prog, th[t].clean /\ Mine(t), th[t].ret)
      <4>1. Placed(t, th'[t])
        BY <1>0, <2>2, <3>2 DEF Placed, Moves
      <4>2. QED BY <1>0, <3>2, <4>1, MovedThreads DEF Moves
    <3>3. CASE /\ req[Way(t)].pkt.what = "magic" <=> Head(th[t].prog) = "magic"
               /\ Len(th[t].prog) > 1
               /\ Moves(t, "post", Tail(th[t].prog), th[t].clean /\ Mine(t), th[t].ret)
      <4>1. Placed(t, th'[t])
        BY <1>0, <2>2, <2>3, <3>3 DEF Placed, Moves
      <4>2. QED BY <1>0, <3>3, <4>1, MovedThreads DEF Moves
    <3>4. CASE /\ req[Way(t)].pkt.what = "magic" <=> Head(th[t].prog) = "magic"
               /\ Moves(t, Ends(t), <<>>, th[t].clean /\ Mine(t), "ok")
      <4>1. Placed(t, th'[t])
        BY <1>0, <2>2, <2>3, <3>4 DEF Placed, Moves, Ends
      <4>2. QED BY <1>0, <3>4, <4>1, MovedThreads DEF Moves
    <3>5. QED BY <2>1, <3>1, <3>2, <3>3, <3>4
  <2>5. Stopped'
    BY <1>0, <1>1, <2>1 DEF Stopped, FailsIn, Moves
  <2>6. Globals' /\ Hosted' /\ MagicIsU'
    BY <1>0, <1>1, <2>1 DEF Globals, Hosted, MagicIsU, FailsIn
  <2>7. QED BY <2>4, <2>5, <2>6, BaseParts, PTL
<1>6. CASE Signal(t)
  <2>1. /\ th[t].pc = "signal" /\ sema' = NULL
        /\ UNCHANGED <<up, restarts, attached, session, mainev, transev, connected, req,
                       areq, waited, host, caught>>
        /\ Moves(t, Back(t), th[t].prog, th[t].clean, th[t].ret)
    BY <1>0, <1>6, SignalIs
  <2>2. Placed(t, th'[t]) /\ (t = U => up)
    BY <1>0, <2>1 DEF Placed, Moves, Back, Stopped
  <2>3. Threads' /\ Stopped'
    BY <1>0, <1>1, <2>1, <2>2, MovedThreads DEF Moves, Stopped
  <2>4. Globals' /\ Hosted' /\ MagicIsU'
    BY <1>0, <1>1, <2>1 DEF Globals, Hosted, MagicIsU
  <2>5. QED BY <2>3, <2>4, BaseParts, PTL
<1>7. QED BY <1>2, <1>3, <1>4, <1>5, <1>6 DEF Step

\* The steps that give one thread a fresh record.
LEMMA FreshThreads ==
  ASSUME Threads, NEW t \in Thread, NEW r \in ThreadRec, Placed(t, r),
         th' = [th EXCEPT ![t] = r]
  PROVE  Threads'
<1>1. th' \in [Thread -> ThreadRec] /\ th'[t] = r /\ \A s \in Thread : s # t => th'[s] = th[s]
  BY DEF Threads
<1>2. QED BY <1>1, MovedThreads

\* The base invariant: clients that call in, and those that wait for the connection.
LEMMA ClientBase ==
  ASSUME LinkAssumption, Base, NEW c \in Client,
         \/ \E op \in Ops : Call(c, op)
         \/ usbWaitForConnectCall(c) \/ usbWaitForConnectDone(c)
  PROVE  Base'
<1>0. /\ Globals /\ Hosted /\ Threads /\ Stopped /\ MagicIsU
      /\ c \in Thread /\ c # U /\ U \in Thread
  BY BaseParts DEF Base, Threads, LinkAssumption, Thread
<1>1. PICK r \in ThreadRec : Placed(c, r) /\ th' = [th EXCEPT ![c] = r]
  <2>1. ASSUME NEW op \in Ops, Call(c, op)
        PROVE  \E r \in ThreadRec : Placed(c, r) /\ th' = [th EXCEPT ![c] = r]
    <3>1. op \in DOMAIN Prog \ {"magic"}
      BY DEF LinkAssumption
    <3>2. CASE connected
      BY <1>0, <2>1, <3>1, <3>2, FreshPlaced DEF Call
    <3>3. CASE ~connected
      BY <1>0, <2>1, <3>1, <3>3, FreshPlaced DEF Call
    <3>4. QED BY <3>2, <3>3
  <2>2. CASE usbWaitForConnectCall(c)
    BY <1>0, <2>2, FreshPlaced DEF usbWaitForConnectCall
  <2>3. CASE usbWaitForConnectDone(c)
    BY <1>0, <2>3, FreshPlaced DEF usbWaitForConnectDone
  <2>4. QED BY <2>1, <2>2, <2>3
<1>2. Threads'
  BY <1>0, <1>1, FreshThreads
<1>3. /\ UNCHANGED <<up, restarts, attached, session, mainev, transev, sema, connected, req,
                     areq, host, caught>>
      /\ waited' = waited \/ waited' = [waited EXCEPT ![c] = 1]
  BY DEF Call, usbWaitForConnectCall, usbWaitForConnectDone
<1>4. Globals' /\ Hosted' /\ MagicIsU'
  BY <1>0, <1>3 DEF Globals, Hosted, MagicIsU
<1>5. Stopped'
  BY <1>0, <1>1, <1>3 DEF Stopped, Threads
<1>6. QED BY <1>2, <1>4, <1>5, BaseParts, PTL

\* The base invariant: the driver's own thread.
LEMMA UsbThreadBase ==
  ASSUME LinkAssumption, Base, UsbThread
  PROVE  Base'
<1>0. Globals /\ Hosted /\ Threads /\ Stopped /\ MagicIsU /\ U \in Thread /\ th[U] \in ThreadRec
  BY BaseParts DEF Base, Threads, Thread
<1>1. /\ PostOutcomes \subseteq {"none", "pending", "err"}
      /\ Armed \subseteq {"none", "pending", "ok", "err"}
  BY <1>0 DEF PostOutcomes, Armed, Globals
<1>2. up
  BY <1>0 DEF Stopped, UsbThread, usb_thread_wait, usb_thread_handle, usb_thread_greet,
              usb_thread_connect, Globals
<1>3. CASE usb_thread_wait
  <2>1. Placed(U, [th[U] EXCEPT !.pc = "handle", !.result = mainev \cap WaitedFor])
    BY <1>0, <1>3 DEF Threads, Placed, ThreadRec, usb_thread_wait
  <2>2. [th[U] EXCEPT !.pc = "handle", !.result = mainev \cap WaitedFor] \in ThreadRec
    BY <1>0 DEF ThreadRec, Pc, WaitedFor
  <2>3. th' = [th EXCEPT ![U] = [th[U] EXCEPT !.pc = "handle", !.result = mainev \cap WaitedFor]]
    BY <1>0, <1>3 DEF usb_thread_wait, Threads, ThreadRec
  <2>4. Threads'
    BY <1>0, <2>1, <2>2, <2>3, FreshThreads
  <2>5. Globals' /\ Hosted' /\ MagicIsU' /\ Stopped'
    BY <1>0, <1>2, <1>3 DEF usb_thread_wait, Globals, Hosted, MagicIsU, Stopped
  <2>6. QED BY <2>4, <2>5, BaseParts, PTL
<1>4. CASE usb_thread_handle
  <2>1. Threads'
    BY <1>0, <1>4, FreshThreads, FreshPlaced DEF usb_thread_handle
  <2>2. PICK st \in IF Rearm(th[U].result) THEN Armed ELSE {areq} :
          /\ areq' = st
          /\ mainev' = (IF Rearm(th[U].result) THEN ArmedEvents(st, mainev) ELSE mainev)
                         \cap Keep(Down(th[U].result))
    BY <1>4 DEF usb_thread_handle
  <2>3. /\ areq' \in {"none", "pending", "ok", "err"}
        /\ mainev' \subseteq {"ATTACH", "DETACH", "ASYNC", "CONNECT"}
    BY <1>0, <1>1, <2>2 DEF Globals, ArmedEvents
  <2>4. Globals' /\ Hosted' /\ MagicIsU' /\ Stopped'
    BY <1>0, <1>2, <1>4, <2>3 DEF usb_thread_handle, Globals, Hosted, MagicIsU, Stopped
  <2>5. QED BY <2>1, <2>4, BaseParts, PTL
<1>5. CASE usb_thread_greet
  <2>1. Prog.hello = Prog["hello"] /\ "hello" \in DOMAIN Prog \ {"magic"}
    BY ProgIs
  <2>2. Threads'
    BY <1>0, <1>5, <2>1, FreshThreads, FreshPlaced DEF usb_thread_greet
  <2>3. Globals' /\ Hosted' /\ MagicIsU' /\ Stopped'
    BY <1>0, <1>2, <1>5 DEF usb_thread_greet, Globals, Hosted, MagicIsU, Stopped
  <2>4. QED BY <2>2, <2>3, BaseParts, PTL
<1>6. CASE usb_thread_connect
  <2>1. Threads'
    BY <1>0, <1>6, FreshThreads, FreshPlaced DEF usb_thread_connect
  <2>2. Globals' /\ Hosted' /\ MagicIsU' /\ Stopped'
    BY <1>0, <1>1, <1>2, <1>6 DEF usb_thread_connect, Globals, Hosted, MagicIsU, Stopped, ArmedEvents
  <2>3. QED BY <2>1, <2>2, BaseParts, PTL
<1>7. QED BY <1>3, <1>4, <1>5, <1>6 DEF UsbThread

\* The base invariant: the bus, the cable and the PC program.
LEMMA BusBase ==
  ASSUME LinkAssumption, Base,
         \/ open_device \/ CloseSession
         \/ bulk_read \/ bulk_write \/ HandlerTimeout \/ async_write
  PROVE  Base'
<1>0. /\ Globals /\ Hosted /\ Threads /\ Stopped /\ MagicIsU /\ U \in Thread /\ Typed
      /\ NULL \notin Thread
  BY BaseParts DEF Base, Threads, Thread, LinkAssumption
<1>1. CASE open_device
  <2>1. Prog.magic = <<"magic">> /\ Prog["magic"] = <<"magic">> /\ "magic" \in DOMAIN Prog
        /\ <<"magic">> \in Seq(What)
    BY ProgIs DEF What
  <2>2. <<"magic">> \in Rests(Prog["magic"])
    BY <2>1, RestFacts
  <2>3. Hosted' /\ MagicIsU'
    BY <1>0, <1>1, <2>1, <2>2 DEF open_device, Hosted, MagicIsU
  <2>4. Globals'
    BY <1>0, <1>1 DEF open_device, Globals, LinkAssumption
  <2>5. Threads' /\ Stopped'
    BY <1>0, <1>1 DEF open_device, Threads, Stopped
  <2>6. QED BY <2>3, <2>4, <2>5, BaseParts, PTL
<1>2. CASE CloseSession
  <2>1. /\ attached' = FALSE /\ host' = HostIdle
        /\ UNCHANGED <<up, restarts, session, sema, connected, waited, caught>>
        /\ Wakes({"IN", "OUT"}, th, th') /\ transev' \subseteq transev \cup {"IN", "OUT"}
        /\ req' = [d \in {"IN", "OUT"} |-> IF req[d].st = "pending"
                                           THEN [req[d] EXCEPT !.st = "err"] ELSE req[d]]
        /\ areq' = IF areq = "pending" THEN "err" ELSE areq
        /\ mainev' = mainev \cup {"DETACH"} \cup (IF areq = "pending" THEN {"ASYNC"} ELSE {})
    BY <1>0, <1>2, CloseSessionIs
  <2>2. Threads'
    BY <1>0, <2>1, WokenThreads
  <2>3. Stopped'
    BY <1>0, <2>1 DEF Stopped, Wakes
  <2>4. "close" \in DOMAIN Prog /\ <<>> \in Seq(What)
    BY ProgIs
  <2>5. <<>> \in Rests(Prog["close"])
    BY <2>4, RestFacts
  <2>6. Hosted'
    BY <2>1, <2>4, <2>5 DEF Hosted, HostIdle
  <2>7. /\ req' \in [{"IN", "OUT"} -> [st : {"none", "pending", "ok", "err"}, pkt : Packet]]
        /\ req'["OUT"].pkt = req["OUT"].pkt
    BY <1>0, <2>1 DEF Globals
  <2>8. MagicIsU'
    BY <1>0, <2>1, <2>7 DEF MagicIsU, HostIdle
  <2>9. Globals'
    BY <1>0, <2>1, <2>7 DEF Globals
  <2>10. QED BY <2>2, <2>3, <2>6, <2>8, <2>9, BaseParts, PTL
<1>3. CASE bulk_read
  <2> DEFINE pkt == req["IN"].pkt
  <2>1. /\ req' = [req EXCEPT !["IN"] = [st |-> "ok", pkt |-> pkt]]
        /\ Wakes({"IN"}, th, th') /\ transev' \subseteq transev \cup {"IN"}
    <3>1. Complete("IN", "ok", pkt)
      BY <1>3 DEF bulk_read
    <3>2. QED BY <1>0, <3>1, CompleteIs
  <2>2. Threads'
    BY <1>0, <2>1, WokenThreads
  <2>3. UNCHANGED <<up, restarts, attached, session, mainev, sema, connected, areq, waited, caught>>
    BY <1>3 DEF bulk_read
  <2>4. Stopped'
    BY <1>0, <2>1, <2>3 DEF Stopped, Wakes
  <2>5. pkt \in Packet /\ req'["OUT"] = req["OUT"]
    BY <1>0, <2>1 DEF Globals
  <2>6. Globals'
    BY <1>0, <2>1, <2>3, <2>5 DEF Globals
  <2>7. /\ pkt.op \in DOMAIN Prog /\ pkt.to \in Thread \cup {NULL}
    BY <2>5 DEF Packet
  <2>8. /\ Tail(Prog[pkt.op]) \in Rests(Prog[pkt.op]) /\ Tail(Prog[pkt.op]) # <<"magic">>
        /\ Tail(Prog[pkt.op]) \in Seq(What)
    BY <2>7, RestFacts
  <2>9. host.todo # <<>> => /\ Tail(host.todo) \in Rests(Prog[host.op]) /\ Tail(host.todo) # <<"magic">>
                            /\ Tail(host.todo) \in Seq(What)
    BY <1>0, RestFacts DEF Hosted
  <2>10. \/ host' = host /\ host.todo = <<>>
         \/ host' = [host EXCEPT !.from = pkt.to, !.op = pkt.op, !.todo = Tail(Prog[pkt.op])]
         \/ host.todo # <<>> /\ host' = [host EXCEPT !.todo = Tail(host.todo)]
    BY <1>0, <1>3 DEF bulk_read, Hosted
  <2> HIDE DEF pkt
  <2>11. Hosted' /\ host'.todo # <<"magic">>
    <3>1. CASE host' = host /\ host.todo = <<>>
      BY <1>0, <3>1 DEF Hosted
    <3>2. CASE host' = [host EXCEPT !.from = pkt.to, !.op = pkt.op, !.todo = Tail(Prog[pkt.op])]
      BY <1>0, <2>7, <2>8, <3>2 DEF Hosted
    <3>3. CASE host.todo # <<>> /\ host' = [host EXCEPT !.todo = Tail(host.todo)]
      BY <1>0, <2>9, <3>3 DEF Hosted
    <3>4. QED BY <2>10, <3>1, <3>2, <3>3
  <2>12. MagicIsU'
    BY <1>0, <2>5, <2>11 DEF MagicIsU
  <2>13. QED BY <2>2, <2>4, <2>6, <2>11, <2>12, BaseParts, PTL
<1>4. CASE bulk_write
  <2> DEFINE pkt == [to |-> host.from, op |-> host.op, what |-> Head(host.todo)]
  <2>1. /\ req' = [req EXCEPT !["OUT"] = [st |-> "ok", pkt |-> pkt]]
        /\ Wakes({"OUT"}, th, th') /\ transev' \subseteq transev \cup {"OUT"}
    <3>1. Complete("OUT", "ok", pkt)
      BY <1>4 DEF bulk_write
    <3> HIDE DEF pkt
    <3>2. QED BY <1>0, <3>1, CompleteIs
  <2>2. Threads'
    BY <1>0, <2>1, WokenThreads
  <2>3. /\ UNCHANGED <<up, restarts, attached, session, mainev, sema, connected, areq, waited, caught>>
        /\ host.todo # <<>> /\ host' = [host EXCEPT !.todo = Tail(host.todo)]
    BY <1>0, <1>4 DEF bulk_write, Hosted
  <2>4. Stopped'
    BY <1>0, <2>1, <2>3 DEF Stopped, Wakes
  <2>5. /\ Tail(host.todo) \in Rests(Prog[host.op]) /\ Tail(host.todo) # <<"magic">>
        /\ Tail(host.todo) \in Seq(What) /\ Head(host.todo) \in What
        /\ Head(host.todo) = "magic" => host.todo = <<"magic">>
    BY <1>0, <2>3, RestFacts DEF Hosted
  <2>6. pkt \in Packet
    BY <1>0, <2>5 DEF Packet, Hosted, What
  <2>7. pkt.what = "magic" => pkt = [to |-> U, op |-> "magic", what |-> "magic"]
    BY <1>0, <2>5 DEF MagicIsU
  <2> HIDE DEF pkt
  <2>8. req'["OUT"].pkt = pkt
    BY <1>0, <2>1 DEF Globals
  <2>9. Globals'
    BY <1>0, <2>1, <2>3, <2>6 DEF Globals
  <2>10. Hosted' /\ host'.todo # <<"magic">>
    BY <1>0, <2>3, <2>5 DEF Hosted
  <2>11. MagicIsU'
    BY <2>7, <2>8, <2>10 DEF MagicIsU
  <2>12. QED BY <2>2, <2>4, <2>9, <2>10, <2>11, BaseParts, PTL
<1>5. CASE HandlerTimeout
  <2>1. <<>> \in Rests(Prog[host.op]) /\ <<>> \in Seq(What)
    BY <1>0, RestFacts DEF Hosted
  <2>2. host' = [host EXCEPT !.todo = <<>>]
    BY <1>5 DEF HandlerTimeout
  <2>3. Hosted' /\ host'.todo = <<>>
    BY <1>0, <2>1, <2>2 DEF Hosted
  <2>4. Globals' /\ Threads' /\ Stopped' /\ MagicIsU'
    BY <1>0, <1>5, <2>3 DEF HandlerTimeout, Globals, Threads, Stopped, MagicIsU
  <2>5. QED BY <2>3, <2>4, BaseParts, PTL
<1>6. CASE async_write
  <2>1. Globals' /\ Hosted' /\ Threads' /\ Stopped' /\ MagicIsU'
    BY <1>0, <1>6 DEF async_write, Globals, Hosted, Threads, Stopped, MagicIsU
  <2>2. QED BY <2>1, BaseParts, PTL
<1>7. QED BY <1>1, <1>2, <1>3, <1>4, <1>5, <1>6

\* The base invariant: stopping and starting the driver.
LEMMA RestartBase ==
  ASSUME LinkAssumption, Base, stop_func \/ start_func
  PROVE  Base'
<1>0. /\ Globals /\ Hosted /\ Threads /\ Stopped /\ MagicIsU /\ U \in Thread /\ Typed
  BY BaseParts DEF Base, Threads, Thread
<1>1. CASE stop_func
  <2>1. ASSUME NEW t \in Thread
        PROVE  /\ th[t].pc = "wait" /\ t # U =>
                    Ended(t, "fail") \in ThreadRec /\ Placed(t, Ended(t, "fail"))
               /\ Refused(t) \in ThreadRec /\ Placed(t, Refused(t))
    <3>1. th[t] \in ThreadRec /\ Placed(t, th[t]) /\ <<>> \in Seq(What)
      BY <1>0 DEF Threads
    <3>2. <<>> \in Rests(Prog[th[t].op])
      BY <3>1, RestFacts DEF ThreadRec
    <3>3. Ended(t, "fail") \in ThreadRec
      BY <3>1 DEF Ended, ThreadRec, Pc
    <3>4. th[t].pc = "wait" /\ t # U => Placed(t, Ended(t, "fail"))
      BY <3>1, <3>2 DEF Ended, ThreadRec, Placed
    <3>5. Refused(t) \in ThreadRec
      BY <3>1 DEF Refused, ThreadRec, Pc
    <3>6. Placed(t, Refused(t))
      BY <3>1, <3>2 DEF Refused, ThreadRec, Placed
    <3>7. QED BY <3>3, <3>4, <3>5, <3>6
  <2>2. ThreadInit \in ThreadRec /\ \A t \in Thread : Placed(t, ThreadInit)
    BY FreshPlaced
  <2>3. PICK asleep \in SUBSET Client :
          th' = [t \in Thread |->
                   IF t = U THEN ThreadInit
                   ELSE IF th[t].pc = "wait" THEN Ended(t, "fail")
                   ELSE IF t \in asleep THEN Refused(t)
                   ELSE IF th[t].pc = "conn" THEN ThreadInit ELSE th[t]]
    BY <1>1 DEF stop_func
  <2>4. Threads'
    BY <1>0, <2>1, <2>2, <2>3 DEF Threads
  <2>5. Globals' /\ Hosted' /\ MagicIsU'
    <3>1. restarts' \in 0 .. MaxRestart
      BY <1>0, <1>1 DEF stop_func, Globals, LinkAssumption
    <3>2. waited' \in [Client -> {NULL, 0, 1}]
      BY <1>0, <1>1 DEF stop_func, Globals
    <3>3. Globals'
      BY <1>0, <1>1, <3>1, <3>2 DEF stop_func, Globals
    <3>4. Hosted' /\ MagicIsU'
      BY <1>0, <1>1 DEF stop_func, Hosted, MagicIsU
    <3>5. QED BY <3>3, <3>4
  <2>6. Stopped'
    BY <1>0, <1>1, <2>3 DEF stop_func, Stopped, ThreadInit, Globals
  <2>7. QED BY <2>4, <2>5, <2>6, BaseParts, PTL
<1>2. CASE start_func
  <2>1. Globals' /\ Hosted' /\ Threads' /\ Stopped' /\ MagicIsU'
    BY <1>0, <1>2 DEF start_func, Globals, Hosted, Threads, Stopped, MagicIsU
  <2>2. QED BY <2>1, BaseParts, PTL
<1>3. QED BY <1>1, <1>2

\* The base invariant holds initially.
LEMMA InitBase == LinkAssumption /\ Init => Base
<1> SUFFICES ASSUME LinkAssumption, Init PROVE Base
  OBVIOUS
<1>1. "close" \in DOMAIN Prog /\ <<>> \in Seq(What)
  BY ProgIs
<1>2. <<>> \in Rests(Prog["close"])
  BY <1>1, RestFacts
<1>3. NoReq \in [st : {"none", "pending", "ok", "err"}, pkt : Packet] /\ NoReq.pkt.what # "magic"
  BY <1>1 DEF NoReq, NoPacket, Packet
<1>4. Globals
  <2>1. req \in [{"IN", "OUT"} -> [st : {"none", "pending", "ok", "err"}, pkt : Packet]]
    BY <1>3 DEF Init
  <2>2. 0 \in 0 .. MaxRestart /\ 0 \in 0 .. MaxSession
    BY DEF LinkAssumption
  <2>3. waited \in [Client -> {NULL, 0, 1}]
    BY DEF Init
  <2>4. QED BY <2>1, <2>2, <2>3 DEF Init, Globals
<1>5. Hosted /\ MagicIsU
  BY <1>1, <1>2, <1>3 DEF Init, Hosted, HostIdle, MagicIsU
<1>6. Threads /\ Stopped
  BY FreshPlaced DEF Init, Threads, Stopped
<1>7. QED BY <1>4, <1>5, <1>6, BaseParts

\* The base invariant is inductive.
LEMMA NextBase == LinkAssumption /\ Base /\ [Next]_vars => Base'
<1> SUFFICES ASSUME LinkAssumption, Base, [Next]_vars PROVE Base'
  OBVIOUS
<1>1. CASE UNCHANGED vars
  BY <1>1 DEF vars, Base, Typed, TypeOK, Stopped, MagicIsU
<1>2. CASE Next
  BY <1>2, ThreadStepBase, ClientBase, UsbThreadBase, BusBase, RestartBase
  DEF Next, Detach, MagicTimeout
<1>3. QED BY <1>1, <1>2

-----------------------------------------------------------------------------
(* The connection follows the cable. *)

\* A step that leaves the line, the events and usb_thread's place alone.
LEMMA LineKept ==
  ASSUME UNCHANGED <<up, restarts, attached, mainev, connected, areq>>,
         host'.todo = <<"magic">> => host.todo = <<"magic">>,
         th'[U].pc = "handle" <=> th[U].pc = "handle",
         th'[U].result = th[U].result
  PROVE  (Served => Served') /\ (Follows => Follows')
<1>1. Served => Served'
  BY DEF Served, News
<1>2. NewsPending' <=> NewsPending
  BY DEF NewsPending
<1>3. Follows => Follows'
  BY <1>2 DEF Follows, FreshConnection, ConnectedMeansSession, ConnectAnnounced, InputArmed
<1>4. QED BY <1>1, <1>3

\* The connection: a step of a thread inside an operation.
LEMMA ThreadStepConn ==
  ASSUME LinkAssumption, CInv, NEW t \in Thread, Step(t)
  PROVE  Greeted' /\ Follows'
<1>0. /\ Base /\ Typed /\ Greeted /\ Follows /\ U \in Thread
      /\ th[t] \in ThreadRec /\ Placed(t, th[t]) /\ Globals
  BY BaseParts DEF CInv, Base, Threads, Thread
<1>1. CASE Post(t)
  <2>1. /\ th[t].pc = "post"
        /\ UNCHANGED <<up, restarts, attached, session, mainev, connected, areq, waited, host, caught>>
        /\ \/ ~up /\ FailsIn(t) /\ UNCHANGED <<req, transev>>
           \/ \E st \in {"none", "pending", "err"} : Posts(t, st)
    BY <1>0, <1>1, PostIs
  <2>2. /\ th'[U].pc = "handle" <=> th[U].pc = "handle"
        /\ th'[U].result = th[U].result
        /\ th'[U] = th[U] \/ (t = U /\ th'[U].op = th[U].op /\ th'[U].pc \in {"posted", "idle", "signal"})
    BY <1>0, <2>1 DEF Posts, FailsIn, Quits, Goes, Moves
  <2>3. (Served => Served') /\ Follows'
    BY <1>0, <2>1, <2>2, LineKept
  <2>4. /\ req'["OUT"] = req["OUT"] \/ req'["OUT"].st # "ok"
        /\ Way(t) = "OUT" /\ th'[t].pc = "posted" => req'["OUT"].st # "ok"
    BY <1>0, <2>1 DEF Posts, Globals, FailsIn, Quits, Moves
  <2>5. t = U /\ th[U].op = "magic" => Way(t) = "OUT"
    BY <1>0, <2>1, RestFacts DEF Way, Placed, ThreadRec, Dir, InPackets
  <2>6. Greeted'
    BY <1>0, <2>1, <2>2, <2>3, <2>4, <2>5 DEF Greeted
  <2>7. QED BY <2>3, <2>6
<1>2. CASE Block(t)
  <2>1. /\ th[t].pc = "posted"
        /\ UNCHANGED <<up, restarts, attached, session, mainev, connected, req, areq, waited, host, caught>>
        /\ FailsIn(t) \/ Goes(t, "woken") \/ Goes(t, "wait")
    BY <1>0, <1>2, BlockIs
  <2>2. /\ th'[U].pc = "handle" <=> th[U].pc = "handle"
        /\ th'[U].result = th[U].result
        /\ th'[U] = th[U] \/ (t = U /\ th'[U].op = th[U].op /\ th'[U].pc \in {"woken", "wait", "idle", "signal"})
    BY <1>0, <2>1 DEF FailsIn, Quits, Goes, Moves
  <2>3. (Served => Served') /\ Follows'
    BY <1>0, <2>1, <2>2, LineKept
  <2>4. Greeted'
    BY <1>0, <2>1, <2>2, <2>3 DEF Greeted
  <2>5. QED BY <2>3, <2>4
<1>3. CASE WaitSema(t)
  <2>1. /\ th[t].pc = "sema"
        /\ UNCHANGED <<up, restarts, attached, session, mainev, transev, connected, req,
                       areq, waited, host, caught>>
        /\ \/ Moves(t, "idle", <<>>, th[t].clean, "fail")
           \/ Moves(t, "post", th[t].prog, th[t].clean, th[t].ret)
    BY <1>0, <1>3, WaitSemaIs
  <2>2. /\ th'[U].pc = "handle" <=> th[U].pc = "handle"
        /\ th'[U].result = th[U].result
        /\ th'[U] = th[U] \/ (t = U /\ th'[U].op = th[U].op /\ th'[U].pc \in {"post", "idle"})
    BY <1>0, <2>1 DEF FailsIn, Quits, Moves
  <2>3. (Served => Served') /\ Follows'
    BY <1>0, <2>1, <2>2, LineKept
  <2>4. Greeted'
    BY <1>0, <2>1, <2>2, <2>3 DEF Greeted
  <2>5. QED BY <2>3, <2>4
<1>4. CASE Inspect(t)
  <2>1. /\ th[t].pc = "woken"
        /\ UNCHANGED <<up, restarts, attached, session, mainev, transev, connected, req,
                       areq, waited, host, caught>>
        /\ \/ FailsIn(t)
           \/ /\ Head(th[t].prog) # "magic"
              /\ Moves(t, "post", th[t].prog, th[t].clean /\ Mine(t), th[t].ret)
           \/ Moves(t, "post", Tail(th[t].prog), th[t].clean /\ Mine(t), th[t].ret)
           \/ /\ req[Way(t)].st = "ok"
              /\ req[Way(t)].pkt.what = "magic" <=> Head(th[t].prog) = "magic"
              /\ Moves(t, Ends(t), <<>>, th[t].clean /\ Mine(t), "ok")
    BY <1>0, <1>4, InspectIs
  <2>2. /\ th'[U].pc = "handle" <=> th[U].pc = "handle"
        /\ th'[U].result = th[U].result
        /\ \/ th'[U] = th[U]
           \/ t = U /\ th'[U].op = th[U].op /\ th'[U].pc \in {"post", "idle", "signal"}
           \/ /\ t = U /\ th'[U].op = th[U].op
              /\ th'[U].pc = Ends(U) /\ req[Way(U)].st = "ok"
              /\ req[Way(U)].pkt.what = "magic" <=> Head(th[U].prog) = "magic"
    BY <1>0, <2>1 DEF FailsIn, Quits, Moves, Ends
  <2>3. (Served => Served') /\ Follows'
    BY <1>0, <2>1, <2>2, LineKept
  <2>4. t = U /\ th[U].op = "magic" => Way(U) = "OUT" /\ Head(th[U].prog) = "magic"
    BY <1>0, <2>1, RestFacts DEF Way, Placed, ThreadRec, Dir, InPackets
  <2>5. th[U].op = "magic" => th'[U].op # "hello"
    BY <2>2
  <2>6. ASSUME t = U, th'[U].pc = Ends(U), req[Way(U)].st = "ok",
               req[Way(U)].pkt.what = "magic" <=> Head(th[U].prog) = "magic",
               th'[U].op = th[U].op
        PROVE  Greeted'
    <3>1. CASE th[U].op = "magic"
      <4>1. Served
        BY <1>0, <2>1, <2>4, <2>6, <3>1 DEF Greeted
      <4>2. QED BY <2>3, <2>6, <3>1, <4>1 DEF Greeted, Ends
    <3>2. CASE th[U].op = "hello"
      <4>1. Served
        BY <1>0, <2>1, <2>6, <3>2 DEF Greeted
      <4>2. QED BY <2>3, <2>6, <3>2, <4>1 DEF Greeted, Ends
    <3>3. th[U].op \in {"magic", "hello"}
      BY <1>0, <2>1, <2>6 DEF Placed
    <3>4. QED BY <3>1, <3>2, <3>3
  <2>7. Greeted'
    BY <1>0, <2>1, <2>2, <2>3, <2>6 DEF Greeted
  <2>8. QED BY <2>3, <2>7
<1>5. CASE Signal(t)
  <2>1. /\ th[t].pc = "signal"
        /\ UNCHANGED <<up, restarts, attached, session, mainev, transev, connected, req,
                       areq, waited, host, caught>>
        /\ Moves(t, Back(t), th[t].prog, th[t].clean, th[t].ret)
    BY <1>0, <1>5, SignalIs
  <2>2. /\ th'[U].pc = "handle" <=> th[U].pc = "handle"
        /\ th'[U].result = th[U].result
        /\ \/ th'[U] = th[U]
           \/ t = U /\ th'[U].op = th[U].op /\ th'[U].pc \in {"hello_ok", "idle"}
    BY <1>0, <2>1 DEF Moves, Back
  <2>3. (Served => Served') /\ Follows'
    BY <1>0, <2>1, <2>2, LineKept
  <2>4. t = U => th[U].op = "hello"
    BY <1>0, <2>1 DEF Placed
  <2>5. t = U => Served
    BY <1>0, <2>1, <2>4 DEF Greeted
  <2>6. Greeted'
    BY <1>0, <2>1, <2>2, <2>3, <2>5 DEF Greeted
  <2>7. QED BY <2>3, <2>6
<1>6. QED BY <1>1, <1>2, <1>3, <1>4, <1>5 DEF Step

\* The connection: clients that call in and those that wait for it.
LEMMA ClientConn ==
  ASSUME LinkAssumption, CInv, NEW c \in Client,
         \/ \E op \in Ops : Call(c, op)
         \/ usbWaitForConnectCall(c) \/ usbWaitForConnectDone(c)
  PROVE  Greeted' /\ Follows'
<1>1. /\ Greeted /\ Follows /\ th \in [Thread -> ThreadRec]
      /\ c \in Thread /\ c # U /\ U \in Thread
  BY DEF CInv, Base, Typed, Thread, LinkAssumption
<1>2. /\ UNCHANGED <<up, restarts, attached, mainev, connected, areq, req, host>>
      /\ th'[U] = th[U]
  BY <1>1 DEF Call, usbWaitForConnectCall, usbWaitForConnectDone
<1>3. (Served => Served') /\ Follows'
  BY <1>1, <1>2, LineKept
<1>4. QED BY <1>1, <1>2, <1>3 DEF Greeted

\* The connection: the driver's own thread, which makes and breaks it.
LEMMA UsbThreadConn ==
  ASSUME LinkAssumption, CInv, UsbThread
  PROVE  Greeted' /\ Follows'
<1>0. /\ Greeted /\ FreshConnection /\ ConnectAnnounced /\ InputArmed
      /\ th \in [Thread -> ThreadRec] /\ U \in Thread /\ th[U] \in ThreadRec
      /\ Globals /\ Stopped
  BY BaseParts DEF CInv, Follows, Base, Typed, Thread
<1>1. up
  BY <1>0 DEF Stopped, UsbThread, usb_thread_wait, usb_thread_handle, usb_thread_greet,
              usb_thread_connect, Globals
<1>2. CASE usb_thread_wait
  <2> DEFINE bits == mainev \cap WaitedFor
  <2>1. /\ th[U].pc = "idle" /\ mainev' = mainev \ bits
        /\ th'[U].pc = "handle" /\ th'[U].result = bits
        /\ UNCHANGED <<up, restarts, attached, connected, areq, host>>
    BY <1>0, <1>2 DEF usb_thread_wait, ThreadRec
  <2>2. NewsPending' <=> NewsPending
    BY <2>1 DEF NewsPending, WaitedFor
  <2>3. "ASYNC" \in mainev => "ASYNC" \in bits
    BY DEF WaitedFor
  <2>4. "CONNECT" \in mainev' <=> "CONNECT" \in mainev
    BY <2>1 DEF WaitedFor
  <2> HIDE DEF bits
  <2>5. FreshConnection' /\ ConnectAnnounced'
    BY <1>0, <2>1, <2>2, <2>4 DEF FreshConnection, ConnectedMeansSession, ConnectAnnounced
  <2>6. InputArmed'
    BY <1>0, <2>1, <2>2, <2>3 DEF InputArmed
  <2>7. QED BY <2>1, <2>5, <2>6 DEF Follows, Greeted
<1>3. CASE usb_thread_handle
  <2> DEFINE result == th[U].result
  <2>1. PICK st \in IF Rearm(result) THEN Armed ELSE {areq} :
          /\ areq' = st
          /\ mainev' = (IF Rearm(result) THEN ArmedEvents(st, mainev) ELSE mainev)
                         \cap Keep(Down(result))
    BY <1>3 DEF usb_thread_handle
  <2>2. /\ th[U].pc = "handle" /\ connected' = (connected /\ ~Down(result))
        /\ UNCHANGED <<up, restarts, attached, host>>
    BY <1>3 DEF usb_thread_handle
  <2>3. /\ th'[U].pc \in {"post", "idle"}
        /\ th'[U].op = "magic" \/ th'[U].op = "close"
    BY <1>0, <1>3 DEF usb_thread_handle, ThreadInit
  <2>4. Greeted'
    BY <2>3 DEF Greeted
  <2>5. CASE Down(result)
    <3>1. ~connected' /\ "CONNECT" \notin mainev'
      BY <2>1, <2>2, <2>5 DEF Keep
    <3>2. QED BY <2>4, <3>1 DEF Follows, FreshConnection, ConnectedMeansSession,
                               ConnectAnnounced, InputArmed
  <2>6. CASE ~Down(result)
    <3>1. result \cap {"ATTACH", "DETACH"} = {}
      BY <2>6 DEF Down
    <3>2. connected' = connected
      BY <1>0, <2>2, <2>6 DEF Globals
    <3>3. \A e \in {"ATTACH", "DETACH", "CONNECT"} : e \in mainev' <=> e \in mainev
      BY <1>0, <2>1, <2>6 DEF Keep, ArmedEvents, Globals
    <3>4. NewsPending' <=> NewsPending
      BY <2>2, <2>3, <3>1, <3>3 DEF NewsPending
    <3>5. FreshConnection' /\ ConnectAnnounced'
      BY <1>0, <2>2, <3>2, <3>3, <3>4 DEF FreshConnection, ConnectedMeansSession, ConnectAnnounced
    <3>6. ASSUME connected, ~NewsPending, restarts = 0
          PROVE  areq' = "pending" \/ (areq' = "ok" /\ "ASYNC" \in mainev')
      <4>1. attached
        BY <1>0, <3>6 DEF FreshConnection, ConnectedMeansSession
      <4>2. CASE Rearm(result)
        BY <2>1, <4>1, <4>2 DEF Armed, PostOutcomes
      <4>3. CASE ~Rearm(result)
        <5>1. areq' = areq /\ ("ASYNC" \in mainev => "ASYNC" \in mainev')
          BY <2>1, <4>3 DEF Keep
        <5>2. areq = "pending" \/ (areq = "ok" /\ "ASYNC" \in mainev \cup result)
          BY <1>0, <2>2, <3>6 DEF InputArmed
        <5>3. QED BY <4>3, <5>1, <5>2 DEF Rearm
      <4>4. QED BY <4>2, <4>3
    <3>7. InputArmed'
      BY <2>2, <3>2, <3>4, <3>6 DEF InputArmed
    <3>8. QED BY <2>4, <3>5, <3>7 DEF Follows
  <2>7. QED BY <2>5, <2>6
<1>4. CASE usb_thread_greet
  <2>1. /\ th[U].pc = "greet" /\ th'[U].pc = "sema" /\ th'[U].op = "hello" /\ th'[U].result = {}
        /\ UNCHANGED <<up, restarts, attached, mainev, connected, areq, req, host>>
    BY <1>0, <1>4 DEF usb_thread_greet, ThreadInit
  <2>2. Served
    BY <1>0, <2>1 DEF Greeted
  <2>3. Served' /\ (NewsPending' <=> NewsPending)
    BY <2>1, <2>2 DEF Served, News, NewsPending
  <2>4. Follows'
    BY <1>0, <2>1, <2>3 DEF Follows, FreshConnection, ConnectedMeansSession, ConnectAnnounced,
                            InputArmed
  <2>5. QED BY <2>1, <2>3, <2>4 DEF Greeted
<1>5. CASE usb_thread_connect
  <2>1. /\ th[U].pc = "hello_ok" /\ th'[U].pc = "idle" /\ th'[U].op = "close"
        /\ connected' = TRUE /\ UNCHANGED <<up, restarts, attached, host>>
    BY <1>0, <1>5 DEF usb_thread_connect, ThreadInit
  <2>2. PICK st \in Armed : areq' = st /\ mainev' = ArmedEvents(st, mainev) \cup {"CONNECT"}
    BY <1>5 DEF usb_thread_connect
  <2>3. Served
    BY <1>0, <2>1 DEF Greeted
  <2>4. (News => NewsPending') /\ "CONNECT" \in mainev'
    BY <2>2 DEF News, NewsPending, ArmedEvents
  <2>5. attached => areq' = "pending"
    BY <2>2 DEF Armed, PostOutcomes
  <2>6. FreshConnection' /\ ConnectAnnounced'
    BY <2>1, <2>3, <2>4 DEF FreshConnection, ConnectedMeansSession, ConnectAnnounced, Served
  <2>7. InputArmed'
    BY <2>1, <2>3, <2>4, <2>5 DEF InputArmed, Served
  <2>8. QED BY <2>1, <2>6, <2>7 DEF Greeted, Follows
<1>6. QED BY <1>2, <1>3, <1>4, <1>5 DEF UsbThread

\* The PC's read and write, with the host's fields spelled out.
LEMMA ReadIs ==
  ASSUME Base, bulk_read
  PROVE  LET pkt == req["IN"].pkt IN
         /\ attached /\ req["IN"].st = "pending"
         /\ UNCHANGED <<up, restarts, attached, session, mainev, sema, connected, areq, waited, caught>>
         /\ req' = [req EXCEPT !["IN"] = [st |-> "ok", pkt |-> pkt]]
         /\ Wakes({"IN"}, th, th') /\ transev' \subseteq transev \cup {"IN"}
         /\ pkt.op \in DOMAIN Prog
         /\ \/ host.todo = <<>> /\ host' = host /\ pkt.what \notin {"cmd", "async", "bulk"}
            \/ /\ host.todo = <<>> /\ pkt.what \in {"cmd", "async", "bulk"}
               /\ host'.from = pkt.to /\ host'.op = pkt.op /\ host'.todo = Tail(Prog[pkt.op])
            \/ /\ host.todo # <<>> /\ Dir(Head(host.todo)) = "IN"
               /\ host'.from = host.from /\ host'.op = host.op /\ host'.todo = Tail(host.todo)
<1> DEFINE pkt == req["IN"].pkt
<1>1. Globals /\ Hosted /\ Typed
  BY BaseParts DEF Base
<1>2. pkt = req.IN.pkt
  OBVIOUS
<1>3. Complete("IN", "ok", pkt)
  BY DEF bulk_read
<1>4. /\ req["IN"].st = "pending" /\ req' = [req EXCEPT !["IN"] = [st |-> "ok", pkt |-> pkt]]
      /\ Wakes({"IN"}, th, th') /\ transev' \subseteq transev \cup {"IN"}
  BY <1>1, <1>3, CompleteIs
<1>5. pkt.op \in DOMAIN Prog
  BY <1>1 DEF Globals, Packet
<1>6. /\ attached
      /\ UNCHANGED <<up, restarts, attached, session, mainev, sema, connected, areq, waited, caught>>
      /\ \/ host.todo = <<>> /\ host' = host /\ pkt.what \notin {"cmd", "async", "bulk"}
         \/ /\ host.todo = <<>> /\ pkt.what \in {"cmd", "async", "bulk"}
            /\ host' = [host EXCEPT !.from = pkt.to, !.op = pkt.op, !.todo = Tail(Prog[pkt.op])]
         \/ /\ host.todo # <<>> /\ Dir(Head(host.todo)) = "IN"
            /\ host' = [host EXCEPT !.todo = Tail(host.todo)]
  BY DEF bulk_read
<1> HIDE DEF pkt
<1>7. \/ host.todo = <<>> /\ host' = host /\ pkt.what \notin {"cmd", "async", "bulk"}
      \/ /\ host.todo = <<>> /\ pkt.what \in {"cmd", "async", "bulk"}
         /\ host'.from = pkt.to /\ host'.op = pkt.op /\ host'.todo = Tail(Prog[pkt.op])
      \/ /\ host.todo # <<>> /\ Dir(Head(host.todo)) = "IN"
         /\ host'.from = host.from /\ host'.op = host.op /\ host'.todo = Tail(host.todo)
  BY <1>1, <1>6 DEF Hosted
<1>8. QED BY <1>4, <1>5, <1>6, <1>7 DEF pkt

\* The PC program writes its packet: the pending read completes and its waiter wakes.
LEMMA WriteIs ==
  ASSUME Base, bulk_write
  PROVE  /\ attached /\ req["OUT"].st = "pending"
         /\ host.todo # <<>> /\ Dir(Head(host.todo)) = "OUT"
         /\ UNCHANGED <<up, restarts, attached, session, mainev, sema, connected, areq, waited, caught>>
         /\ req' = [req EXCEPT !["OUT"] =
                      [st |-> "ok",
                       pkt |-> [to |-> host.from, op |-> host.op, what |-> Head(host.todo)]]]
         /\ Wakes({"OUT"}, th, th') /\ transev' \subseteq transev \cup {"OUT"}
         /\ host'.from = host.from /\ host'.op = host.op /\ host'.todo = Tail(host.todo)
<1> DEFINE pkt == [to |-> host.from, op |-> host.op, what |-> Head(host.todo)]
<1>1. Hosted /\ Typed
  BY BaseParts DEF Base
<1>2. /\ Complete("OUT", "ok", pkt) /\ attached
      /\ host.todo # <<>> /\ Dir(Head(host.todo)) = "OUT"
      /\ UNCHANGED <<up, restarts, attached, session, mainev, sema, connected, areq, waited, caught>>
      /\ host' = [host EXCEPT !.todo = Tail(host.todo)]
  BY <1>1 DEF bulk_write, Hosted
<1> HIDE DEF pkt
<1>3. /\ req["OUT"].st = "pending" /\ req' = [req EXCEPT !["OUT"] = [st |-> "ok", pkt |-> pkt]]
      /\ Wakes({"OUT"}, th, th') /\ transev' \subseteq transev \cup {"OUT"}
  BY <1>1, <1>2, CompleteIs
<1>4. host'.from = host.from /\ host'.op = host.op /\ host'.todo = Tail(host.todo)
  BY <1>1, <1>2 DEF Hosted
<1>5. QED BY <1>2, <1>3, <1>4 DEF pkt

\* The connection: the bus, the cable and the PC program.
LEMMA BusConn ==
  ASSUME LinkAssumption, CInv,
         \/ open_device \/ CloseSession
         \/ bulk_read \/ bulk_write \/ HandlerTimeout \/ async_write
  PROVE  Greeted' /\ Follows'
<1>0. /\ Greeted /\ Follows /\ FreshConnection /\ ConnectAnnounced /\ InputArmed
      /\ th \in [Thread -> ThreadRec] /\ U \in Thread /\ th[U] \in ThreadRec
      /\ Hosted /\ Base
  BY BaseParts DEF CInv, Follows, Base, Typed, Thread
<1>1. ASSUME News', UNCHANGED <<up, restarts, connected>>,
             "CONNECT" \in mainev' <=> "CONNECT" \in mainev
      PROVE  Greeted' /\ Follows'
  <2>1. NewsPending' /\ Served'
    BY <1>1 DEF News, NewsPending, Served
  <2>2. QED BY <1>0, <1>1, <2>1 DEF Greeted, Follows, FreshConnection, ConnectedMeansSession,
                                   ConnectAnnounced, InputArmed
<1>2. CASE open_device
  <2>1. News' /\ UNCHANGED <<up, restarts, connected>>
        /\ ("CONNECT" \in mainev' <=> "CONNECT" \in mainev)
    BY <1>2 DEF open_device, News
  <2>2. QED BY <1>1, <2>1
<1>3. CASE CloseSession
  <2>1. News' /\ UNCHANGED <<up, restarts, connected>>
        /\ ("CONNECT" \in mainev' <=> "CONNECT" \in mainev)
    BY <1>3 DEF CloseSession, News
  <2>2. QED BY <1>1, <2>1
<1>4. CASE bulk_read
  <2> DEFINE pkt == req["IN"].pkt
  <2>1. /\ attached /\ pkt.op \in DOMAIN Prog /\ Wakes({"IN"}, th, th')
        /\ UNCHANGED <<up, restarts, attached, mainev, connected, areq>>
        /\ \/ host.todo = <<>> /\ host' = host
           \/ host'.todo = Tail(Prog[pkt.op])
           \/ host.todo # <<>> /\ host'.todo = Tail(host.todo)
    BY <1>0, <1>4, ReadIs
  <2>2. Tail(Prog[pkt.op]) # <<"magic">>
    BY <2>1, RestFacts
  <2>3. host.todo # <<>> => Tail(host.todo) # <<"magic">>
    BY <1>0, RestFacts DEF Hosted
  <2>4. host'.todo # <<"magic">>
    <3>1. <<>> # <<"magic">>
      OBVIOUS
    <3> DEFINE m == <<"magic">>
               p == Tail(Prog[pkt.op])
    <3> HIDE DEF m, p
    <3>2. host'.todo # m
      BY <2>1, <2>2, <2>3, <3>1 DEF m, p
    <3>3. QED BY <3>2 DEF m
  <2>5. /\ th'[U].result = th[U].result
        /\ th'[U].pc = th[U].pc \/ (th[U].pc = "wait" /\ th'[U].pc = "woken")
    BY <1>0, <2>1 DEF Wakes
  <2>6. Follows' /\ Served'
    BY <1>0, <2>1, <2>4, <2>5, LineKept DEF Served
  <2>7. QED BY <2>6 DEF Greeted
<1>5. CASE bulk_write
  <2>1. /\ attached /\ Wakes({"OUT"}, th, th')
        /\ UNCHANGED <<up, restarts, attached, mainev, connected, areq>>
        /\ host.todo # <<>> /\ host'.todo = Tail(host.todo)
    BY <1>0, <1>5, WriteIs
  <2>2. host'.todo # <<"magic">>
    BY <1>0, <2>1, RestFacts DEF Hosted
  <2>3. /\ th'[U].result = th[U].result
        /\ th'[U].pc = th[U].pc \/ (th[U].pc = "wait" /\ th'[U].pc = "woken")
    BY <1>0, <2>1 DEF Wakes
  <2>4. Follows' /\ Served'
    BY <1>0, <2>1, <2>2, <2>3, LineKept DEF Served
  <2>5. QED BY <2>4 DEF Greeted
<1>6. CASE HandlerTimeout
  <2>1. /\ host'.todo # <<"magic">>
        /\ UNCHANGED <<up, restarts, attached, mainev, connected, areq, req, th>>
    BY <1>0, <1>6 DEF HandlerTimeout, Hosted
  <2>2. (Served => Served') /\ Follows'
    BY <1>0, <2>1, LineKept
  <2>3. QED BY <1>0, <2>1, <2>2 DEF Greeted
<1>7. CASE async_write
  <2>1. /\ attached /\ areq = "pending" /\ areq' = "ok" /\ mainev' = mainev \cup {"ASYNC"}
        /\ UNCHANGED <<up, restarts, attached, connected, req, th, host>>
    BY <1>7 DEF async_write
  <2>2. (NewsPending' <=> NewsPending) /\ (Served => Served')
    BY <2>1 DEF NewsPending, Served, News
  <2>3. Follows'
    BY <1>0, <2>1, <2>2 DEF Follows, FreshConnection, ConnectedMeansSession, ConnectAnnounced,
                            InputArmed
  <2>4. QED BY <1>0, <2>1, <2>2, <2>3 DEF Greeted
<1>8. QED BY <1>2, <1>3, <1>4, <1>5, <1>6, <1>7

\* The connection: stopping and starting the driver.
LEMMA RestartConn ==
  ASSUME LinkAssumption, CInv, stop_func \/ start_func
  PROVE  Greeted' /\ Follows'
<1>0. /\ Greeted /\ Follows /\ Stopped /\ U \in Thread /\ Globals
  BY BaseParts DEF CInv, Base, Thread
<1>1. CASE stop_func
  <2>1. restarts' # 0
    BY <1>0, <1>1 DEF stop_func, Globals
  <2>2. th'[U].pc = "idle"
    BY <1>0, <1>1 DEF stop_func, ThreadInit
  <2>3. QED BY <2>1, <2>2 DEF Greeted, Follows, FreshConnection, ConnectAnnounced, InputArmed
<1>2. CASE start_func
  <2>1. restarts # 0 /\ th[U].pc = "idle" /\ UNCHANGED <<restarts, th>>
    BY <1>0, <1>2 DEF start_func, Stopped
  <2>2. QED BY <2>1 DEF Greeted, Follows, FreshConnection, ConnectAnnounced, InputArmed
<1>3. QED BY <1>1, <1>2

\* g_connected, CONNECT and the input request follow the cable until the driver is
\* first stopped, for any number of threads, sessions and whatever the bus does
\* with a post that no PC will read (usb_thread, usb_attach, usb_detach).
THEOREM ConnectionIsFollowed == Spec => []ConnectionFollows
<1>0. LinkAssumption
  BY LinkAssumption
<1>1. Init => CInv
  <2> SUFFICES ASSUME Init PROVE CInv
    OBVIOUS
  <2>1. U \in Thread
    BY DEF Thread
  <2>2. th[U].pc = "idle" /\ th[U].op = "close" /\ connected = FALSE /\ mainev = {}
    BY <2>1 DEF Init, ThreadInit
  <2>3. Greeted /\ Follows
    BY <2>2 DEF Greeted, Follows, FreshConnection, ConnectedMeansSession, ConnectAnnounced,
                InputArmed
  <2>4. QED BY <1>0, <2>3, InitBase DEF CInv
<1>2. CInv /\ [Next]_vars => CInv'
  <2> SUFFICES ASSUME CInv, [Next]_vars PROVE CInv'
    OBVIOUS
  <2>1. Base'
    BY <1>0, NextBase DEF CInv
  <2>2. CASE UNCHANGED vars
    BY <2>1, <2>2 DEF CInv, vars, Greeted, Served, News, Follows, FreshConnection,
         ConnectedMeansSession, NewsPending, ConnectAnnounced, InputArmed
  <2>3. CASE Next
    <3>1. Greeted' /\ Follows'
      BY <1>0, <2>3, ThreadStepConn, ClientConn, UsbThreadConn, BusConn, RestartConn
      DEF Next, Detach, MagicTimeout
    <3>2. QED BY <2>1, <3>1 DEF CInv
  <2>4. QED BY <2>2, <2>3
<1>3. CInv => ConnectionFollows
  BY DEF CInv, Base, Typed, Follows, ConnectionFollows, InputStaysArmed, InputArmed
<1>4. QED BY <1>1, <1>2, <1>3, PTL DEF Spec

-----------------------------------------------------------------------------
(* The semaphore: one thread at a time is inside an operation. *)

\* Others stay where they are, and one thread moves.
LEMMA MovedInOp ==
  ASSUME NEW t, NEW pc, NEW prog, NEW clean, NEW ret, Moves(t, pc, prog, clean, ret)
  PROVE  /\ \A s \in Thread : s # t => (InOp(s)' <=> InOp(s)) /\ Way(s)' = Way(s)
         /\ InOp(t)' <=> pc \in {"post", "posted", "wait", "woken"} /\ th[t].op # "magic"
BY DEF Moves, InOp, Way

\* Waking a thread changes neither what it is in nor which way its packet goes.
LEMMA WokenInOp ==
  ASSUME NEW ds, Wakes(ds, th, th')
  PROVE  \A s \in Thread : (InOp(s)' <=> InOp(s)) /\ Way(s)' = Way(s)
BY DEF Wakes, InOp, Way

\* A step that takes nobody into or out of an operation.
LEMMA KeepsExclusive ==
  ASSUME Exclusive, UNCHANGED <<sema, up>>, \A s \in Thread : Holds(s)' <=> Holds(s)
  PROVE  Exclusive'
BY DEF Exclusive

\* The semaphore: at most one thread is inside an operation after any step.
LEMMA NextExclusive ==
  ASSUME LinkAssumption, Base, Exclusive, [Next]_vars, ~caught'
  PROVE  Exclusive'
<1>0. /\ Typed /\ Globals /\ Threads /\ Stopped /\ th \in [Thread -> ThreadRec]
      /\ NULL \notin Thread /\ U \in Thread
      /\ \A t \in Thread : Placed(t, th[t])
  BY BaseParts DEF Base, Threads, LinkAssumption, Thread
<1>1. ASSUME NEW t \in Thread, Step(t)
      PROVE  Exclusive'
  <2>1. ASSUME NEW pc, NEW prog, NEW clean, NEW ret, Moves(t, pc, prog, clean, ret),
               th[t].pc \in {"post", "posted", "woken"}, UNCHANGED <<sema, up>>,
               \/ pc \in {"post", "posted", "wait", "woken"}
               \/ pc = Quits(t)
               \/ pc = Ends(t)
        PROVE  Exclusive'
    <3>1. \A s \in Thread : s # t => (Holds(s)' <=> Holds(s))
      BY <2>1 DEF Moves, InOp, Holds
    <3>2. Holds(t)' <=> Holds(t)
      BY <2>1 DEF Moves, InOp, Holds, Quits, Ends
    <3>3. QED BY <2>1, <3>1, <3>2, KeepsExclusive
  <2>2. CASE Post(t)
    <3>1. /\ th[t].pc = "post" /\ UNCHANGED up
          /\ FailsIn(t) \/ Goes(t, "posted")
      BY <1>0, <2>2, PostIs DEF Posts
    <3>2. QED BY <2>1, <3>1 DEF Goes, FailsIn
  <2>3. CASE Block(t)
    <3>1. /\ th[t].pc = "posted" /\ UNCHANGED up
          /\ FailsIn(t) \/ Goes(t, "woken") \/ Goes(t, "wait")
      BY <1>0, <2>3, BlockIs
    <3>2. QED BY <2>1, <3>1 DEF Goes, FailsIn
  <2>4. CASE Inspect(t)
    <3>1. /\ th[t].pc = "woken" /\ UNCHANGED <<up, sema>>
          /\ \/ FailsIn(t)
             \/ Moves(t, "post", th[t].prog, th[t].clean /\ Mine(t), th[t].ret)
             \/ Moves(t, "post", Tail(th[t].prog), th[t].clean /\ Mine(t), th[t].ret)
             \/ Moves(t, Ends(t), <<>>, th[t].clean /\ Mine(t), "ok")
      BY <1>0, <2>4, InspectIs DEF FailsIn
    <3>2. QED BY <2>1, <3>1 DEF FailsIn
  <2>5. CASE Signal(t)
    <3>1. /\ th[t].pc = "signal" /\ UNCHANGED up /\ sema' = NULL
          /\ Moves(t, Back(t), th[t].prog, th[t].clean, th[t].ret)
      BY <1>0, <2>5, SignalIs
    <3>2. \A s \in Thread : s # t => (Holds(s)' <=> Holds(s))
      BY <3>1 DEF Moves, InOp, Holds
    <3>3. Holds(t) /\ ~ Holds(t)'
      BY <3>1 DEF Moves, Back, InOp, Holds
    <3>4. \A s \in Thread : ~ Holds(s)'
      BY <3>2, <3>3 DEF Exclusive
    <3>5. QED BY <1>0, <3>1, <3>4 DEF Exclusive
  <2>6. CASE WaitSema(t)
    <3>1. /\ th[t].pc = "sema" /\ UNCHANGED up
          /\ \/ Moves(t, "idle", <<>>, th[t].clean, "fail") /\ UNCHANGED sema
             \/ /\ up /\ sema = NULL /\ sema' = t
                /\ Moves(t, "post", th[t].prog, th[t].clean, th[t].ret)
      BY <1>0, <2>6, WaitSemaIs
    <3>2. ~ Holds(t)
      BY <3>1 DEF InOp, Holds
    <3>3. CASE Moves(t, "idle", <<>>, th[t].clean, "fail") /\ UNCHANGED sema
      <4>1. \A s \in Thread : Holds(s)' <=> Holds(s)
        BY <3>2, <3>3 DEF Moves, InOp, Holds
      <4>2. QED BY <3>1, <3>3, <4>1, KeepsExclusive
    <3>4. CASE /\ up /\ sema = NULL /\ sema' = t
               /\ Moves(t, "post", th[t].prog, th[t].clean, th[t].ret)
      <4>1. \A s \in Thread : ~ Holds(s)
        BY <1>0, <3>4 DEF Exclusive
      <4>2. \A s \in Thread : Holds(s)' <=> s = t
        <5>1. \A s \in Thread : s # t => (Holds(s)' <=> Holds(s))
          BY <3>4 DEF Moves, InOp, Holds
        <5>2. Holds(t)'
          BY <1>0, <3>1, <3>4 DEF Moves, InOp, Holds, Placed
        <5>3. QED BY <4>1, <5>1, <5>2
      <4>3. QED BY <3>1, <3>4, <4>2 DEF Exclusive
    <3>5. QED BY <3>1, <3>3, <3>4
  <2>7. QED BY <1>1, <2>2, <2>3, <2>4, <2>5, <2>6 DEF Step
<1>2. ASSUME NEW t \in Thread, NEW r, th' = [th EXCEPT ![t] = r], UNCHANGED <<sema, up>>,
             th[t].pc \in {"idle", "conn", "handle", "greet", "hello_ok"},
             r.pc \in {"idle", "conn", "sema", "handle"} \/ (r.pc = "post" /\ r.op = "magic")
      PROVE  Exclusive'
  <2>1. \A s \in Thread : s # t => (Holds(s)' <=> Holds(s))
    BY <1>0, <1>2 DEF InOp, Holds
  <2>2. ~ Holds(t) /\ ~ Holds(t)'
    BY <1>0, <1>2 DEF InOp, Holds
  <2>3. QED BY <1>2, <2>1, <2>2, KeepsExclusive
<1>3. ASSUME NEW c \in Client,
             \/ \E op \in Ops : Call(c, op)
             \/ usbWaitForConnectCall(c) \/ usbWaitForConnectDone(c)
      PROVE  Exclusive'
  <2>1. c \in Thread
    BY DEF Thread
  <2>2. ASSUME NEW op \in Ops, Call(c, op)
        PROVE  Exclusive'
    <3> DEFINE r == IF connected
                    THEN [ThreadInit EXCEPT !.pc = "sema", !.op = op, !.prog = Prog[op]]
                    ELSE [ThreadInit EXCEPT !.ret = "fail"]
    <3>1. /\ th' = [th EXCEPT ![c] = r] /\ UNCHANGED <<sema, up>> /\ th[c].pc = "idle"
          /\ r.pc \in {"idle", "sema"}
      BY <2>2 DEF Call, ThreadInit
    <3> HIDE DEF r
    <3>2. QED BY <1>2, <2>1, <3>1
  <2>3. CASE usbWaitForConnectCall(c)
    <3> DEFINE r == [ThreadInit EXCEPT !.pc = "conn"]
    <3>1. /\ th' = [th EXCEPT ![c] = r] /\ UNCHANGED <<sema, up>> /\ th[c].pc = "idle"
          /\ r.pc = "conn"
      BY <2>3 DEF usbWaitForConnectCall, ThreadInit
    <3> HIDE DEF r
    <3>2. QED BY <1>2, <2>1, <3>1
  <2>4. CASE usbWaitForConnectDone(c)
    <3>1. /\ th' = [th EXCEPT ![c] = ThreadInit] /\ UNCHANGED <<sema, up>> /\ th[c].pc = "conn"
          /\ ThreadInit.pc = "idle"
      BY <2>4 DEF usbWaitForConnectDone, ThreadInit
    <3>2. QED BY <1>2, <2>1, <3>1
  <2>5. QED BY <1>3, <2>2, <2>3, <2>4
<1>4. CASE UsbThread
  <2>1. CASE usb_thread_wait
    <3> DEFINE r == [th[U] EXCEPT !.pc = "handle", !.result = mainev \cap WaitedFor]
    <3>1. /\ th' = [th EXCEPT ![U] = r] /\ UNCHANGED <<sema, up>> /\ th[U].pc = "idle"
          /\ r.pc = "handle"
      BY <1>0, <2>1 DEF usb_thread_wait, ThreadRec
    <3> HIDE DEF r
    <3>2. QED BY <1>0, <1>2, <3>1
  <2>2. CASE usb_thread_handle
    <3> DEFINE r == IF "ATTACH" \in th[U].result
                    THEN [ThreadInit EXCEPT !.pc = "post", !.op = "magic", !.prog = Prog.magic]
                    ELSE ThreadInit
    <3>1. /\ th' = [th EXCEPT ![U] = r] /\ UNCHANGED <<sema, up>> /\ th[U].pc = "handle"
          /\ r.pc = "idle" \/ (r.pc = "post" /\ r.op = "magic")
      BY <2>2 DEF usb_thread_handle, ThreadInit
    <3> HIDE DEF r
    <3>2. QED BY <1>0, <1>2, <3>1
  <2>3. CASE usb_thread_greet
    <3> DEFINE r == [ThreadInit EXCEPT !.pc = "sema", !.op = "hello", !.prog = Prog.hello]
    <3>1. /\ th' = [th EXCEPT ![U] = r] /\ UNCHANGED <<sema, up>> /\ th[U].pc = "greet"
          /\ r.pc = "sema"
      BY <2>3 DEF usb_thread_greet, ThreadInit
    <3> HIDE DEF r
    <3>2. QED BY <1>0, <1>2, <3>1
  <2>4. CASE usb_thread_connect
    <3>1. /\ th' = [th EXCEPT ![U] = ThreadInit] /\ UNCHANGED <<sema, up>> /\ th[U].pc = "hello_ok"
          /\ ThreadInit.pc = "idle"
      BY <2>4 DEF usb_thread_connect, ThreadInit
    <3>2. QED BY <1>0, <1>2, <3>1
  <2>5. QED BY <1>4, <2>1, <2>2, <2>3, <2>4 DEF UsbThread
<1>5. ASSUME NEW ds, Wakes(ds, th, th'), UNCHANGED <<sema, up>>
      PROVE  Exclusive'
  <2>1. \A s \in Thread : Holds(s)' <=> Holds(s)
    BY <1>5 DEF Wakes, InOp, Holds
  <2>2. QED BY <1>5, <2>1, KeepsExclusive
<1>6. CASE CloseSession
  BY <1>0, <1>5, <1>6, CloseSessionIs
<1>7. CASE bulk_read
  <2>1. Wakes({"IN"}, th, th') /\ UNCHANGED <<sema, up>>
    BY <1>7, ReadIs
  <2>2. QED BY <1>5, <2>1
<1>8. CASE bulk_write
  <2>1. Wakes({"OUT"}, th, th') /\ UNCHANGED <<sema, up>>
    BY <1>8, WriteIs
  <2>2. QED BY <1>5, <2>1
<1>9. ASSUME UNCHANGED <<th, sema, up>>
      PROVE  Exclusive'
  BY <1>9, KeepsExclusive DEF InOp, Holds
<1>10. CASE stop_func
  <2>1. ~up' /\ sema' = NULL
    BY <1>10 DEF stop_func
  <2>2. \A t \in Thread : Holds(t)' => Holds(t)
    <3> SUFFICES ASSUME NEW t \in Thread, Holds(t)' PROVE Holds(t)
      OBVIOUS
    <3>1. PICK asleep \in SUBSET Client :
            th'[t] = IF t = U THEN ThreadInit
                     ELSE IF th[t].pc = "wait" THEN Ended(t, "fail")
                     ELSE IF t \in asleep THEN Refused(t)
                     ELSE IF th[t].pc = "conn" THEN ThreadInit ELSE th[t]
      BY <1>10 DEF stop_func
    <3>2. ThreadInit.pc = "idle" /\ Refused(t).pc = "idle" /\ (Ended(t, "fail").pc = "signal" => th[t].op # "magic")
          /\ Ended(t, "fail").pc \in {"idle", "signal"}
      BY <1>0 DEF ThreadInit, Ended, Refused, ThreadRec
    <3>3. QED BY <3>1, <3>2 DEF InOp, Holds
  <2>3. QED BY <1>0, <2>1, <2>2 DEF Exclusive
<1>11. CASE start_func
  <2>1. UNCHANGED <<th, sema>> /\ InExchange = {}
    BY <1>11 DEF start_func
  <2>2. \A t \in Thread : ~ Holds(t)' /\ ~ Holds(t)
    BY <2>1 DEF InOp, Holds, InExchange
  <2>3. \A t \in Thread : sema' # t
    BY <2>1, <2>2 DEF Exclusive
  <2>4. QED BY <2>2, <2>3 DEF Exclusive
<1>12. CASE open_device \/ HandlerTimeout \/ async_write \/ UNCHANGED vars
  BY <1>9, <1>12 DEF open_device, HandlerTimeout, async_write, vars
<1>13. QED BY <1>1, <1>3, <1>4, <1>6, <1>7, <1>8, <1>10, <1>11, <1>12
       DEF Next, Detach, MagicTimeout

-----------------------------------------------------------------------------
(* Who posted what is on the bus. *)

\* A step that leaves the bus alone and the sender in its wait.
LEMMA KeepsOwned ==
  ASSUME BusOwned, UNCHANGED <<up, attached, req>>, host'.todo = host.todo,
         req["IN"].st = "pending" =>
           /\ "IN" \notin transev'
           /\ \A s \in Thread : Sending(s) => /\ Sending(s)' /\ th'[s].op = th[s].op
                                               /\ th'[s].prog = th[s].prog
  PROVE  BusOwned'
<1>1. ASSUME req["IN"].st = "pending"
      PROVE  \E t \in Thread :
               /\ Sending(t)'
               /\ req'["IN"].pkt = [to |-> t, op |-> th'[t].op, what |-> Head(th'[t].prog)]
  <2>1. PICK t \in Thread :
          /\ Sending(t)
          /\ req["IN"].pkt = [to |-> t, op |-> th[t].op, what |-> Head(th[t].prog)]
    BY <1>1 DEF BusOwned
  <2>2. Sending(t)' /\ th'[t].op = th[t].op /\ th'[t].prog = th[t].prog
    BY <1>1, <2>1
  <2>3. QED BY <2>1, <2>2
<1>2. QED BY <1>1 DEF BusOwned

\* The bus: a step of a thread touches only the request it owns.
LEMMA ThreadStepOwned ==
  ASSUME LinkAssumption, Base, BusOwned, NEW t \in Thread, Step(t)
  PROVE  BusOwned'
<1>0. /\ Typed /\ Globals /\ th \in [Thread -> ThreadRec] /\ th[t] \in ThreadRec
      /\ Placed(t, th[t])
  BY BaseParts DEF Base, Threads
<1>1. ASSUME UNCHANGED <<up, attached, req, host>>, transev' \subseteq transev,
             \A s \in Thread : s # t => th'[s] = th[s], ~ Sending(t)
      PROVE  BusOwned'
  <2>1. \A s \in Thread : Sending(s) => /\ Sending(s)' /\ th'[s].op = th[s].op
                                        /\ th'[s].prog = th[s].prog
    BY <1>1 DEF Sending, InOp, Way
  <2>2. req["IN"].st = "pending" => "IN" \notin transev'
    BY <1>1 DEF BusOwned
  <2>3. QED BY <1>1, <2>1, <2>2, KeepsOwned
<1>2. CASE Inspect(t)
  <2>1. /\ th[t].pc = "woken" /\ UNCHANGED <<up, attached, req, host, transev>>
        /\ \A s \in Thread : s # t => th'[s] = th[s]
    BY <1>0, <1>2, InspectIs DEF FailsIn, Quits, Moves
  <2>2. QED BY <1>1, <2>1 DEF Sending
<1>3. CASE WaitSema(t)
  <2>1. /\ th[t].pc = "sema" /\ UNCHANGED <<up, attached, req, host, transev>>
        /\ \A s \in Thread : s # t => th'[s] = th[s]
    BY <1>0, <1>3, WaitSemaIs DEF Moves
  <2>2. QED BY <1>1, <2>1 DEF Sending
<1>7. CASE Signal(t)
  <2>1. /\ th[t].pc = "signal" /\ UNCHANGED <<up, attached, req, host, transev>>
        /\ \A s \in Thread : s # t => th'[s] = th[s]
    BY <1>0, <1>7, SignalIs DEF Moves
  <2>2. QED BY <1>1, <2>1 DEF Sending
<1>4. CASE Block(t)
  <2>1. /\ th[t].pc = "posted" /\ UNCHANGED <<up, attached, req, host>> /\ transev' \subseteq transev
        /\ \A s \in Thread : s # t => th'[s] = th[s]
        /\ \/ ~up
           \/ Way(t) \in transev
           \/ /\ th'[t].pc = "wait" /\ th'[t].op = th[t].op /\ th'[t].prog = th[t].prog
    BY <1>0, <1>4, BlockIs DEF FailsIn, Quits, Goes, Moves
  <2>2. ASSUME req["IN"].st = "pending"
        PROVE  /\ "IN" \notin transev'
               /\ \A s \in Thread : Sending(s) => /\ Sending(s)' /\ th'[s].op = th[s].op
                                                  /\ th'[s].prog = th[s].prog
    <3>1. up /\ "IN" \notin transev
      BY <2>2 DEF BusOwned
    <3>2. Sending(t) => /\ Sending(t)' /\ th'[t].op = th[t].op /\ th'[t].prog = th[t].prog
      BY <2>1, <3>1 DEF Sending, InOp, Way
    <3>3. \A s \in Thread : s # t /\ Sending(s) => Sending(s)'
      BY <2>1 DEF Sending, InOp, Way
    <3>4. QED BY <2>1, <3>1, <3>2, <3>3
  <2>3. QED BY <2>1, <2>2, KeepsOwned
<1>5. CASE Post(t)
  <2>1. /\ th[t].pc = "post" /\ UNCHANGED <<up, attached, host>>
        /\ \/ FailsIn(t) /\ UNCHANGED <<req, transev>>
           \/ \E st \in {"none", "pending", "err"} : Posts(t, st)
    BY <1>0, <1>5, PostIs
  <2>2. CASE FailsIn(t) /\ UNCHANGED <<req, transev>>
    BY <1>1, <2>1, <2>2 DEF FailsIn, Quits, Moves, Sending
  <2>3. ASSUME NEW st \in {"none", "pending", "err"}, Posts(t, st)
        PROVE  BusOwned'
    <3>1. /\ st \in PostOutcomes /\ (st = "pending" => attached)
          /\ \A s \in Thread : s # t => th'[s] = th[s]
      BY <2>3 DEF Posts, PostOutcomes, FailsIn, Quits, Goes, Moves
    <3>2. CASE Way(t) = "OUT"
      <4>1. /\ req'["IN"] = req["IN"] /\ req'["OUT"].st = st
            /\ "IN" \in transev' => "IN" \in transev
        BY <1>0, <2>3, <3>2 DEF Posts, Globals
      <4>2. ASSUME req["IN"].st = "pending"
            PROVE  \E s \in Thread :
                     /\ Sending(s)'
                     /\ req'["IN"].pkt = [to |-> s, op |-> th'[s].op, what |-> Head(th'[s].prog)]
        <5>1. PICK s \in Thread :
                /\ Sending(s)
                /\ req["IN"].pkt = [to |-> s, op |-> th[s].op, what |-> Head(th[s].prog)]
          BY <4>2 DEF BusOwned
        <5>2. s # t
          BY <2>1, <5>1 DEF Sending
        <5>3. Sending(s)' /\ th'[s] = th[s]
          BY <3>1, <5>1, <5>2 DEF Sending, InOp, Way
        <5>4. QED BY <4>1, <5>1, <5>3
      <4>3. QED BY <2>1, <3>1, <4>1, <4>2 DEF BusOwned
    <3>3. CASE Way(t) = "IN"
      <4>1. /\ req'["OUT"] = req["OUT"] /\ req'["IN"].st = st
            /\ req'["IN"].pkt = [to |-> t, op |-> th[t].op, what |-> Head(th[t].prog)]
            /\ st = "pending" => "IN" \notin transev'
            /\ Goes(t, "posted")
        BY <1>0, <2>3, <3>3 DEF Posts, Globals
      <4>2. Head(th[t].prog) # "magic" /\ th[t].op # "magic"
        <5>1. Head(th[t].prog) # "magic"
          BY <3>3 DEF Way, Dir, InPackets
        <5>2. th[t].prog # <<>>
          BY <1>0, <2>1 DEF Placed
        <5>3. QED BY <1>0, <5>1, <5>2, RestFacts DEF Placed, ThreadRec
      <4>3. Sending(t)' /\ th'[t].op = th[t].op /\ th'[t].prog = th[t].prog
        BY <3>3, <4>1, <4>2 DEF Sending, InOp, Way, Goes, Moves
      <4>4. QED BY <2>1, <3>1, <4>1, <4>2, <4>3 DEF BusOwned
    <3>4. QED BY <3>2, <3>3 DEF Way, Dir
  <2>4. QED BY <2>1, <2>2, <2>3
<1>6. QED BY <1>2, <1>3, <1>4, <1>5, <1>7 DEF Step

\* The bus: after any step each request still belongs to the thread that posted it.
LEMMA NextOwned ==
  ASSUME LinkAssumption, Base, BusOwned, [Next]_vars
  PROVE  BusOwned'
<1>0. /\ Typed /\ Globals /\ Threads /\ Stopped /\ th \in [Thread -> ThreadRec]
      /\ NULL \notin Thread /\ U \in Thread
      /\ \A t \in Thread : Placed(t, th[t])
  BY BaseParts DEF Base, Threads, LinkAssumption, Thread
<1>1. ASSUME NEW t \in Thread, UNCHANGED <<up, attached, req, host, transev>>,
             \A s \in Thread : s # t => th'[s] = th[s],
             th[t].pc \in {"idle", "conn", "handle", "greet", "hello_ok"}
      PROVE  BusOwned'
  <2>1. \A s \in Thread : Sending(s) => /\ Sending(s)' /\ th'[s].op = th[s].op
                                        /\ th'[s].prog = th[s].prog
    BY <1>1 DEF Sending, InOp, Way
  <2>2. QED BY <1>1, <2>1, KeepsOwned DEF BusOwned
<1>2. ASSUME NEW c \in Client,
             \/ \E op \in Ops : Call(c, op)
             \/ usbWaitForConnectCall(c) \/ usbWaitForConnectDone(c)
      PROVE  BusOwned'
  <2>1. /\ c \in Thread /\ th[c].pc \in {"idle", "conn"}
        /\ UNCHANGED <<up, attached, req, host, transev>>
    BY <1>2 DEF Thread, Call, usbWaitForConnectCall, usbWaitForConnectDone
  <2>2. \A s \in Thread : s # c => th'[s] = th[s]
    BY <1>0, <1>2 DEF Call, usbWaitForConnectCall, usbWaitForConnectDone
  <2>3. QED BY <1>1, <2>1, <2>2
<1>3. CASE UsbThread
  <2>1. /\ th[U].pc \in {"idle", "handle", "greet", "hello_ok"}
        /\ UNCHANGED <<up, attached, req, host, transev>>
        /\ \A s \in Thread : s # U => th'[s] = th[s]
    BY <1>0, <1>3 DEF UsbThread, usb_thread_wait, usb_thread_handle, usb_thread_greet,
                      usb_thread_connect
  <2>2. QED BY <1>0, <1>1, <2>1
<1>4. CASE open_device
  <2>1. /\ up /\ UNCHANGED <<up, req, th, transev>> /\ attached' = TRUE
    BY <1>4 DEF open_device
  <2>2. \A s \in Thread : Sending(s) => Sending(s)'
    BY <2>1 DEF Sending, InOp, Way
  <2>3. QED BY <2>1, <2>2 DEF BusOwned
<1>5. CASE CloseSession
  <2>1. /\ attached' = FALSE /\ host' = HostIdle
        /\ \A d \in {"IN", "OUT"} : req'[d].st # "pending" /\ req'[d].pkt = req[d].pkt
    <3>1. /\ attached' = FALSE /\ host' = HostIdle
          /\ req' = [d \in {"IN", "OUT"} |-> IF req[d].st = "pending"
                                             THEN [req[d] EXCEPT !.st = "err"] ELSE req[d]]
      BY <1>0, <1>5, CloseSessionIs
    <3>2. ASSUME NEW d \in {"IN", "OUT"}
          PROVE  req'[d].st # "pending" /\ req'[d].pkt = req[d].pkt
      <4>1. req[d] \in [st : {"none", "pending", "ok", "err"}, pkt : Packet]
        BY <1>0 DEF Globals
      <4>2. req'[d] = IF req[d].st = "pending" THEN [req[d] EXCEPT !.st = "err"] ELSE req[d]
        BY <3>1
      <4>3. QED BY <4>1, <4>2
    <3>3. QED BY <3>1, <3>2
  <2>2. QED BY <2>1 DEF BusOwned, HostIdle
<1>6. CASE bulk_read
  <2>1. /\ attached /\ UNCHANGED <<up, attached>>
        /\ req' = [req EXCEPT !["IN"] = [st |-> "ok", pkt |-> req["IN"].pkt]]
    BY <1>6, ReadIs
  <2>2. req'["IN"].st = "ok" /\ req'["IN"].pkt = req["IN"].pkt
    BY <1>0, <2>1 DEF Globals
  <2>3. QED BY <2>1, <2>2 DEF BusOwned
<1>7. CASE bulk_write
  <2>1. /\ attached /\ UNCHANGED <<up, attached>>
        /\ req' = [req EXCEPT !["OUT"] =
                     [st |-> "ok",
                      pkt |-> [to |-> host.from, op |-> host.op, what |-> Head(host.todo)]]]
        /\ Wakes({"OUT"}, th, th') /\ transev' \subseteq transev \cup {"OUT"}
    BY <1>7, WriteIs
  <2>2. req'["OUT"].st = "ok" /\ req'["IN"] = req["IN"]
    BY <1>0, <2>1 DEF Globals
  <2>3. \A s \in Thread : Sending(s) => /\ Sending(s)' /\ th'[s].op = th[s].op
                                        /\ th'[s].prog = th[s].prog
    BY <2>1 DEF Sending, InOp, Way, Wakes
  <2>4. ASSUME req["IN"].st = "pending"
        PROVE  \E t \in Thread :
                 /\ Sending(t)'
                 /\ req'["IN"].pkt = [to |-> t, op |-> th'[t].op, what |-> Head(th'[t].prog)]
    <3>1. PICK t \in Thread :
            /\ Sending(t)
            /\ req["IN"].pkt = [to |-> t, op |-> th[t].op, what |-> Head(th[t].prog)]
      BY <2>4 DEF BusOwned
    <3>2. QED BY <2>2, <2>3, <3>1
  <2>5. "IN" \in transev' => "IN" \in transev
    BY <2>1
  <2>6. QED BY <2>1, <2>2, <2>4, <2>5 DEF BusOwned
<1>8. CASE HandlerTimeout
  <2>1. /\ attached /\ UNCHANGED <<up, attached, req, th, transev>>
    BY <1>8 DEF HandlerTimeout
  <2>2. \A s \in Thread : Sending(s) => Sending(s)'
    BY <2>1 DEF Sending, InOp, Way
  <2>3. QED BY <2>1, <2>2 DEF BusOwned
<1>9. CASE async_write \/ UNCHANGED vars \/ start_func
  <2>1. up => up'
    BY <1>9 DEF async_write, vars, start_func
  <2>2. UNCHANGED <<attached, req, th, transev, host>>
    BY <1>9 DEF async_write, vars, start_func
  <2>3. \A s \in Thread : Sending(s) => Sending(s)'
    BY <2>2 DEF Sending, InOp, Way
  <2>4. QED BY <2>1, <2>2, <2>3 DEF BusOwned
<1>10. CASE stop_func
  <2>1. ~attached /\ UNCHANGED <<attached, req, host>>
    BY <1>10 DEF stop_func
  <2>2. QED BY <2>1 DEF BusOwned
<1>11. QED BY <1>2, <1>3, <1>4, <1>5, <1>6, <1>7, <1>8, <1>9, <1>10, ThreadStepOwned
       DEF Next, Detach, MagicTimeout

-----------------------------------------------------------------------------
(* The PC and the thread that holds the semaphore. *)

\* The order of what is left of an operation.
Ranked(op, p) ==
  /\ p \in Rests(p)
  /\ \A q \in Rests(p) :
       /\ q \in Rests(Prog[op])
       /\ q # p => q \in Rests(Tail(p))
       /\ q # <<>> => /\ Tail(q) \in Rests(p) /\ Tail(q) \in Rests(Tail(q))
                      /\ p \notin Rests(Tail(q)) /\ Tail(q) # p
                      /\ \A r \in Rests(Tail(q)) : r \in Rests(p)
                      /\ Head(q) # "magic" /\ q # <<"magic">>
                      /\ Dir(Head(p)) = "OUT" => Dir(Head(q)) = "OUT"
  /\ p = Prog[op] <=> Head(p) \in {"cmd", "async", "bulk"}
  /\ p = Prog[op] => Dir(Head(p)) = "IN"
  /\ Tail(p) \in Rests(Prog[op]) /\ Tail(p) \in Rests(p) /\ Tail(p) \in Rests(Tail(p))
  /\ Tail(p) = <<>> => \A q \in Rests(p) : q # <<>> => q = p

\* What is left of an operation determines its order among the rests.
LEMMA RestOrder ==
  ASSUME NEW op \in DOMAIN Prog, NEW p \in Rests(Prog[op]), op # "magic", p # <<>>
  PROVE  Ranked(op, p)
<1>1. Ordered(Prog[op])
  BY ProgOrdered
<1>2. \A r \in Rests(Prog[op]) : r \in Rests(r)
  BY <1>1 DEF Ordered
<1>3. Shape(op, p)
  BY RestsShaped
<1>4. ASSUME NEW q \in Rests(p)
      PROVE  /\ q \in Rests(Prog[op])
             /\ q # p => q \in Rests(Tail(p))
             /\ q # <<>> => /\ Tail(q) \in Rests(p) /\ Tail(q) \in Rests(Tail(q))
                            /\ p \notin Rests(Tail(q)) /\ Tail(q) # p
                            /\ \A r \in Rests(Tail(q)) : r \in Rests(p)
                            /\ Head(q) # "magic" /\ q # <<"magic">>
                            /\ Dir(Head(p)) = "OUT" => Dir(Head(q)) = "OUT"
  <2>1. Below(Prog[op], p, q)
    BY <1>1 DEF Ordered
  <2>2. q \in Rests(Prog[op]) /\ (q # p => q \in Rests(Tail(p)))
    BY <2>1 DEF Below
  <2>3. q # <<>> => Tail(q) \in Rests(Prog[op]) /\ Head(q) # "magic" /\ q # <<"magic">>
    BY <2>2, RestFacts
  <2>4. q # <<>> => Tail(q) \in Rests(Tail(q))
    BY <1>2, <2>3
  <2>5. q # <<>> => /\ Tail(q) \in Rests(p) /\ p \notin Rests(Tail(q))
                    /\ \A r \in Rests(Tail(q)) : r \in Rests(p)
    BY <2>1 DEF Below
  <2>6. q # <<>> => (Dir(Head(p)) = "OUT" => Dir(Head(q)) = "OUT")
    BY <1>3 DEF Shape
  <2>7. QED BY <2>2, <2>3, <2>4, <2>5, <2>6
<1>5. p = Prog[op] <=> Head(p) \in {"cmd", "async", "bulk"}
  BY <1>3 DEF Shape
<1>6. p = Prog[op] => Dir(Head(p)) = "IN"
  BY ProgStarts
<1>7. Tail(p) \in Rests(Prog[op]) /\ p \in Rests(p)
  BY <1>2, RestFacts
<1>8. Tail(p) \in Rests(p) /\ Tail(p) \in Rests(Tail(p))
  BY <1>4, <1>7
<1>9. Tail(p) = <<>> => \A q \in Rests(p) : q # <<>> => q = p
  BY <1>4, RestsEmpty
<1>10. QED BY <1>4, <1>5, <1>6, <1>7, <1>8, <1>9 DEF Ranked

\* What a thread inside an operation has left.
LEMMA InOpRanked ==
  ASSUME Base, NEW t \in Thread, InOp(t)
  PROVE  /\ th[t].op \in DOMAIN Prog /\ th[t].op # "magic" /\ th[t].prog # <<>>
         /\ th[t].prog \in Rests(Prog[th[t].op]) /\ Ranked(th[t].op, th[t].prog)
         /\ Way(t) \in {"IN", "OUT"}
         /\ Tail(th[t].prog) # <<>> => Ranked(th[t].op, Tail(th[t].prog))
<1>1. /\ th[t].op \in DOMAIN Prog /\ th[t].op # "magic" /\ th[t].prog # <<>>
      /\ th[t].prog \in Rests(Prog[th[t].op]) /\ Way(t) \in {"IN", "OUT"}
  BY DEF Base, Typed, ThreadRec, Placed, InOp, Way, Dir
<1>2. Ranked(th[t].op, th[t].prog)
  BY <1>1, RestOrder
<1>3. Tail(th[t].prog) \in Rests(Prog[th[t].op])
  BY <1>2 DEF Ranked
<1>4. Tail(th[t].prog) # <<>> => Ranked(th[t].op, Tail(th[t].prog))
  BY <1>1, <1>3, RestOrder
<1>5. QED BY <1>1, <1>2, <1>4

\* Nothing the pair depends on changes, or the PC gives up.
LEMMA AlongKept ==
  ASSUME NEW t, Along(t), th'[t].prog = th[t].prog, th'[t].op = th[t].op,
         th'[t].clean = th[t].clean, Done(t)' <=> Done(t),
         req'["OUT"].pkt = req["OUT"].pkt, host' = host \/ Quiet'
  PROVE  Along(t)'
<1>1. Way(t)' = Way(t)
  BY DEF Way
<1>2. NotYet(t) => NotYet(t)'
  BY DEF NotYet, Quiet, Serves
<1>3. Sent(t) => Sent(t)'
  BY DEF Sent, Quiet, Serves
<1>4. Received(t) => Received(t)'
  BY DEF Received, Quiet, Serves
<1>5. QED BY <1>1, <1>2, <1>3, <1>4 DEF Along

\* A received packet that was lost to another post leaves the PC ahead.
LEMMA AlongLost ==
  ASSUME Base, NEW t \in Thread, InOp(t), Along(t), Done(t), Way(t) = "OUT"
  PROVE  NotYet(t)
<1>1. Ranked(th[t].op, th[t].prog)
  BY InOpRanked
<1>2. Received(t)
  BY DEF Along
<1>3. CASE Quiet
  BY <1>3 DEF NotYet
<1>4. ASSUME NEW q \in Rests(th[t].prog), q # <<>>, Serves(t), host.todo \in Rests(Tail(q))
      PROVE  NotYet(t)
  <2>1. host.todo \in Rests(th[t].prog) /\ host.todo # th[t].prog
    BY <1>1, <1>4 DEF Ranked
  <2>2. QED BY <1>4, <2>1 DEF NotYet
<1>5. QED BY <1>2, <1>3, <1>4 DEF Received

\* A step that leaves the bus, the PC and whoever is in an operation alone.
LEMMA StepAside ==
  ASSUME HostAwaits, InStep, UNCHANGED <<req, host>>,
         \A t \in Thread : InOp(t)' => InOp(t) /\ th'[t] = th[t],
         \A t \in Thread : InOp(t) => InOp(t)'
  PROVE  HostAwaits' /\ InStep'
<1>1. \A t \in Thread : InOp(t) => /\ th'[t] = th[t] /\ (Done(t)' <=> Done(t))
                                  /\ (AwaitedBy(t) => AwaitedBy(t)')
  BY DEF Done, Way, AwaitedBy, Serves
<1>2. HostAwaits'
  <2>1. ASSUME Awaits' PROVE \E t \in Thread : AwaitedBy(t)'
    <3>1. Awaits
      BY <2>1 DEF Awaits
    <3>2. PICK t \in Thread : AwaitedBy(t)
      BY <3>1 DEF HostAwaits
    <3>3. InOp(t)
      BY <3>2 DEF AwaitedBy
    <3>4. QED BY <1>1, <3>2, <3>3
  <2>2. QED BY <2>1 DEF HostAwaits
<1>3. InStep'
  <2>1. ASSUME NEW t \in Thread, InOp(t)' PROVE Along(t)'
    <3>1. InOp(t) /\ Along(t)
      BY <2>1 DEF InStep
    <3>2. QED BY <1>1, <3>1, AlongKept
  <2>2. QED BY <2>1 DEF InStep
<1>4. QED BY <1>2, <1>3

\* A step after which the PC is idle or at the magic.
LEMMA StepQuiet ==
  ASSUME InStep, Quiet', req'["OUT"].pkt = req["OUT"].pkt,
         \A t \in Thread : InOp(t)' =>
           /\ InOp(t) /\ th'[t].prog = th[t].prog /\ th'[t].op = th[t].op
           /\ th'[t].clean = th[t].clean /\ (Done(t)' <=> Done(t))
  PROVE  HostAwaits' /\ InStep'
<1>1. ~ Awaits'
  <2>1. Head(<<"magic">>) = "magic" /\ Dir("magic") = "OUT"
    BY DEF Dir, InPackets
  <2>2. QED BY <2>1 DEF Awaits, Quiet
<1>2. ASSUME NEW t \in Thread, InOp(t)' PROVE Along(t)'
  <2>1. InOp(t) /\ Along(t)
    BY <1>2 DEF InStep
  <2>2. QED BY <1>2, <2>1, AlongKept
<1>3. QED BY <1>1, <1>2 DEF HostAwaits, InStep

\* Nobody newly reports success.
LEMMA StillMine ==
  ASSUME OwnPackets,
         \A t \in Thread : th'[t].ret = "ok" => th[t].ret = "ok" /\ th'[t].clean = th[t].clean
  PROVE  OwnPackets'
BY DEF OwnPackets

\* The thread the PC waits for sends, and it alone.
LEMMA AwaitedSends ==
  ASSUME Base, NEW t \in Thread, Awaits, AwaitedBy(t)
  PROVE  Way(t) = "IN" /\ InOp(t)
<1>1. InOp(t) /\ Ranked(th[t].op, th[t].prog) /\ Way(t) \in {"IN", "OUT"}
  BY InOpRanked DEF AwaitedBy
<1>2. CASE Done(t)
  <2>1. host.todo = Tail(th[t].prog) /\ host.todo # <<>> /\ Dir(Head(host.todo)) = "IN"
    BY <1>2 DEF AwaitedBy, Awaits
  <2>2. Dir(Head(th[t].prog)) # "OUT"
    BY <1>1, <2>1 DEF Ranked
  <2>3. QED BY <1>1, <2>2 DEF Way
<1>3. CASE ~Done(t)
  BY <1>1, <1>3 DEF AwaitedBy, Awaits, Way
<1>4. QED BY <1>2, <1>3

\* The exchange: posting a packet keeps thread and PC in step.
LEMMA PostStep ==
  ASSUME LinkAssumption, XInv, NEW t \in Thread, Post(t)
  PROVE  HostAwaits' /\ InStep' /\ OwnPackets'
<1>0. /\ Base /\ Typed /\ Globals /\ Exclusive /\ BusOwned /\ HostAwaits /\ InStep /\ OwnPackets
      /\ th[t] \in ThreadRec /\ Placed(t, th[t])
  BY BaseParts DEF XInv, Base, Threads
<1>1. /\ th[t].pc = "post" /\ UNCHANGED <<up, attached, host>>
      /\ \/ ~up /\ FailsIn(t) /\ UNCHANGED req
         \/ \E st \in {"none", "pending", "err"} : Posts(t, st)
  BY <1>0, PostIs
<1>2. OwnPackets'
  <2>1. \A s \in Thread : th'[s].ret = "ok" => th[s].ret = "ok" /\ th'[s].clean = th[s].clean
    BY <1>1 DEF FailsIn, Quits, Goes, Moves, Posts
  <2>2. QED BY <1>0, <2>1, StillMine
<1>3. CASE ~up /\ FailsIn(t) /\ UNCHANGED req
  <2>1. host.todo = <<>>
    BY <1>0, <1>3 DEF BusOwned
  <2>2. Quiet'
    BY <1>1, <2>1 DEF Quiet
  <2>3. \A s \in Thread : InOp(s)' => InOp(s) /\ th'[s] = th[s]
    BY <1>3 DEF FailsIn, Quits, Moves, InOp
  <2>4. \A s \in Thread : InOp(s)' => (Done(s)' <=> Done(s))
    BY <1>3, <2>3 DEF Done, Way
  <2>5. QED BY <1>0, <1>2, <1>3, <2>2, <2>3, <2>4, StepQuiet
<1>4. ASSUME NEW st \in {"none", "pending", "err"}, Posts(t, st)
      PROVE  HostAwaits' /\ InStep'
  <2>1. /\ st \in PostOutcomes /\ up
        /\ req'[Way(t)].st = st /\ \A d \in {"IN", "OUT"} : d # Way(t) => req'[d] = req[d]
        /\ Goes(t, "posted") \/ (Way(t) = "OUT" /\ FailsIn(t))
        /\ Way(t) \in {"IN", "OUT"} /\ st # "ok"
    BY <1>0, <1>4 DEF Posts, Globals, Way, Dir
  <2>2. \A s \in Thread : s # t => th'[s] = th[s]
    BY <2>1 DEF Goes, FailsIn, Quits, Moves
  <2>3. attached => st = "pending"
    BY <2>1 DEF PostOutcomes
  <2>4. HostAwaits'
    <3>1. ASSUME Awaits' PROVE \E s \in Thread : AwaitedBy(s)'
      <4>1. Awaits /\ attached
        BY <1>0, <1>1, <3>1 DEF Awaits, BusOwned
      <4>2. PICK s \in Thread : AwaitedBy(s)
        BY <1>0, <4>1 DEF HostAwaits
      <4>3. Way(s) = "IN" /\ InOp(s)
        BY <1>0, <4>1, <4>2, AwaitedSends
      <4>4. CASE s = t
        <5>1. ~Done(t) /\ th[t].pc = "post"
          BY <1>1 DEF Done
        <5>2. Goes(t, "posted") /\ req'["IN"].st = "pending" /\ Way(t) = "IN"
          BY <2>1, <2>3, <4>1, <4>3, <4>4
        <5>3. ~Done(t)' /\ th'[t].prog = th[t].prog /\ th'[t].op = th[t].op /\ InOp(t)'
          BY <4>3, <4>4, <5>2 DEF Done, Way, Goes, Moves, InOp
        <5>4. QED BY <1>1, <4>2, <4>4, <5>1, <5>2, <5>3 DEF AwaitedBy, Serves
      <4>5. CASE s # t
        <5>1. Way(t) = "OUT"
          <6>1. ~ InOp(t)
            BY <1>0, <4>3, <4>5 DEF Exclusive, Holds
          <6>2. th[t].op = "magic"
            BY <1>1, <6>1 DEF InOp
          <6>3. th[t].prog = <<"magic">>
            BY <1>0, <1>1, <6>2, RestFacts DEF Placed, ThreadRec
          <6>4. QED BY <6>3 DEF Way, Dir, InPackets
        <5>2. th'[s] = th[s] /\ req'["IN"] = req["IN"]
          BY <2>1, <2>2, <4>5, <5>1
        <5>3. (Done(s)' <=> Done(s)) /\ InOp(s)'
          BY <4>3, <5>2 DEF Done, Way, InOp
        <5>4. QED BY <1>1, <4>2, <5>2, <5>3 DEF AwaitedBy, Serves
      <4>6. QED BY <4>4, <4>5
    <3>2. QED BY <3>1 DEF HostAwaits
  <2>5. ASSUME NEW s \in Thread, InOp(s)' PROVE Along(s)'
    <3>1. CASE s = t
      <4>1. Goes(t, "posted")
        BY <2>1, <2>5, <3>1 DEF FailsIn, Quits, Moves, InOp
      <4>2. /\ th'[t].prog = th[t].prog /\ th'[t].op = th[t].op /\ th'[t].clean = th[t].clean
            /\ Way(t)' = Way(t) /\ InOp(t)
        BY <1>1, <2>5, <3>1, <4>1 DEF Goes, Moves, Way, InOp
      <4>3. Along(t) /\ ~Done(t)
        BY <1>0, <1>1, <4>2 DEF InStep, Done
      <4>4. ~Done(t)'
        BY <2>1, <4>2 DEF Done
      <4>5. NotYet(t)'
        BY <1>1, <4>2, <4>3 DEF Along, NotYet, Quiet, Serves
      <4>6. QED BY <3>1, <4>2, <4>3, <4>4, <4>5 DEF Along
    <3>2. CASE s # t
      <4>1. th'[s] = th[s] /\ InOp(s)
        BY <2>2, <2>5, <3>2 DEF InOp
      <4>2. Along(s) /\ Way(s)' = Way(s) /\ Way(s) \in {"IN", "OUT"}
        BY <1>0, <4>1 DEF InStep, Way, Dir
      <4>3. CASE Way(s) = Way(t)
        <5>1. ~Done(s)'
          BY <2>1, <4>2, <4>3 DEF Done
        <5>2. Way(t) = "OUT"
          <6>1. ~ InOp(t)
            BY <1>0, <3>2, <4>1 DEF Exclusive, Holds
          <6>2. th[t].op = "magic"
            BY <1>1, <6>1 DEF InOp
          <6>3. th[t].prog = <<"magic">>
            BY <1>0, <1>1, <6>2, RestFacts DEF Placed, ThreadRec
          <6>4. QED BY <6>3 DEF Way, Dir, InPackets
        <5>3. NotYet(s)
          BY <1>0, <4>1, <4>2, <4>3, <5>2, AlongLost DEF Along
        <5>4. NotYet(s)'
          BY <1>1, <4>1, <5>3 DEF NotYet, Quiet, Serves
        <5>5. QED BY <4>1, <4>2, <5>1, <5>2, <5>4, <4>3 DEF Along
      <4>4. CASE Way(s) # Way(t)
        <5>1. req'[Way(s)] = req[Way(s)]
          BY <2>1, <4>2, <4>4
        <5>2. Done(s)' <=> Done(s)
          BY <4>1, <4>2, <5>1 DEF Done
        <5>3. /\ NotYet(s) => NotYet(s)'
              /\ Sent(s) => Sent(s)'
          BY <1>1, <4>1 DEF NotYet, Sent, Quiet, Serves
        <5>4. Way(s) = "OUT" /\ Received(s) => Received(s)'
          BY <1>1, <4>1, <5>1 DEF Received, Quiet, Serves
        <5>5. QED BY <4>1, <4>2, <5>2, <5>3, <5>4 DEF Along
      <4>5. QED BY <4>3, <4>4
    <3>3. QED BY <3>1, <3>2
  <2>6. QED BY <2>4, <2>5 DEF InStep
<1>5. QED BY <1>1, <1>2, <1>3, <1>4

\* The exchange: waiting for a packet keeps thread and PC in step.
LEMMA BlockStep ==
  ASSUME LinkAssumption, XInv, NEW t \in Thread, Block(t)
  PROVE  HostAwaits' /\ InStep' /\ OwnPackets'
<1>0. /\ Base /\ Typed /\ BusOwned /\ HostAwaits /\ InStep /\ OwnPackets
  BY DEF XInv, Base
<1>1. /\ th[t].pc = "posted" /\ UNCHANGED <<req, host>>
      /\ (~up /\ FailsIn(t)) \/ Goes(t, "woken") \/ Goes(t, "wait")
  BY <1>0, BlockIs
<1>2. OwnPackets'
  <2>1. \A s \in Thread : th'[s].ret = "ok" => th[s].ret = "ok" /\ th'[s].clean = th[s].clean
    BY <1>1 DEF FailsIn, Quits, Goes, Moves
  <2>2. QED BY <1>0, <2>1, StillMine
<1>3. CASE ~up /\ FailsIn(t)
  <2>1. host.todo = <<>>
    BY <1>0, <1>3 DEF BusOwned
  <2>2. Quiet'
    BY <1>1, <2>1 DEF Quiet
  <2>3. \A s \in Thread : InOp(s)' => InOp(s) /\ th'[s] = th[s]
    BY <1>3 DEF FailsIn, Quits, Moves, InOp
  <2>4. \A s \in Thread : InOp(s)' => (Done(s)' <=> Done(s))
    BY <1>1, <2>3 DEF Done, Way
  <2>5. QED BY <1>0, <1>1, <1>2, <2>2, <2>3, <2>4, StepQuiet
<1>4. ASSUME NEW pc \in {"woken", "wait"}, Goes(t, pc)
      PROVE  HostAwaits' /\ InStep'
  <2>1. \A s \in Thread :
          /\ InOp(s)' <=> InOp(s)
          /\ th'[s].prog = th[s].prog /\ th'[s].op = th[s].op /\ th'[s].clean = th[s].clean
          /\ Done(s)' <=> Done(s)
          /\ th'[s].pc = "post" <=> th[s].pc = "post"
    BY <1>1, <1>4 DEF Goes, Moves, InOp, Done, Way
  <2>2. HostAwaits'
    <3>1. ASSUME Awaits' PROVE \E s \in Thread : AwaitedBy(s)'
      <4>1. PICK s \in Thread : AwaitedBy(s)
        BY <1>0, <1>1, <3>1 DEF HostAwaits, Awaits
      <4>2. AwaitedBy(s)'
        BY <1>1, <2>1, <4>1 DEF AwaitedBy, Serves
      <4>3. QED BY <4>2
    <3>2. QED BY <3>1 DEF HostAwaits
  <2>3. ASSUME NEW s \in Thread, InOp(s)' PROVE Along(s)'
    <3>1. Along(s)
      BY <1>0, <2>1, <2>3 DEF InStep
    <3>2. QED BY <1>1, <2>1, <3>1, AlongKept
  <2>4. QED BY <2>2, <2>3 DEF InStep
<1>5. QED BY <1>1, <1>2, <1>3, <1>4

\* The exchange: the thread that takes the semaphore starts in step with the PC.
LEMMA WaitSemaStep ==
  ASSUME LinkAssumption, XInv, NEW t \in Thread, WaitSema(t)
  PROVE  HostAwaits' /\ InStep' /\ OwnPackets'
<1>0. /\ Base /\ Typed /\ Exclusive /\ HostAwaits /\ InStep /\ OwnPackets
      /\ Placed(t, th[t]) /\ NULL \notin Thread /\ th[t].op \in DOMAIN Prog
  BY DEF XInv, Base, LinkAssumption, Typed, ThreadRec
<1>1. /\ th[t].pc = "sema" /\ UNCHANGED <<req, host>>
      /\ \/ Moves(t, "idle", <<>>, th[t].clean, "fail")
         \/ /\ up /\ sema = NULL
            /\ Moves(t, "post", th[t].prog, th[t].clean, th[t].ret)
  BY <1>0, WaitSemaIs
<1>2. OwnPackets'
  <2>1. \A s \in Thread : th'[s].ret = "ok" => th[s].ret = "ok" /\ th'[s].clean = th[s].clean
    BY <1>1 DEF Moves
  <2>2. QED BY <1>0, <2>1, StillMine
<1>3. CASE Moves(t, "idle", <<>>, th[t].clean, "fail")
  <2>1. \A s \in Thread : InOp(s)' => InOp(s) /\ th'[s] = th[s]
    BY <1>3 DEF Moves, InOp
  <2>2. \A s \in Thread : InOp(s) => InOp(s)'
    BY <1>1, <1>3 DEF Moves, InOp
  <2>3. QED BY <1>0, <1>1, <1>2, <2>1, <2>2, StepAside
<1>4. CASE /\ up /\ sema = NULL
           /\ Moves(t, "post", th[t].prog, th[t].clean, th[t].ret)
  <2>1. \A s \in Thread : ~ InOp(s)
    BY <1>0, <1>4 DEF Exclusive, Holds
  <2>2. ~ Awaits'
    BY <1>0, <1>1, <2>1 DEF HostAwaits, AwaitedBy, Awaits
  <2>3. \A s \in Thread : InOp(s)' => s = t
    BY <1>4, <2>1 DEF Moves, InOp
  <2>4. Along(t)'
    <3>1. /\ th'[t].pc = "post" /\ th'[t].prog = Prog[th'[t].op] /\ th'[t].clean
      BY <1>0, <1>1, <1>4 DEF Moves, Placed
    <3>2. ~Done(t)' /\ NotYet(t)'
      BY <3>1 DEF Done, NotYet
    <3>3. QED BY <3>1, <3>2 DEF Along
  <2>5. QED BY <1>2, <2>2, <2>3, <2>4 DEF HostAwaits, InStep
<1>5. QED BY <1>1, <1>3, <1>4

\* The exchange: giving the semaphore back leaves what was exchanged.
LEMMA SignalStep ==
  ASSUME LinkAssumption, XInv, NEW t \in Thread, Signal(t)
  PROVE  HostAwaits' /\ InStep' /\ OwnPackets'
<1>0. Typed /\ HostAwaits /\ InStep /\ OwnPackets
  BY DEF XInv, Base
<1>1. /\ th[t].pc = "signal" /\ UNCHANGED <<req, host>>
      /\ Moves(t, Back(t), th[t].prog, th[t].clean, th[t].ret)
  BY <1>0, SignalIs
<1>2. \A s \in Thread : s # t => th'[s] = th[s]
  BY <1>1 DEF Moves
<1>3. ~ InOp(t) /\ ~ InOp(t)'
  BY <1>1 DEF Moves, Back, InOp
<1>4. \A s \in Thread : s # t => (InOp(s)' <=> InOp(s))
  BY <1>2 DEF InOp
<1>5. HostAwaits' /\ InStep'
  BY <1>0, <1>1, <1>2, <1>3, <1>4, StepAside
<1>6. OwnPackets'
  BY <1>0, <1>1, <1>2, StillMine DEF Moves
<1>7. QED BY <1>5, <1>6

\* The exchange: taking a packet keeps thread and PC in step, and what is taken is its own.
LEMMA InspectStep ==
  ASSUME LinkAssumption, XInv, NEW t \in Thread, Inspect(t), Base'
  PROVE  HostAwaits' /\ InStep' /\ OwnPackets'
<1>0. /\ Base /\ Typed /\ Exclusive /\ BusOwned /\ HostAwaits /\ InStep /\ OwnPackets
      /\ Placed(t, th[t]) /\ th[t] \in ThreadRec
  BY DEF XInv, Base, Typed
<1>1. /\ th[t].pc = "woken" /\ UNCHANGED <<req, host>>
      /\ LET what == Head(th[t].prog)
             r == req[Way(t)]
         IN
         \/ /\ r.st # "ok" \/ (what = "magic" /\ r.pkt.what # "magic")
            /\ FailsIn(t)
         \/ /\ r.st = "ok" /\ r.pkt.what = "magic" /\ what # "magic"
            /\ Moves(t, "post", th[t].prog, th[t].clean /\ Mine(t), th[t].ret)
         \/ /\ r.st = "ok" /\ (r.pkt.what = "magic" <=> what = "magic")
            /\ Len(th[t].prog) > 1
            /\ Moves(t, "post", Tail(th[t].prog), th[t].clean /\ Mine(t), th[t].ret)
         \/ /\ r.st = "ok" /\ (r.pkt.what = "magic" <=> what = "magic")
            /\ ~ Len(th[t].prog) > 1
            /\ Moves(t, Ends(t), <<>>, th[t].clean /\ Mine(t), "ok")
  BY <1>0, InspectIs
<1>2. \A s \in Thread : s # t => th'[s] = th[s] /\ (InOp(s)' <=> InOp(s))
  BY <1>1 DEF FailsIn, Quits, Moves, InOp
<1>3. CASE ~ InOp(t)
  <2>1. th[t].op = "magic"
    BY <1>1, <1>3 DEF InOp
  <2>2. th'[t].op = "magic"
    BY <1>1, <2>1 DEF FailsIn, Quits, Moves
  <2>3. ~ InOp(t)' /\ th'[t].clean
    BY <2>2 DEF InOp, Base, Placed
  <2>4. HostAwaits' /\ InStep'
    BY <1>0, <1>1, <1>2, <1>3, <2>3, StepAside
  <2>5. OwnPackets'
    BY <1>0, <1>2, <2>3 DEF OwnPackets
  <2>6. QED BY <2>4, <2>5
<1>4. CASE InOp(t)
  <2> DEFINE p == th[t].prog
             op == th[t].op
             pkt == req[Way(t)].pkt
  <2>0. /\ op \in DOMAIN Prog /\ op # "magic" /\ p # <<>> /\ p \in Rests(Prog[op])
        /\ Ranked(op, p) /\ Way(t) \in {"IN", "OUT"} /\ Way(t) = Dir(Head(p))
        /\ Tail(p) # <<>> => Ranked(op, Tail(p))
    BY <1>0, <1>4, InOpRanked DEF Way
  <2>1. Head(p) # "magic" /\ (Len(p) > 1 <=> Tail(p) # <<>>)
    BY <2>0, RestFacts
  <2>2. Along(t) /\ th[t].ret = "none"
    BY <1>0, <1>1, <1>4 DEF InStep, Placed
  <2>3. \A s \in Thread : InOp(s) => s = t
    BY <1>0, <1>4 DEF Exclusive, Holds
  <2>4. \A s \in Thread : InOp(s)' => s = t
    BY <1>2, <2>3
  <2>5. req["IN"].st = "pending" => FALSE
    <3> SUFFICES ASSUME req["IN"].st = "pending" PROVE FALSE
      OBVIOUS
    <3>1. PICK s \in Thread : Sending(s)
      BY <1>0 DEF BusOwned
    <3>2. QED BY <1>1, <2>3, <3>1 DEF Sending
  <2>6. Awaits => Done(t) /\ AwaitedBy(t) /\ Way(t) = "IN"
    <3> SUFFICES ASSUME Awaits PROVE Done(t) /\ AwaitedBy(t) /\ Way(t) = "IN"
      OBVIOUS
    <3>1. PICK s \in Thread : AwaitedBy(s)
      BY <1>0 DEF HostAwaits
    <3>2. s = t
      BY <2>3, <3>1 DEF AwaitedBy
    <3>3. Way(t) = "IN"
      BY <1>0, <3>1, <3>2, AwaitedSends
    <3>4. QED BY <1>1, <2>5, <3>1, <3>2, <3>3 DEF AwaitedBy
  <2>7. Awaits' <=> Awaits
    BY <1>1 DEF Awaits
  <2>8. CASE (req[Way(t)].st # "ok" \/ (Head(p) = "magic" /\ pkt.what # "magic")) /\ FailsIn(t)
    <3>1. ~ Done(t)
      BY <2>1, <2>8 DEF Done
    <3>2. ~ InOp(t)' /\ th'[t].ret = "fail"
      BY <2>8 DEF FailsIn, Quits, Moves, InOp
    <3>3. HostAwaits' /\ InStep'
      BY <2>4, <2>6, <2>7, <3>1, <3>2 DEF HostAwaits, InStep
    <3>4. OwnPackets'
      BY <1>0, <1>2, <3>2 DEF OwnPackets
    <3>5. QED BY <3>3, <3>4
  <2>9. ASSUME req[Way(t)].st = "ok" PROVE Done(t)
    BY <1>1, <2>9 DEF Done
  <2>10. CASE /\ req[Way(t)].st = "ok" /\ pkt.what = "magic"
              /\ Moves(t, "post", p, th[t].clean /\ Mine(t), th[t].ret)
    <3>1. Way(t) = "OUT"
      BY <1>0, <2>0, <2>10 DEF BusOwned
    <3>2. Received(t)
      BY <2>2, <2>9, <2>10, <3>1 DEF Along
    <3>3. \A q \in Rests(p) : q # <<>> => Head(q) # "magic"
      BY <2>0 DEF Ranked
    <3>4. Quiet
      <4>1. ASSUME NEW q \in Rests(p), q # <<>>, pkt = [to |-> t, op |-> op, what |-> Head(q)]
            PROVE  FALSE
        <5>1. pkt.what = Head(q)
          BY <4>1
        <5>2. QED BY <2>10, <3>3, <4>1, <5>1
      <4>2. QED BY <3>1, <3>2, <4>1 DEF Received
    <3>5. ~ Awaits'
      BY <2>6, <2>7, <3>1
    <3>6. /\ th'[t].pc = "post" /\ th'[t].prog = p /\ Way(t)' = "OUT" /\ th'[t].ret = "none"
      BY <2>2, <2>10, <3>1 DEF Moves, Way
    <3>7. ~Done(t)' /\ NotYet(t)'
      BY <1>1, <3>4, <3>6 DEF Done, NotYet, Quiet
    <3>8. Along(t)'
      BY <3>6, <3>7 DEF Along
    <3>9. HostAwaits' /\ InStep'
      BY <2>4, <3>5, <3>8 DEF HostAwaits, InStep
    <3>10. OwnPackets'
      BY <1>0, <1>2, <3>6 DEF OwnPackets
    <3>11. QED BY <3>9, <3>10
  <2>11. CASE /\ req[Way(t)].st = "ok" /\ (pkt.what = "magic" <=> Head(p) = "magic")
              /\ Len(p) > 1
              /\ Moves(t, "post", Tail(p), th[t].clean /\ Mine(t), th[t].ret)
    <3>1. Tail(p) # <<>> /\ Ranked(op, Tail(p)) /\ pkt.what # "magic" /\ Done(t)
      BY <2>0, <2>1, <2>9, <2>11
    <3>2. /\ th'[t].pc = "post" /\ th'[t].prog = Tail(p) /\ th'[t].op = op
          /\ th'[t].clean = (th[t].clean /\ Mine(t)) /\ th'[t].ret = "none"
          /\ Way(t)' = Dir(Head(Tail(p))) /\ InOp(t)'
      BY <2>0, <2>2, <2>11 DEF Moves, Way, InOp
    <3>3. ~Done(t)' /\ (Quiet' <=> Quiet) /\ (Serves(t)' <=> Serves(t))
      BY <1>1, <3>2 DEF Done, Quiet, Serves
    <3>4. HostAwaits'
      <4>1. ASSUME Awaits' PROVE AwaitedBy(t)'
        <5>1. Serves(t) /\ host.todo = Tail(p)
          BY <2>6, <2>7, <3>1, <4>1 DEF AwaitedBy
        <5>2. QED BY <1>1, <3>2, <3>3, <5>1 DEF AwaitedBy
      <4>2. QED BY <4>1 DEF HostAwaits
    <3>5. Along(t)'
      <4>1. CASE Way(t) = "IN"
        <5>1. th'[t].clean
          BY <2>2, <3>2, <4>1 DEF Along, Mine
        <5>2. Sent(t)
          BY <2>2, <3>1, <4>1 DEF Along
        <5>3. NotYet(t)'
          BY <1>1, <3>2, <3>3, <5>1, <5>2 DEF Sent, NotYet
        <5>4. QED BY <3>3, <5>1, <5>3 DEF Along
      <4>2. CASE Way(t) = "OUT"
        <5>1. Way(t)' = "OUT"
          BY <2>0, <3>1, <3>2, <4>2 DEF Ranked
        <5>2. Received(t)
          BY <2>2, <3>1, <4>2 DEF Along
        <5>3. PICK q \in Rests(p) :
                /\ q # <<>> /\ pkt = [to |-> t, op |-> op, what |-> Head(q)]
                /\ q = p => th[t].clean
                /\ Quiet \/ (Serves(t) /\ host.todo \in Rests(Tail(q)))
          BY <3>1, <4>2, <5>2 DEF Received
        <5>4. CASE Quiet
          BY <3>3, <5>1, <5>4 DEF Along, NotYet
        <5>5. CASE Serves(t) /\ host.todo \in Rests(Tail(q))
          <6>1. CASE q = p
            <7>1. th'[t].clean
              BY <3>2, <5>3, <6>1 DEF Mine
            <7>2. NotYet(t)'
              BY <1>1, <3>2, <3>3, <5>5, <6>1, <7>1 DEF NotYet
            <7>3. QED BY <3>3, <5>1, <7>2 DEF Along
          <6>2. CASE q # p
            <7>1. q \in Rests(Tail(p))
              BY <2>0, <5>3, <6>2 DEF Ranked
            <7>2. host.todo \in Rests(Tail(p)) /\ host.todo # Tail(p)
              BY <3>1, <5>3, <5>5, <7>1 DEF Ranked
            <7>3. NotYet(t)'
              BY <1>1, <3>2, <3>3, <5>5, <7>2 DEF NotYet
            <7>4. QED BY <3>3, <5>1, <7>3 DEF Along
          <6>3. QED BY <6>1, <6>2
        <5>6. QED BY <5>3, <5>4, <5>5
      <4>3. QED BY <2>0, <4>1, <4>2
    <3>6. InStep'
      BY <2>4, <3>5 DEF InStep
    <3>7. OwnPackets'
      BY <1>0, <1>2, <3>2 DEF OwnPackets
    <3>8. QED BY <3>4, <3>6, <3>7
  <2>12. CASE /\ req[Way(t)].st = "ok" /\ (pkt.what = "magic" <=> Head(p) = "magic")
              /\ ~ Len(p) > 1
              /\ Moves(t, Ends(t), <<>>, th[t].clean /\ Mine(t), "ok")
    <3>1. Tail(p) = <<>> /\ pkt.what # "magic" /\ Done(t)
      BY <2>1, <2>9, <2>12
    <3>2. ~ InOp(t)' /\ th'[t].clean = (th[t].clean /\ Mine(t))
      BY <2>12 DEF Moves, InOp, Ends
    <3>3. ~ Awaits'
      <4>1. Awaits => host.todo = Tail(p)
        BY <2>6 DEF AwaitedBy
      <4>2. QED BY <2>7, <3>1, <4>1 DEF Awaits
    <3>4. HostAwaits' /\ InStep'
      BY <2>4, <3>2, <3>3 DEF HostAwaits, InStep
    <3>5. th[t].clean /\ Mine(t)
      <4>1. CASE Way(t) = "IN"
        BY <2>2, <4>1 DEF Along, Mine
      <4>2. CASE Way(t) = "OUT"
        <5>1. Received(t)
          BY <2>2, <3>1, <4>2 DEF Along
        <5>2. PICK q \in Rests(p) :
                /\ q # <<>> /\ pkt = [to |-> t, op |-> op, what |-> Head(q)]
                /\ q = p => th[t].clean
          BY <3>1, <4>2, <5>1 DEF Received
        <5>3. q = p
          BY <2>0, <3>1, <5>2 DEF Ranked
        <5>4. QED BY <5>2, <5>3 DEF Mine
      <4>3. QED BY <2>0, <4>1, <4>2
    <3>6. OwnPackets'
      BY <1>0, <1>2, <3>2, <3>5 DEF OwnPackets
    <3>7. QED BY <3>4, <3>6
  <2>13. QED BY <1>1, <2>1, <2>8, <2>10, <2>11, <2>12
<1>5. QED BY <1>3, <1>4

\* The exchange: the PC program reads a packet and learns what to answer.
LEMMA ReadStep ==
  ASSUME LinkAssumption, XInv, bulk_read
  PROVE  HostAwaits' /\ InStep' /\ OwnPackets'
<1> DEFINE pkt == req["IN"].pkt
<1>0. /\ Base /\ Globals /\ Exclusive /\ BusOwned /\ HostAwaits /\ InStep /\ OwnPackets
  BY BaseParts DEF XInv
<1>1. /\ req["IN"].st = "pending"
      /\ req' = [req EXCEPT !["IN"] = [st |-> "ok", pkt |-> pkt]]
      /\ Wakes({"IN"}, th, th')
      /\ \/ host.todo = <<>> /\ host' = host
         \/ /\ host.todo = <<>> /\ pkt.what \in {"cmd", "async", "bulk"}
            /\ host'.from = pkt.to /\ host'.op = pkt.op /\ host'.todo = Tail(Prog[pkt.op])
         \/ /\ Awaits
            /\ host'.from = host.from /\ host'.op = host.op /\ host'.todo = Tail(host.todo)
  BY <1>0, ReadIs DEF Awaits
<1>2. OwnPackets'
  BY <1>0, <1>1, StillMine DEF Wakes
<1>3. PICK s \in Thread : Sending(s) /\ pkt = [to |-> s, op |-> th[s].op, what |-> Head(th[s].prog)]
  BY <1>0, <1>1 DEF BusOwned
<1>4. /\ InOp(s) /\ Way(s) = "IN" /\ ~Done(s) /\ Ranked(th[s].op, th[s].prog) /\ Along(s)
  BY <1>0, <1>1, <1>3, InOpRanked DEF Sending, Done, InStep
<1>5. /\ \A t \in Thread : InOp(t)' => t = s
      /\ InOp(s)' /\ Way(s)' = "IN" /\ th'[s].prog = th[s].prog /\ th'[s].op = th[s].op
      /\ th'[s].clean
  BY <1>0, <1>1, <1>4, WokenInOp DEF Exclusive, Holds, Wakes, Along
<1>6. Done(s)'
  <2>1. req'["IN"].st = "ok"
    BY <1>0, <1>1 DEF Globals
  <2>2. th'[s].pc \in {"posted", "wait", "woken"}
    BY <1>1, <1>3 DEF Sending, Wakes
  <2>3. QED BY <1>5, <2>1, <2>2 DEF Done
<1>7. \/ host'.todo = <<>>
      \/ host'.from = s /\ host'.op = th[s].op /\ host'.todo = Tail(th[s].prog)
  <2>1. CASE /\ pkt.what \in {"cmd", "async", "bulk"}
             /\ host'.from = pkt.to /\ host'.op = pkt.op /\ host'.todo = Tail(Prog[pkt.op])
    <3>1. pkt.to = s /\ pkt.op = th[s].op /\ pkt.what = Head(th[s].prog)
      BY <1>3
    <3>2. th[s].prog = Prog[th[s].op]
      BY <1>4, <2>1, <3>1 DEF Ranked
    <3>3. QED BY <2>1, <3>1, <3>2
  <2>2. CASE /\ Awaits
             /\ host'.from = host.from /\ host'.op = host.op /\ host'.todo = Tail(host.todo)
    <3>1. PICK t \in Thread : AwaitedBy(t)
      BY <1>0, <2>2 DEF HostAwaits
    <3>2. t = s
      BY <1>0, <1>4, <3>1 DEF AwaitedBy, Exclusive, Holds
    <3>3. Serves(s) /\ host.todo = th[s].prog
      BY <1>4, <3>1, <3>2 DEF AwaitedBy
    <3>4. QED BY <2>2, <3>3 DEF Serves
  <2>3. QED BY <1>1, <2>1, <2>2
<1>8. Sent(s)'
  BY <1>4, <1>5, <1>7 DEF Sent, Quiet, Serves, Ranked
<1>9. InStep'
  BY <1>5, <1>6, <1>8 DEF InStep, Along
<1>10. Awaits' => AwaitedBy(s)'
  BY <1>5, <1>6, <1>7 DEF Awaits, AwaitedBy, Serves
<1>11. QED BY <1>2, <1>9, <1>10 DEF HostAwaits

\* The exchange: the PC program writes the packet its handler has come to.
LEMMA WriteStep ==
  ASSUME LinkAssumption, XInv, bulk_write
  PROVE  HostAwaits' /\ InStep' /\ OwnPackets'
<1> DEFINE pkt == [to |-> host.from, op |-> host.op, what |-> Head(host.todo)]
<1>0. /\ Base /\ Globals /\ Hosted /\ MagicIsU /\ OwnPackets /\ InStep
  BY BaseParts DEF XInv
<1>1. /\ req["OUT"].st = "pending" /\ host.todo # <<>> /\ Dir(Head(host.todo)) = "OUT"
      /\ req' = [req EXCEPT !["OUT"] = [st |-> "ok", pkt |-> pkt]]
      /\ Wakes({"OUT"}, th, th')
      /\ host'.from = host.from /\ host'.op = host.op /\ host'.todo = Tail(host.todo)
  BY <1>0, WriteIs
<1>2. OwnPackets'
  BY <1>0, <1>1, StillMine DEF Wakes
<1>3. /\ req'["IN"] = req["IN"] /\ req'["OUT"].st = "ok" /\ req'["OUT"].pkt = pkt
  BY <1>0, <1>1 DEF Globals
<1>4. host.op \in DOMAIN Prog /\ host.todo \in Rests(Prog[host.op])
  BY <1>0 DEF Hosted
<1>5. host.todo = <<"magic">> => host'.todo = <<>> /\ Head(host.todo) = "magic"
  BY <1>1
<1>6. ~ Awaits'
  <2>1. CASE host.op = "magic"
    <3>1. host.todo = <<"magic">>
      BY <1>1, <1>4, <2>1, RestFacts
    <3>2. QED BY <1>5, <3>1 DEF Awaits
  <2>2. CASE host.op # "magic"
    <3>1. Ranked(host.op, host.todo)
      BY <1>1, <1>4, <2>2, RestOrder
    <3>2. QED BY <1>1, <3>1 DEF Ranked, Awaits
  <2>3. QED BY <2>1, <2>2
<1>7. ASSUME NEW t \in Thread, InOp(t)' PROVE Along(t)'
  <2> DEFINE p == th[t].prog
  <2>1. /\ InOp(t) /\ Way(t)' = Way(t) /\ th'[t].prog = p /\ th'[t].op = th[t].op
        /\ th'[t].clean = th[t].clean
        /\ th'[t].pc = th[t].pc \/ (th[t].pc = "wait" /\ th'[t].pc = "woken")
    BY <1>1, <1>7, WokenInOp DEF Wakes
  <2>2. /\ Along(t) /\ Ranked(th[t].op, p) /\ Way(t) \in {"IN", "OUT"}
        /\ Tail(p) # <<>> => Ranked(th[t].op, Tail(p))
    BY <1>0, <2>1, InOpRanked DEF InStep
  <2>3. (Serves(t)' <=> Serves(t)) /\ (Quiet => Quiet')
    BY <1>1, <1>5, <2>1 DEF Serves, Quiet
  <2>4. NotYet(t) => NotYet(t)'
    <3>1. CASE Serves(t) /\ host.todo \in Rests(p)
      <4>1. Tail(host.todo) \in Rests(p) /\ Tail(host.todo) # p
        BY <1>1, <2>2, <3>1 DEF Ranked
      <4>2. QED BY <1>1, <2>1, <2>3, <3>1, <4>1 DEF NotYet
    <3>2. CASE Quiet \/ p = Prog[th[t].op]
      BY <2>1, <2>3, <3>2 DEF NotYet
    <3>3. QED BY <3>1, <3>2 DEF NotYet
  <2>5. CASE Way(t) = "IN"
    <3>1. Done(t)' <=> Done(t)
      BY <1>3, <2>1, <2>5 DEF Done
    <3>2. Sent(t) => Sent(t)'
      <4>1. CASE Quiet
        BY <2>3, <4>1 DEF Sent
      <4>2. CASE Serves(t) /\ host.todo \in Rests(Tail(p))
        <5>1. Tail(p) # <<>>
          BY <1>1, <4>2, RestsEmpty
        <5>2. Tail(host.todo) \in Rests(Tail(p))
          BY <1>1, <2>2, <4>2, <5>1 DEF Ranked
        <5>3. QED BY <1>1, <2>1, <2>3, <4>2, <5>2 DEF Sent
      <4>3. QED BY <4>1, <4>2 DEF Sent
    <3>3. QED BY <2>1, <2>2, <2>4, <2>5, <3>1, <3>2 DEF Along
  <2>6. CASE Way(t) = "OUT" /\ th[t].pc = "post"
    <3>1. ~Done(t) /\ ~Done(t)'
      BY <2>1, <2>6 DEF Done
    <3>2. QED BY <2>1, <2>2, <2>4, <2>6, <3>1 DEF Along
  <2>7. CASE Way(t) = "OUT" /\ th[t].pc # "post"
    <3>1. ~Done(t)
      BY <1>1, <2>7 DEF Done
    <3>2. NotYet(t) /\ p # Prog[th[t].op]
      BY <2>2, <2>7, <3>1 DEF Along, Ranked, Way
    <3>3. Received(t)'
      <4>1. CASE Quiet
        <5>1. pkt.what = "magic"
          BY <1>1, <1>5, <4>1 DEF Quiet
        <5>2. QED BY <1>3, <2>3, <4>1, <5>1 DEF Received
      <4>2. CASE /\ Serves(t) /\ host.todo \in Rests(p)
                 /\ host.todo = p => th[t].clean
        <5>1. pkt = [to |-> t, op |-> th[t].op, what |-> Head(host.todo)]
          BY <4>2 DEF Serves
        <5>2. Tail(host.todo) \in Rests(Tail(host.todo))
          BY <1>1, <2>2, <4>2 DEF Ranked
        <5> HIDE DEF pkt
        <5>3. QED BY <1>1, <1>3, <2>1, <2>3, <4>2, <5>1, <5>2 DEF Received
      <4>3. QED BY <3>2, <4>1, <4>2 DEF NotYet
    <3>4. Way(t)' = "OUT"
      BY <2>1, <2>7
    <3>5. Done(t)'
      BY <1>3, <2>1, <2>7, <3>4, <1>7 DEF Done, InOp
    <3>6. QED BY <3>3, <3>4, <3>5 DEF Along
  <2>8. QED BY <2>2, <2>5, <2>6, <2>7
<1>8. QED BY <1>2, <1>6, <1>7 DEF HostAwaits, InStep

\* The exchange: thread and PC are in step after every step of the system.
LEMMA NextStep ==
  ASSUME LinkAssumption, XInv, [Next]_vars, Base'
  PROVE  HostAwaits' /\ InStep' /\ OwnPackets'
<1>0. /\ Base /\ Typed /\ Globals /\ BusOwned /\ HostAwaits /\ InStep /\ OwnPackets
      /\ th \in [Thread -> ThreadRec] /\ U \in Thread
  BY BaseParts DEF XInv, Base, Typed, Thread
<1>1. ASSUME NEW t \in Thread, Step(t)
      PROVE  HostAwaits' /\ InStep' /\ OwnPackets'
  BY <1>1, PostStep, BlockStep, InspectStep, WaitSemaStep, SignalStep DEF Step
<1>2. ASSUME NEW t \in Thread, NEW r, th' = [th EXCEPT ![t] = r], UNCHANGED <<req, host>>,
             th[t].pc \in {"idle", "conn", "handle", "greet", "hello_ok"},
             r.pc \in {"idle", "conn", "sema", "handle"} \/ r.op = "magic",
             r.ret = "ok" => th[t].ret = "ok" /\ r.clean = th[t].clean
      PROVE  HostAwaits' /\ InStep' /\ OwnPackets'
  <2>1. th'[t] = r /\ \A s \in Thread : s # t => th'[s] = th[s]
    BY <1>0, <1>2
  <2>2. ~ InOp(t) /\ ~ InOp(t)'
    BY <1>2, <2>1 DEF InOp
  <2>3. \A s \in Thread : s # t => (InOp(s)' <=> InOp(s))
    BY <2>1 DEF InOp
  <2>4. HostAwaits' /\ InStep'
    BY <1>0, <1>2, <2>1, <2>2, <2>3, StepAside
  <2>5. OwnPackets'
    BY <1>0, <1>2, <2>1, StillMine
  <2>6. QED BY <2>4, <2>5
<1>3. ASSUME NEW c \in Client,
             \/ \E op \in Ops : Call(c, op)
             \/ usbWaitForConnectCall(c) \/ usbWaitForConnectDone(c)
      PROVE  HostAwaits' /\ InStep' /\ OwnPackets'
  <2>1. c \in Thread
    BY DEF Thread
  <2>2. ASSUME NEW op \in Ops, Call(c, op)
        PROVE  HostAwaits' /\ InStep' /\ OwnPackets'
    <3> DEFINE r == IF connected
                    THEN [ThreadInit EXCEPT !.pc = "sema", !.op = op, !.prog = Prog[op]]
                    ELSE [ThreadInit EXCEPT !.ret = "fail"]
    <3>1. /\ th' = [th EXCEPT ![c] = r] /\ UNCHANGED <<req, host>> /\ th[c].pc = "idle"
          /\ r.pc \in {"idle", "sema"} /\ r.ret # "ok"
      BY <2>2 DEF Call, ThreadInit
    <3> HIDE DEF r
    <3>2. QED BY <1>2, <2>1, <3>1
  <2>3. CASE usbWaitForConnectCall(c)
    <3> DEFINE r == [ThreadInit EXCEPT !.pc = "conn"]
    <3>1. /\ th' = [th EXCEPT ![c] = r] /\ UNCHANGED <<req, host>> /\ th[c].pc = "idle"
          /\ r.pc = "conn" /\ r.ret # "ok"
      BY <2>3 DEF usbWaitForConnectCall, ThreadInit
    <3> HIDE DEF r
    <3>2. QED BY <1>2, <2>1, <3>1
  <2>4. CASE usbWaitForConnectDone(c)
    <3>1. /\ th' = [th EXCEPT ![c] = ThreadInit] /\ UNCHANGED <<req, host>> /\ th[c].pc = "conn"
          /\ ThreadInit.pc = "idle" /\ ThreadInit.ret # "ok"
      BY <2>4 DEF usbWaitForConnectDone, ThreadInit
    <3>2. QED BY <1>2, <2>1, <3>1
  <2>5. QED BY <1>3, <2>2, <2>3, <2>4
<1>4. CASE UsbThread
  <2>1. CASE usb_thread_wait
    <3> DEFINE r == [th[U] EXCEPT !.pc = "handle", !.result = mainev \cap WaitedFor]
    <3>1. /\ th' = [th EXCEPT ![U] = r] /\ UNCHANGED <<req, host>> /\ th[U].pc = "idle"
          /\ r.pc = "handle" /\ r.ret = th[U].ret /\ r.clean = th[U].clean
      BY <1>0, <2>1 DEF usb_thread_wait, ThreadRec
    <3> HIDE DEF r
    <3>2. QED BY <1>0, <1>2, <3>1
  <2>2. CASE usb_thread_handle
    <3> DEFINE r == IF "ATTACH" \in th[U].result
                    THEN [ThreadInit EXCEPT !.pc = "post", !.op = "magic", !.prog = Prog.magic]
                    ELSE ThreadInit
    <3>1. /\ th' = [th EXCEPT ![U] = r] /\ UNCHANGED <<req, host>> /\ th[U].pc = "handle"
          /\ (r.pc = "idle" \/ r.op = "magic") /\ r.ret # "ok"
      BY <2>2 DEF usb_thread_handle, ThreadInit
    <3> HIDE DEF r
    <3>2. QED BY <1>0, <1>2, <3>1
  <2>3. CASE usb_thread_greet
    <3> DEFINE r == [ThreadInit EXCEPT !.pc = "sema", !.op = "hello", !.prog = Prog.hello]
    <3>1. /\ th' = [th EXCEPT ![U] = r] /\ UNCHANGED <<req, host>> /\ th[U].pc = "greet"
          /\ r.pc = "sema" /\ r.ret # "ok"
      BY <2>3 DEF usb_thread_greet, ThreadInit
    <3> HIDE DEF r
    <3>2. QED BY <1>0, <1>2, <3>1
  <2>4. CASE usb_thread_connect
    <3>1. /\ th' = [th EXCEPT ![U] = ThreadInit] /\ UNCHANGED <<req, host>> /\ th[U].pc = "hello_ok"
          /\ ThreadInit.pc = "idle" /\ ThreadInit.ret # "ok"
      BY <2>4 DEF usb_thread_connect, ThreadInit
    <3>2. QED BY <1>0, <1>2, <3>1
  <2>5. QED BY <1>4, <2>1, <2>2, <2>3, <2>4 DEF UsbThread
<1>5. CASE open_device \/ HandlerTimeout
  <2>1. UNCHANGED <<req, th>> /\ Quiet'
    <3>1. CASE open_device
      <4>1. Prog.magic = <<"magic">>
        BY ProgIs
      <4>2. UNCHANGED <<req, th>> /\ host' = [todo |-> <<"magic">>, from |-> U, op |-> "magic"]
        BY <3>1, <4>1 DEF open_device
      <4>3. QED BY <4>2 DEF Quiet
    <3>2. CASE HandlerTimeout
      <4>1. UNCHANGED <<req, th>> /\ host' = [host EXCEPT !.todo = <<>>]
        BY <3>2 DEF HandlerTimeout
      <4>2. host'.todo = <<>>
        BY <1>0, <4>1 DEF Typed
      <4>3. QED BY <4>1, <4>2 DEF Quiet
    <3>3. QED BY <1>5, <3>1, <3>2
  <2>2. \A t \in Thread : (InOp(t)' <=> InOp(t)) /\ (Done(t)' <=> Done(t))
    BY <2>1 DEF InOp, Done, Way
  <2>3. HostAwaits' /\ InStep'
    BY <1>0, <2>1, <2>2, StepQuiet
  <2>4. QED BY <1>0, <2>1, <2>3 DEF OwnPackets
<1>6. CASE CloseSession
  <2>1. /\ host' = HostIdle /\ Wakes({"IN", "OUT"}, th, th')
        /\ req' = [d \in {"IN", "OUT"} |-> IF req[d].st = "pending"
                                           THEN [req[d] EXCEPT !.st = "err"] ELSE req[d]]
    BY <1>0, <1>6, CloseSessionIs
  <2>2. Quiet'
    BY <2>1 DEF Quiet, HostIdle
  <2>3. \A d \in {"IN", "OUT"} : (req'[d].st = "ok" <=> req[d].st = "ok") /\ req'[d].pkt = req[d].pkt
    <3> TAKE d \in {"IN", "OUT"}
    <3>1. req[d] \in [st : {"none", "pending", "ok", "err"}, pkt : Packet]
      BY <1>0 DEF Globals
    <3>2. req'[d] = IF req[d].st = "pending" THEN [req[d] EXCEPT !.st = "err"] ELSE req[d]
      BY <2>1
    <3>3. QED BY <3>1, <3>2
  <2>4. ASSUME NEW t \in Thread
        PROVE  /\ InOp(t)' <=> InOp(t)
               /\ th'[t].prog = th[t].prog /\ th'[t].op = th[t].op /\ th'[t].clean = th[t].clean
               /\ Done(t)' <=> Done(t)
    <3>1. Way(t) \in {"IN", "OUT"} /\ Way(t)' = Way(t) /\ (InOp(t)' <=> InOp(t))
      BY <2>1, WokenInOp DEF Way, Dir
    <3>2. QED BY <2>1, <2>3, <3>1 DEF Wakes, Done
  <2>5. HostAwaits' /\ InStep'
    BY <1>0, <2>2, <2>3, <2>4, StepQuiet
  <2>6. OwnPackets'
    BY <1>0, <2>1, StillMine DEF Wakes
  <2>7. QED BY <2>5, <2>6
<1>7. CASE async_write \/ start_func \/ UNCHANGED vars
  <2>1. UNCHANGED <<req, host, th>>
    BY <1>7 DEF async_write, start_func, vars
  <2>2. \A t \in Thread : InOp(t)' <=> InOp(t)
    BY <2>1 DEF InOp
  <2>3. HostAwaits' /\ InStep'
    BY <1>0, <2>1, <2>2, StepAside
  <2>4. QED BY <1>0, <2>1, <2>3 DEF OwnPackets
<1>8. CASE stop_func
  <2>1. UNCHANGED <<req, host>> /\ host.todo = <<>>
    BY <1>0, <1>8 DEF stop_func, BusOwned
  <2>2. ASSUME NEW t \in Thread
        PROVE  \/ th'[t] = th[t]
               \/ th'[t].pc \in {"idle", "signal"} /\ th'[t].ret # "ok"
    <3>1. PICK asleep \in SUBSET Client :
            th'[t] = IF t = U THEN ThreadInit
                     ELSE IF th[t].pc = "wait" THEN Ended(t, "fail")
                     ELSE IF t \in asleep THEN Refused(t)
                     ELSE IF th[t].pc = "conn" THEN ThreadInit ELSE th[t]
      BY <1>8 DEF stop_func
    <3>2. /\ ThreadInit.pc = "idle" /\ ThreadInit.ret = "none"
          /\ Refused(t).pc = "idle" /\ Refused(t).ret = "fail"
          /\ Ended(t, "fail").pc \in {"idle", "signal"} /\ Ended(t, "fail").ret = "fail"
      BY <1>0 DEF ThreadInit, Ended, Refused, ThreadRec
    <3>3. QED BY <3>1, <3>2
  <2>3. \A t \in Thread : InOp(t)' => InOp(t) /\ th'[t] = th[t]
    BY <2>2 DEF InOp
  <2>4. \A t \in Thread : InOp(t)' => (Done(t)' <=> Done(t))
    BY <2>1, <2>3 DEF Done, Way
  <2>5. Quiet'
    BY <2>1 DEF Quiet
  <2>6. HostAwaits' /\ InStep'
    BY <1>0, <2>1, <2>3, <2>4, <2>5, StepQuiet
  <2>7. OwnPackets'
    BY <1>0, <2>2, StillMine
  <2>8. QED BY <2>6, <2>7
<1>9. QED BY <1>1, <1>3, <1>4, <1>5, <1>6, <1>7, <1>8, ReadStep, WriteStep
      DEF Next, Detach, MagicTimeout

\* Every step but that of a restart that overtakes an exchange leaves caught alone.
LEMMA CaughtStays == [Next]_vars /\ caught \in BOOLEAN /\ ~caught' => ~caught
<1> SUFFICES ASSUME [Next]_vars, caught, caught \in BOOLEAN PROVE caught'
  OBVIOUS
<1>1. ASSUME NEW t \in Thread, Step(t) PROVE caught'
  BY <1>1 DEF Step, Post, Block, Inspect, Signal, WaitSema
<1>2. ASSUME NEW c \in Client,
             \/ \E op \in Ops : Call(c, op)
             \/ usbWaitForConnectCall(c) \/ usbWaitForConnectDone(c)
      PROVE  caught'
  BY <1>2 DEF Call, usbWaitForConnectCall, usbWaitForConnectDone
<1>3. CASE UsbThread
  BY <1>3 DEF UsbThread, usb_thread_wait, usb_thread_handle, usb_thread_greet,
              usb_thread_connect
<1>4. CASE open_device \/ CloseSession \/ bulk_read \/ bulk_write
  BY <1>4 DEF open_device, CloseSession, bulk_read, bulk_write
<1>5. CASE HandlerTimeout \/ async_write \/ stop_func \/ start_func \/ UNCHANGED vars
  BY <1>5 DEF HandlerTimeout, async_write, stop_func, start_func, vars
<1>6. QED BY <1>1, <1>2, <1>3, <1>4, <1>5 DEF Next, Detach, MagicTimeout

\* An exchange that reports success received exactly the packets the PC sent for
\* it, for any number of threads, sessions, timeouts and restarts (command_xchg,
\* read_data, usb_read_data of the handshake), until a restart overtakes a client
\* between the grant of the semaphore and its signal (stop_func, start_func).
THEOREM ExchangesAreOwn == Spec => []ExchangeIsMine
<1>0. LinkAssumption
  BY LinkAssumption
<1>1. Init => SInv
  <2> SUFFICES ASSUME Init PROVE SInv
    OBVIOUS
  <2>1. Base
    BY <1>0, InitBase
  <2>2. \A t \in Thread : th[t].pc = "idle" /\ th[t].ret = "none"
    BY DEF Init, ThreadInit
  <2>3. \A t \in Thread : ~ InOp(t) /\ ~ Holds(t)
    BY <2>2 DEF InOp, Holds
  <2>4. Exclusive
    BY <1>0, <2>3 DEF Exclusive, Init, LinkAssumption
  <2>5. BusOwned
    <3>1. NoReq.st = "none" /\ NoReq.pkt.what = "none"
      BY DEF NoReq, NoPacket
    <3>2. req["IN"] = NoReq /\ req["OUT"] = NoReq /\ up /\ host.todo = <<>>
      BY DEF Init, HostIdle
    <3>3. QED BY <3>1, <3>2 DEF BusOwned
  <2>6. HostAwaits /\ InStep /\ OwnPackets
    BY <2>2, <2>3 DEF HostAwaits, Awaits, InStep, OwnPackets, Init, HostIdle
  <2>7. QED BY <2>1, <2>4, <2>5, <2>6 DEF SInv, XInv
<1>2. SInv /\ [Next]_vars => SInv'
  <2> SUFFICES ASSUME SInv, [Next]_vars PROVE SInv'
    OBVIOUS
  <2>1. Base'
    BY <1>0, NextBase DEF SInv
  <2>2. ASSUME ~caught' PROVE XInv'
    <3>1. ~caught
      BY <2>2, CaughtStays DEF SInv, Base, Typed, TypeOK
    <3>2. XInv
      BY <3>1 DEF SInv
    <3>3. Exclusive' /\ BusOwned'
      BY <1>0, <2>2, <3>2, NextExclusive, NextOwned DEF XInv
    <3>4. HostAwaits' /\ InStep' /\ OwnPackets'
      BY <1>0, <2>1, <3>2, NextStep
    <3>5. QED BY <2>1, <3>3, <3>4 DEF XInv
  <2>3. QED BY <2>1, <2>2 DEF SInv
<1>3. SInv => ExchangeIsMine
  BY DEF SInv, XInv, OwnPackets, ExchangeIsMine
<1>4. QED BY <1>1, <1>2, <1>3, PTL DEF Spec
=============================================================================
