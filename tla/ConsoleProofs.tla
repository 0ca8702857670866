---------------------------- MODULE ConsoleProofs ---------------------------
(***************************************************************************)
(* Proofs about Consoles: stdin of programs for every number of readers,    *)
(* buffer size and set of lines; the parse thread of the shell for every    *)
(* number of clients, commands and scripts; the line editor for every size  *)
(* of its buffer and history; the wireless shell for every number of        *)
(* connections and printing threads.                                        *)
(***************************************************************************)
EXTENDS Consoles, RingProofs, TLAPS

-----------------------------------------------------------------------------
(* Stdin of programs: TtyInput. *)

\* Exactly the holder of g_in_sema is inside inputHandler.
Inside == \A t \in Reader : pc[t] \in {"copy", "sleep", "asleep"} <=> sema = t

\* A thread about to sleep is the noted waiter or has a wake-up in store; one
\* that sleeps is the waiter and has none.
Noted == \A t \in Reader :
           /\ pc[t] = "sleep" => waitth = t \/ wakeups[t] > 0
           /\ pc[t] = "asleep" => waitth = t /\ wakeups[t] = 0

\* The noted waiter found the buffer empty, and no line has come since.
NotedEmpty == \A t \in Reader : waitth = t /\ len[t] > 0 => ring.size = 0

\* Wake-ups counted or still owed, against those sent by others and the one a
\* sleeping reader may use up.
Budget == \A t \in Reader :
            wakeups[t] + (IF waitth = t THEN 1 ELSE 0)
              <= strays + (IF pc[t] \in {"sleep", "asleep"} THEN 1 ELSE 0)

TtyInv == /\ TypeOK /\ RingConsistent(ring) /\ Inside /\ OnlyReadersWoken
          /\ Noted /\ NotedEmpty /\ Budget

\* A step preserves the invariant.
LEMMA TtyStep ==
  ASSUME TtyInv, [Next]_vars
  PROVE  TtyInv'
<1> USE TtyAssumption DEF TtyInv, TypeOK
<1>1. ASSUME NEW bytes \in Line, ttyAddInputData(bytes)
      PROVE  TtyInv'
  <2>1. bytes \in Seq(Byte)
    OBVIOUS
  <2>2. ring' \in RingType /\ RingConsistent(ring')
    BY <1>1, <2>1, RingPutOK DEF ttyAddInputData
  <2>3. CASE waitth = NULL
    <3>1. UNCHANGED <<waitth, sema, pc, len, wakeups, strays>>
      BY <1>1, <2>3 DEF ttyAddInputData
    <3>2. QED
      BY <2>2, <2>3, <3>1 DEF Inside, OnlyReadersWoken, Noted, NotedEmpty, Budget
  <2>4. CASE waitth # NULL /\ pc[waitth] = "asleep"
    <3>1. /\ pc' = [pc EXCEPT ![waitth] = "copy"] /\ waitth' = NULL
          /\ UNCHANGED <<sema, len, wakeups, strays>>
      BY <1>1, <2>4 DEF ttyAddInputData, sceKernelWakeupThread, Served
    <3>2. QED
      BY <2>2, <2>4, <3>1 DEF Inside, OnlyReadersWoken, Noted, NotedEmpty, Budget
  <2>5. CASE waitth # NULL /\ pc[waitth] # "asleep"
    <3>1. /\ wakeups' = [wakeups EXCEPT ![waitth] = @ + 1] /\ waitth' = NULL
          /\ UNCHANGED <<sema, len, pc, strays>>
      BY <1>1, <2>5 DEF ttyAddInputData, sceKernelWakeupThread, Served
    <3>2. QED
      BY <2>2, <2>5, <3>1 DEF Inside, OnlyReadersWoken, Noted, NotedEmpty, Budget
  <2>6. QED BY <2>3, <2>4, <2>5
<1>2. ASSUME NEW t \in Reader, NEW n \in 0 .. MaxLen, io_read(t, n)
      PROVE  TtyInv'
  BY <1>2 DEF io_read, Inside, OnlyReadersWoken, Noted, NotedEmpty, Budget
<1>3. ASSUME NEW t \in Reader, sceKernelWaitSema(t)
      PROVE  TtyInv'
  BY <1>3 DEF sceKernelWaitSema, Inside, OnlyReadersWoken, Noted, NotedEmpty, Budget
<1>4. ASSUME NEW t \in Reader, inputHandler(t)
      PROVE  TtyInv'
  <2> DEFINE n == Smaller(len[t], ring.size)
  <2>1. n \in 0 .. ring.size /\ (n = 0 /\ len[t] > 0 => ring.size = 0)
    BY DEF Smaller, RingType
  <2>2. sema = t /\ ring' = RingTake(ring, n)
    BY <1>4 DEF inputHandler, Inside
  <2> HIDE DEF n
  <2>3. /\ ring' \in RingType /\ RingConsistent(ring') /\ ring'.size = ring.size - n
    BY <2>1, <2>2, RingTakeOK
  <2>4. CASE n > 0
    <3>1. /\ pc' = [pc EXCEPT ![t] = "idle"] /\ sema' = NULL
          /\ UNCHANGED <<waitth, len, wakeups, strays>>
      BY <1>4, <2>1, <2>4 DEF inputHandler, Asks, n
    <3>2. waitth # t
      BY <2>1, <2>4 DEF NotedEmpty, RingType, Smaller, n
    <3>3. waitth = NULL
      BY <2>2, <3>2 DEF OnlyReadersWoken
    <3>4. pc[t] = "copy"
      BY <1>4 DEF inputHandler
    <3>5. Inside' /\ OnlyReadersWoken' /\ Noted' /\ NotedEmpty'
      BY <2>2, <3>1, <3>3, <3>4 DEF Inside, OnlyReadersWoken, Noted, NotedEmpty
    <3>6. Budget'
      BY <3>1, <3>3, <3>4 DEF Budget
    <3>7. QED BY <2>3, <3>1, <3>5, <3>6
  <2>5. CASE n = 0
    <3>1. /\ pc' = [pc EXCEPT ![t] = "sleep"] /\ waitth' = t
          /\ UNCHANGED <<sema, len, wakeups, strays>>
      BY <1>4, <2>5 DEF inputHandler, Asks, n
    <3>2. len[t] > 0 => ring'.size = 0
      BY <2>1, <2>3, <2>5 DEF RingType
    <3>3. pc[t] = "copy"
      BY <1>4 DEF inputHandler
    <3>4. Inside' /\ OnlyReadersWoken' /\ Noted'
      BY <2>2, <3>1, <3>3 DEF Inside, OnlyReadersWoken, Noted
    <3>5. NotedEmpty' /\ Budget'
      BY <2>2, <3>1, <3>2, <3>3 DEF NotedEmpty, Budget
    <3>6. QED BY <2>3, <3>1, <3>4, <3>5
  <2>6. n = 0 \/ n > 0
    BY <2>1 DEF RingType
  <2>7. QED BY <2>4, <2>5, <2>6
<1>5. ASSUME NEW t \in Reader, sceKernelSleepThread(t)
      PROVE  TtyInv'
  <2>1. CASE wakeups[t] > 0
    <3>1. /\ wakeups' = [wakeups EXCEPT ![t] = @ - 1]
          /\ pc' = [pc EXCEPT ![t] = "copy"] /\ pc[t] = "sleep"
          /\ UNCHANGED <<ring, waitth, sema, len, strays>>
      BY <1>5, <2>1 DEF sceKernelSleepThread
    <3>2. TypeOK' /\ RingConsistent(ring')
      BY <2>1, <3>1
    <3>3. Inside' /\ OnlyReadersWoken' /\ Noted' /\ NotedEmpty'
      BY <3>1 DEF Inside, OnlyReadersWoken, Noted, NotedEmpty
    <3>4. Budget'
      BY <2>1, <3>1 DEF Budget
    <3>5. QED BY <3>2, <3>3, <3>4
  <2>2. CASE wakeups[t] = 0
    BY <1>5, <2>2 DEF sceKernelSleepThread, Inside, OnlyReadersWoken, Noted, NotedEmpty, Budget
  <2>3. QED BY <2>1, <2>2
<1>6. ASSUME NEW t \in Reader, StrayWakeup(t)
      PROVE  TtyInv'
  <2>1. CASE pc[t] = "asleep"
    BY <1>6, <2>1 DEF StrayWakeup, sceKernelWakeupThread, Inside, OnlyReadersWoken, Noted,
                      NotedEmpty, Budget
  <2>2. CASE pc[t] # "asleep"
    <3>1. /\ wakeups' = [wakeups EXCEPT ![t] = @ + 1]
          /\ strays' = strays + 1 /\ strays < MaxStray
          /\ UNCHANGED <<ring, waitth, sema, len, pc>>
      BY <1>6, <2>2 DEF StrayWakeup, sceKernelWakeupThread
    <3>2. TypeOK' /\ RingConsistent(ring')
      BY <3>1
    <3>3. Inside' /\ OnlyReadersWoken' /\ Noted' /\ NotedEmpty'
      BY <2>2, <3>1 DEF Inside, OnlyReadersWoken, Noted, NotedEmpty
    <3>4. Budget'
      BY <3>1 DEF Budget
    <3>5. QED BY <3>2, <3>3, <3>4
  <2>3. QED BY <2>1, <2>2
<1>7. CASE UNCHANGED vars
  BY <1>7 DEF vars, Inside, OnlyReadersWoken, Noted, NotedEmpty, Budget
<1>8. QED
  BY <1>1, <1>2, <1>3, <1>4, <1>5, <1>6, <1>7 DEF Next

\* A program's stdin never sleeps over input, ttyAddInputData wakes only threads
\* inside inputHandler, and no wake-up of its own is left behind, for any number
\* of readers and any interleaving with stray wake-ups.
THEOREM StdinIsSafe == Spec => []StdinSafe
<1>1. Init => TtyInv
  BY EmptyRingOK, TtyAssumption
     DEF Init, TtyInv, TypeOK, Inside, OnlyReadersWoken, Noted, NotedEmpty, Budget
<1>2. TtyInv /\ [Next]_vars => TtyInv'
  BY TtyStep
<1>3. TtyInv => StdinSafe
  BY DEF TtyInv, StdinSafe, TypeOK, NoMissedInput, Noted, NotedEmpty, NoLeakedWakeup, Budget
<1>4. QED BY <1>1, <1>2, <1>3, PTL DEF Spec

-----------------------------------------------------------------------------
(* The parse thread: Shell. *)

\* The words that can stand in a line.
AnyWord == Words \cup {Parser!Garbage, Custom} \cup {Scripts[s][i] : s \in DOMAIN Scripts, i \in Nat}
Frame   == [script : DOMAIN Scripts, next : Nat]
ParserType == [at : {"receive", "run", "wait", "fault", "end", "lost"}, word : AnyWord,
               stack : Seq(Frame), ret : {"ok", "error", "exit"}]

\* The types the argument needs.
ShellTyped ==
  /\ at \in [Client -> {"typing", "sent"}] /\ sent \in [Client -> Nat]
  /\ mbx \in Seq(Client) /\ typed \in Seq(AnyWord) /\ taken \in Seq(AnyWord)
  /\ overtaken \subseteq Nat
  /\ \A i \in DOMAIN mbx : sent[mbx[i]] \in 1 .. Len(typed)
  /\ parser \in ParserType
  /\ open \in Nat

\* Every script being run has its file open; other files are left open only by an
\* exception.
FilesOfScripts ==
  /\ open >= Len(parser.stack)
  /\ ~faults => open = Len(parser.stack)
  /\ parser.at = "receive" => parser.stack = <<>>
  /\ parser.at \in {"fault", "lost"} => faults

\* After a failure the parse thread is on its way out of the scripts.
OnItsWayOut == failed => parser.at = "receive" \/ (parser.at = "end" /\ parser.ret # "ok")

\* No line up to the n-th is among the overtaken ones.
Certain(n, past) == \A m \in past : n < m

\* Up to the first that was overtaken, the lines not taken are those of the messages
\* in the box, in their order, each as its sender left it and the sender still there.
BoxInOrder ==
  /\ \A i \in DOMAIN mbx : Certain(Len(taken) + i, overtaken) =>
       /\ Len(taken) + i <= Len(typed)
       /\ at[mbx[i]] = "sent" /\ sent[mbx[i]] = Len(taken) + i
  /\ Certain(Len(taken) + Len(mbx), overtaken) => Len(typed) = Len(taken) + Len(mbx)

ScriptInv == ShellTyped /\ FilesOfScripts /\ OnItsWayOut
ShellInv == ScriptInv /\ BoxInOrder /\ Parser!ProcessesLines

\* A sequence with one element more, or one less.
LEMMA Longer ==
  ASSUME NEW S, NEW s \in Seq(S), NEW e \in S
  PROVE  /\ Append(s, e) \in Seq(S) /\ Len(Append(s, e)) = Len(s) + 1 /\ Len(s) \in Nat
         /\ DOMAIN Append(s, e) = 1 .. Len(s) + 1 /\ DOMAIN s = 1 .. Len(s)
         /\ Append(s, e)[Len(s) + 1] = e
         /\ \A i \in 1 .. Len(s) : Append(s, e)[i] = s[i] /\ s[i] \in S
OBVIOUS

LEMMA Shorter ==
  ASSUME NEW S, NEW s \in Seq(S), s # <<>>
  PROVE  /\ Tail(s) \in Seq(S) /\ Len(Tail(s)) = Len(s) - 1 /\ Len(s) \in Nat \ {0}
         /\ DOMAIN Tail(s) = 1 .. Len(s) - 1 /\ DOMAIN s = 1 .. Len(s)
         /\ Head(s) = s[1] /\ \A i \in 1 .. Len(s) : s[i] \in S
         /\ \A i \in 1 .. Len(s) - 1 : Tail(s)[i] = s[i + 1]
OBVIOUS

\* The parse thread's steps as changes of parser alone.
LEMMA EndedType ==
  ASSUME ShellTyped, NEW r \in {"ok", "error", "exit"}, Parser!Ended(r)
  PROVE  /\ parser' = [parser EXCEPT !.at = "end", !.ret = r]
         /\ parser' \in ParserType
         /\ parser'.at = "end" /\ parser'.ret = r /\ parser'.stack = parser.stack
  BY DEF ShellTyped, ParserType, Parser!Ended

\* A line that is being run has not failed, and goes on or ends.
LEMMA LineGoesOn ==
  ASSUME ScriptInv, parser.at \in {"run", "wait"},
         UNCHANGED <<Parser!clients, Parser!box, open, faults, failed>>,
         parser' \in ParserType, parser'.stack = parser.stack,
         parser'.at \in {"run", "wait", "end"}
  PROVE  ScriptInv' /\ Parser!ErrorStops
<1>1. ~failed /\ ~failed'
  BY DEF ScriptInv, OnItsWayOut
<1>2. ShellTyped'
  BY DEF ScriptInv, ShellTyped, ParserType, Parser!clients, Parser!box
<1>3. FilesOfScripts'
  BY DEF ScriptInv, FilesOfScripts
<1>4. QED BY <1>1, <1>2, <1>3 DEF ScriptInv, OnItsWayOut, Parser!ErrorStops

\* A step preserves what holds of scripts, whoever is scheduled first.
LEMMA ScriptStep ==
  ASSUME ScriptInv, [Parser!Next]_shellVars
  PROVE  ScriptInv' /\ (Parser!ErrorStops \/ UNCHANGED shellVars)
<1> USE DEF ScriptInv, FilesOfScripts, OnItsWayOut
<1>1. ASSUME NEW c \in Client, Parser!Return(c)
      PROVE  ScriptInv' /\ Parser!ErrorStops
  <2>1. overtaken' \subseteq Nat
    BY <1>1 DEF Parser!Return, ShellTyped
  <2>2. QED BY <1>1, <2>1 DEF Parser!Return, ShellTyped, ParserType, Parser!ErrorStops
<1>2. ASSUME NEW c \in Client, NEW w \in Words, Parser!psplinkParseCommand(c, w)
      PROVE  ScriptInv' /\ Parser!ErrorStops
  <2>1. w \in AnyWord
    BY DEF AnyWord
  <2>2. mbx' \in Seq(Client) /\ typed' \in Seq(AnyWord) /\ Len(typed') = Len(typed) + 1
        /\ Len(typed) \in Nat
    <3>1. /\ mbx \in Seq(Client) /\ typed \in Seq(AnyWord) /\ typed' = Append(typed, w)
          /\ mbx' = Append(mbx, c) \/ mbx' = mbx
      BY <1>2 DEF Parser!psplinkParseCommand, ShellTyped
    <3>2. QED BY <2>1, <3>1, Longer
  <2>3. sent' \in [Client -> Nat] /\ sent'[c] = Len(typed)' /\ \A d \in Client : d # c => sent'[d] = sent[d]
    BY <1>2, <2>2 DEF Parser!psplinkParseCommand, ShellTyped
  <2>4. \A i \in DOMAIN mbx' : mbx'[i] = c \/ (i \in DOMAIN mbx /\ mbx'[i] = mbx[i] /\ mbx[i] \in Client)
    <3>1. mbx \in Seq(Client) /\ (mbx' = Append(mbx, c) \/ mbx' = mbx)
      BY <1>2 DEF Parser!psplinkParseCommand, ShellTyped
    <3>2. CASE mbx' = Append(mbx, c)
      <4>1. /\ DOMAIN mbx' = 1 .. Len(mbx) + 1 /\ Len(mbx) \in Nat /\ DOMAIN mbx = 1 .. Len(mbx)
            /\ mbx'[Len(mbx) + 1] = c
            /\ \A i \in 1 .. Len(mbx) : mbx'[i] = mbx[i] /\ mbx[i] \in Client
        BY <3>1, <3>2, Longer
      <4>2. QED BY <4>1
    <3>3. CASE mbx' = mbx
      BY <3>1, <3>3
    <3>4. QED BY <3>1, <3>2, <3>3
  <2>5. ASSUME NEW i \in DOMAIN mbx'
        PROVE  sent'[mbx'[i]] \in 1 .. Len(typed')
    <3>1. CASE mbx'[i] = c
      BY <2>2, <2>3, <3>1
    <3>2. CASE i \in DOMAIN mbx /\ mbx'[i] = mbx[i] /\ mbx[i] \in Client /\ mbx[i] # c
      <4>1. sent'[mbx'[i]] = sent[mbx[i]] /\ sent[mbx[i]] \in 1 .. Len(typed)
        BY <2>3, <3>2 DEF ShellTyped
      <4>2. QED BY <2>2, <4>1
    <3>3. QED BY <2>4, <3>1, <3>2
  <2>6. QED
    BY <1>2, <2>1, <2>2, <2>3, <2>5 DEF Parser!psplinkParseCommand, ShellTyped, ParserType, Parser!ErrorStops
<1>3. CASE Parser!Receive
  <2>1. PICK w \in Parser!Message(Head(mbx)) :
          /\ parser' = [Parser!Idle EXCEPT !.at = "run", !.word = w]
          /\ taken' = Append(taken, w)
    BY <1>3 DEF Parser!Receive
  <2>2. w \in AnyWord
    <3>1. Head(mbx) \in Client
      BY <1>3 DEF Parser!Receive, ShellTyped, ParserType
    <3>2. typed[sent[Head(mbx)]] \in AnyWord
      <4>1. Head(mbx) = mbx[1] /\ 1 \in DOMAIN mbx
        BY <1>3 DEF Parser!Receive, ShellTyped
      <4>2. QED BY <4>1 DEF ShellTyped
    <3>3. Parser!Garbage \in AnyWord
      BY DEF AnyWord
    <3>4. QED BY <2>1, <3>2, <3>3 DEF Parser!Message
  <2>3. /\ parser' = [at |-> "run", word |-> w, stack |-> <<>>, ret |-> "ok"]
    BY <2>1 DEF Parser!Idle
  <2>4. /\ mbx' \in Seq(Client) /\ taken' \in Seq(AnyWord) /\ <<>> \in Seq(Frame)
        /\ \A i \in DOMAIN mbx' : sent'[mbx'[i]] \in 1 .. Len(typed')
    <3>1. /\ mbx' = Tail(mbx) \/ mbx' = <<>>
          /\ mbx # <<>> /\ mbx \in Seq(Client) /\ taken \in Seq(AnyWord)
          /\ UNCHANGED <<sent, typed>>
      BY <1>3 DEF Parser!Receive, Parser!Behind, Parser!clients, ShellTyped
    <3>2. taken' \in Seq(AnyWord) /\ <<>> \in Seq(Frame)
      BY <2>1, <2>2, <3>1, Longer
    <3>3. CASE mbx' = Tail(mbx)
      <4>1. /\ mbx' \in Seq(Client) /\ DOMAIN mbx' = 1 .. Len(mbx) - 1 /\ Len(mbx) \in Nat \ {0}
            /\ DOMAIN mbx = 1 .. Len(mbx) /\ \A i \in 1 .. Len(mbx) - 1 : mbx'[i] = mbx[i + 1]
        BY <3>1, <3>3, Shorter
      <4>2. \A i \in DOMAIN mbx' : i + 1 \in DOMAIN mbx /\ mbx'[i] = mbx[i + 1]
        BY <4>1
      <4>3. QED BY <3>1, <3>2, <4>1, <4>2 DEF ShellTyped
    <3>4. CASE mbx' = <<>>
      <4>1. mbx' \in Seq(Client) /\ DOMAIN mbx' = {}
        BY <3>4
      <4>2. QED BY <3>2, <4>1
    <3>5. QED BY <3>1, <3>3, <3>4
  <2>5. ShellTyped'
    BY <1>3, <2>2, <2>3, <2>4 DEF Parser!Receive, Parser!clients, ShellTyped, ParserType
  <2>6. parser.stack = <<>> /\ parser'.stack = <<>> /\ failed' = FALSE
    BY <1>3, <2>3 DEF Parser!Receive
  <2>7. QED
    BY <1>3, <2>3, <2>5, <2>6 DEF Parser!Receive, Parser!ErrorStops
<1>4. CASE Parser!shellParseTty
  BY <1>4, EndedType, LineGoesOn DEF Parser!shellParseTty
<1>5. CASE Parser!scriptRun
  <2>1. CASE Parser!Ended("ok") \/ Parser!Ended("error")
    <3>1. UNCHANGED open
      BY <1>5, <2>1, EndedType DEF Parser!scriptRun, Parser!Ended, ShellTyped, ParserType
    <3>2. QED BY <1>5, <2>1, <3>1, EndedType, LineGoesOn DEF Parser!scriptRun
  <2>2. CASE /\ parser' = [parser EXCEPT !.word = Scripts[parser.word][1],
                              !.stack = Parser!Opened(parser.word, @)]
             /\ open' = open + 1
    <3>1. [script |-> parser.word, next |-> 2] \in Frame
      BY <1>5 DEF Parser!scriptRun, Frame
    <3> DEFINE st == <<[script |-> parser.word, next |-> 2]>> \o parser.stack
    <3>2. st \in Seq(Frame) /\ Len(st) = Len(parser.stack) + 1
      BY <3>1 DEF ShellTyped, ParserType
    <3>3. Scripts[parser.word][1] \in AnyWord
      BY <1>5 DEF Parser!scriptRun, AnyWord
    <3>4. parser' = [parser EXCEPT !.word = Scripts[parser.word][1], !.stack = st]
      BY <2>2 DEF ShellTyped, ParserType, Parser!Opened
    <3> HIDE DEF st
    <3>5. /\ parser' \in ParserType
          /\ parser'.at = "run" /\ parser'.stack = st /\ parser.at = "run"
      BY <1>5, <3>2, <3>3, <3>4 DEF Parser!scriptRun, ShellTyped, ParserType
    <3>6. ~failed /\ open \in Nat /\ Len(parser.stack) \in Nat
      BY <3>5 DEF ShellTyped, ParserType
    <3>7. ShellTyped'
      BY <1>5, <2>2, <3>5, <3>6 DEF Parser!scriptRun, Parser!clients, Parser!box, ShellTyped, ParserType
    <3>8. FilesOfScripts'
      BY <1>5, <2>2, <3>2, <3>5, <3>6 DEF Parser!scriptRun
    <3>9. QED
      BY <1>5, <3>5, <3>6, <3>7, <3>8 DEF Parser!scriptRun, Parser!ErrorStops
  <2>3. QED BY <1>5, <2>1, <2>2 DEF Parser!scriptRun
<1>6. CASE Parser!shellParse
  <2>1. /\ UNCHANGED <<Parser!clients, Parser!box, open>> /\ parser.at = "run"
    BY <1>6 DEF Parser!shellParse
  <2>2. ASSUME NEW r \in {"ok", "error", "exit"}, Parser!Ended(r), UNCHANGED <<faults, failed>>
        PROVE  ScriptInv' /\ Parser!ErrorStops
    BY <2>1, <2>2, EndedType, LineGoesOn
  <2>3. CASE parser' = [parser EXCEPT !.at = "wait"] /\ UNCHANGED <<faults, failed>>
    <3>1. parser' \in ParserType /\ parser'.stack = parser.stack /\ parser'.at = "wait"
      BY <2>3 DEF ShellTyped, ParserType
    <3>2. QED BY <2>1, <2>3, <3>1, LineGoesOn
  <2>4. CASE parser' = [parser EXCEPT !.at = "fault"] /\ faults' = TRUE /\ UNCHANGED failed
    BY <2>1, <2>4 DEF Parser!clients, Parser!box, ShellTyped, ParserType, Parser!ErrorStops
  <2>5. QED BY <1>6, <2>2, <2>3, <2>4 DEF Parser!shellParse
<1>7. CASE Parser!custom_cmd
  <2>1. Custom \in AnyWord
    BY DEF AnyWord
  <2>2. parser' \in ParserType /\ parser'.stack = parser.stack /\ parser'.at = "run"
    BY <1>7, <2>1 DEF Parser!custom_cmd, ShellTyped, ParserType
  <2>3. QED BY <1>7, <2>2, LineGoesOn DEF Parser!custom_cmd
<1>8. CASE Parser!Unblock
  BY <1>8, EndedType, LineGoesOn DEF Parser!Unblock
<1>9. CASE Parser!longjmp
  <2>1. \/ parser' = [at |-> "receive", word |-> Parser!Garbage, stack |-> <<>>, ret |-> "error"]
        \/ parser' = [parser EXCEPT !.at = "lost"]
    BY <1>9 DEF Parser!longjmp, Parser!Recovered, Parser!Idle
  <2>2. Parser!Garbage \in AnyWord /\ <<>> \in Seq(Frame) /\ Len(parser.stack) \in Nat
        /\ Len(<<>>) = 0
    BY DEF AnyWord, ShellTyped, ParserType
  <2>3. /\ parser.at = "fault" /\ UNCHANGED <<Parser!clients, Parser!box, open, failed, faults>>
    BY <1>9 DEF Parser!longjmp
  <2>4. CASE parser' = [at |-> "receive", word |-> Parser!Garbage, stack |-> <<>>, ret |-> "error"]
    BY <2>2, <2>3, <2>4 DEF Parser!clients, Parser!box, ShellTyped, ParserType, Parser!ErrorStops
  <2>5. CASE parser' = [parser EXCEPT !.at = "lost"]
    BY <2>2, <2>3, <2>5 DEF Parser!clients, Parser!box, ShellTyped, ParserType, Parser!ErrorStops
  <2>6. QED BY <2>1, <2>4, <2>5
<1>10. CASE Parser!scriptNext
  <2> DEFINE top == Head(parser.stack)
  <2>1. /\ parser.at = "end" /\ failed' = (failed \/ parser.ret # "ok")
        /\ UNCHANGED <<Parser!clients, Parser!box, faults>>
    BY <1>10 DEF Parser!scriptNext
  <2>2. /\ top \in Frame /\ Tail(parser.stack) \in Seq(Frame)
        /\ Len(parser.stack) \in Nat \ {0} /\ Len(Tail(parser.stack)) = Len(parser.stack) - 1
    BY <1>10 DEF Parser!scriptNext, ShellTyped, ParserType
  <2>3. CASE /\ parser.ret = "ok" /\ top.next <= Len(Scripts[top.script])
             /\ parser' = [parser EXCEPT !.at = "run", !.word = Scripts[top.script][top.next],
                              !.stack = <<[top EXCEPT !.next = @ + 1]>> \o Tail(@)]
             /\ UNCHANGED open
    <3>1. [top EXCEPT !.next = @ + 1] \in Frame
      BY <2>2 DEF Frame
    <3> DEFINE st == <<[top EXCEPT !.next = @ + 1]>> \o Tail(parser.stack)
    <3>2. st \in Seq(Frame) /\ Len(st) = Len(parser.stack)
      BY <2>2, <3>1
    <3>3. Scripts[top.script][top.next] \in AnyWord
      BY <2>2 DEF AnyWord, Frame
    <3>4. parser' = [parser EXCEPT !.at = "run", !.word = Scripts[top.script][top.next], !.stack = st]
      BY <2>3 DEF ShellTyped, ParserType
    <3> HIDE DEF st, top
    <3>5. ~failed /\ ~failed'
      BY <2>1, <2>3
    <3>6. QED
      BY <2>1, <2>3, <3>2, <3>3, <3>4, <3>5 DEF Parser!clients, Parser!box, ShellTyped, ParserType, Parser!ErrorStops
  <2>4. CASE /\ parser.ret # "ok" \/ top.next > Len(Scripts[top.script])
             /\ parser' = [parser EXCEPT !.stack = Tail(@), !.ret = @]
             /\ open' = open - 1
    <3>1. /\ parser'.at = "end" /\ parser'.ret = parser.ret /\ parser'.stack = Tail(parser.stack)
          /\ parser' \in ParserType
      BY <2>1, <2>2, <2>4 DEF ShellTyped, ParserType
    <3> HIDE DEF top
    <3>2. open \in Nat /\ open >= Len(parser.stack)
      BY DEF ShellTyped, ParserType
    <3>3. ShellTyped'
      BY <2>1, <2>2, <2>4, <3>1, <3>2 DEF Parser!clients, Parser!box, ShellTyped, ParserType
    <3>4. FilesOfScripts'
      BY <2>1, <2>2, <2>4, <3>1, <3>2
    <3>5. failed' => parser.ret # "ok"
      BY <2>1
    <3>6. QED
      BY <3>1, <3>3, <3>4, <3>5 DEF Parser!ErrorStops
  <2>5. QED BY <1>10, <2>3, <2>4 DEF Parser!scriptNext, Parser!Outcome, Parser!Closed
<1>11. CASE Parser!Done
  <2>1. parser' = [at |-> "receive", word |-> Parser!Garbage, stack |-> <<>>, ret |-> parser.ret]
    BY <1>11 DEF Parser!Done, Parser!Idle
  <2>2. Parser!Garbage \in AnyWord /\ <<>> \in Seq(Frame) /\ Len(<<>>) = 0
    BY DEF AnyWord
  <2>3. parser.ret \in {"ok", "error", "exit"}
    BY DEF ShellTyped, ParserType
  <2>4. parser' \in ParserType
    BY <2>1, <2>2, <2>3 DEF ParserType
  <2>5. ShellTyped'
    BY <1>11, <2>4 DEF Parser!Done, Parser!clients, Parser!box, ShellTyped, ParserType
  <2>6. parser'.at = "receive" /\ parser'.stack = <<>> /\ parser.stack = <<>>
    BY <1>11, <2>1 DEF Parser!Done
  <2>7. FilesOfScripts' /\ OnItsWayOut'
    BY <1>11, <2>6 DEF Parser!Done
  <2>8. QED BY <2>5, <2>6, <2>7 DEF Parser!ErrorStops
<1>12. CASE UNCHANGED shellVars
  BY <1>12 DEF shellVars, ShellTyped, ParserType
<1> HIDE DEF ScriptInv, FilesOfScripts, OnItsWayOut
<1>13. QED
  BY <1>1, <1>2, <1>3, <1>4, <1>5, <1>6, <1>7, <1>8, <1>9, <1>10, <1>11, <1>12
     DEF Parser!Next, Parser!Parse

\* One that is certain follows only certain ones.
LEMMA CertainUp ==
  ASSUME ShellTyped
  PROVE  \A n, m \in Nat : m <= n /\ Certain(n, overtaken) => Certain(m, overtaken)
BY DEF Certain, ShellTyped

\* A message is sent: the line joins those in the box.
LEMMA SendStepOK ==
  ASSUME ShellInv, ShellTyped', NEW c \in Client, NEW w \in Words, Parser!psplinkParseCommand(c, w)
  PROVE  BoxInOrder' /\ Parser!ProcessesLines'
<1> DEFINE k == Len(taken)
           l == Len(mbx)
<1>1. /\ at[c] = "typing" /\ at' = [at EXCEPT ![c] = "sent"]
      /\ typed' = Append(typed, w) /\ sent' = [sent EXCEPT ![c] = Len(typed')]
      /\ mbx' = Append(mbx, c) \/ (c \in Parser!Range(mbx) /\ mbx' = mbx)
      /\ UNCHANGED <<taken, overtaken>>
  BY DEF Parser!psplinkParseCommand
<1>2. /\ k \in Nat /\ l \in Nat /\ Len(typed) \in Nat /\ Len(typed') = Len(typed) + 1
      /\ \A i \in 1 .. Len(typed) : typed'[i] = typed[i]
      /\ \A d \in Client : d # c => at'[d] = at[d] /\ sent'[d] = sent[d]
      /\ at'[c] = "sent" /\ sent'[c] = Len(typed) + 1
      /\ DOMAIN mbx = 1 .. l /\ \A i \in 1 .. l : mbx[i] \in Client
      /\ DOMAIN taken = 1 .. k
  <2>1. typed \in Seq(AnyWord) /\ mbx \in Seq(Client) /\ taken \in Seq(AnyWord) /\ w \in AnyWord
    BY DEF ShellInv, ScriptInv, ShellTyped, AnyWord
  <2>2. /\ Len(typed) \in Nat /\ Len(typed') = Len(typed) + 1
        /\ \A i \in 1 .. Len(typed) : typed'[i] = typed[i]
    BY <1>1, <2>1, Longer
  <2>3. /\ k \in Nat /\ l \in Nat /\ DOMAIN mbx = 1 .. l /\ \A i \in 1 .. l : mbx[i] \in Client
        /\ DOMAIN taken = 1 .. k
    BY <2>1
  <2>4. /\ \A d \in Client : d # c => at'[d] = at[d] /\ sent'[d] = sent[d]
        /\ at'[c] = "sent" /\ sent'[c] = Len(typed) + 1
    BY <1>1, <2>2 DEF ShellInv, ScriptInv, ShellTyped
  <2>5. QED BY <2>2, <2>3, <2>4
<1> HIDE DEF k, l
<1>3. \A n, m \in Nat : m <= n /\ Certain(n, overtaken) => Certain(m, overtaken)
  BY CertainUp DEF ShellInv, ScriptInv
<1>4. Parser!ProcessesLines'
  BY <1>1, <1>2 DEF ShellInv, Parser!ProcessesLines
<1>5. \A i \in 1 .. l : Certain(k + i, overtaken) =>
        k + i <= Len(typed) /\ mbx[i] # c /\ at[mbx[i]] = "sent" /\ sent[mbx[i]] = k + i
  BY <1>1, <1>2 DEF ShellInv, BoxInOrder, k
<1>6. CASE mbx' = Append(mbx, c)
  <2>1. /\ Len(mbx') = l + 1 /\ DOMAIN mbx' = 1 .. l + 1 /\ mbx'[l + 1] = c
        /\ \A i \in 1 .. l : mbx'[i] = mbx[i]
    <3>1. mbx \in Seq(Client)
      BY DEF ShellInv, ScriptInv, ShellTyped
    <3>2. QED BY <1>6, <3>1, Longer DEF l
  <2>2. Certain(k + l + 1, overtaken) => Len(typed) = k + l
    <3>1. Certain(k + l + 1, overtaken) => Certain(k + l, overtaken)
      <4>1. k + l \in Nat /\ k + l + 1 \in Nat /\ k + l <= k + l + 1
        BY <1>2
      <4>2. QED BY <1>3, <4>1
    <3>2. Certain(k + l, overtaken) => Len(typed) = k + l
      BY DEF ShellInv, BoxInOrder, k, l
    <3>3. QED BY <3>1, <3>2
  <2>3. ASSUME NEW i \in DOMAIN mbx', Certain(k + i, overtaken)
        PROVE  k + i <= Len(typed') /\ at'[mbx'[i]] = "sent" /\ sent'[mbx'[i]] = k + i
    <3>1. CASE i \in 1 .. l
      <4>1. k + i <= Len(typed) /\ mbx[i] # c /\ at[mbx[i]] = "sent" /\ sent[mbx[i]] = k + i
        BY <1>5, <2>3, <3>1
      <4>2. mbx'[i] = mbx[i] /\ mbx[i] \in Client
        BY <1>2, <2>1, <3>1
      <4>3. k + i <= Len(typed')
        BY <1>2, <3>1, <4>1
      <4>4. QED BY <1>2, <4>1, <4>2, <4>3
    <3>2. CASE i = l + 1
      <4>1. k + i = k + l + 1
        BY <1>2, <3>2
      <4>2. Certain(k + l + 1, overtaken)
        BY <2>3, <4>1
      <4>3. Len(typed) + 1 = k + i /\ mbx'[i] = c
        BY <2>1, <2>2, <3>2, <4>1, <4>2
      <4>4. QED BY <1>2, <4>3
    <3>3. QED BY <2>1, <3>1, <3>2, <1>2
  <2>4. Certain(k + Len(mbx'), overtaken) => Len(typed') = k + Len(mbx')
    <3>1. k + Len(mbx') = k + l + 1
      BY <1>2, <2>1
    <3>2. QED BY <1>2, <2>2, <3>1
  <2>5. taken' = taken /\ overtaken' = overtaken
    BY <1>1
  <2>6. QED BY <1>4, <2>3, <2>4, <2>5 DEF BoxInOrder, k
<1>7. CASE c \in Parser!Range(mbx) /\ mbx' = mbx
  <2>1. PICK j \in 1 .. l : mbx[j] = c
    BY <1>2, <1>7 DEF Parser!Range
  <2>2. ~Certain(k + l, overtaken)
    <3>1. ~Certain(k + j, overtaken)
      BY <1>5, <2>1
    <3>2. k + j \in Nat /\ k + l \in Nat /\ k + j <= k + l
      BY <1>2
    <3>3. QED BY <1>3, <3>1, <3>2
  <2>3. taken' = taken /\ overtaken' = overtaken /\ mbx' = mbx
    BY <1>1, <1>7
  <2>4. ASSUME NEW i \in DOMAIN mbx, Certain(k + i, overtaken)
        PROVE  k + i <= Len(typed') /\ at'[mbx[i]] = "sent" /\ sent'[mbx[i]] = k + i
    <3>1. k + i <= Len(typed) /\ mbx[i] # c /\ at[mbx[i]] = "sent" /\ sent[mbx[i]] = k + i
          /\ mbx[i] \in Client /\ i \in Nat
      BY <1>2, <1>5, <2>4
    <3>2. QED BY <1>2, <3>1
  <2>5. QED BY <1>4, <2>2, <2>3, <2>4 DEF BoxInOrder, k, l
<1>8. QED BY <1>1, <1>6, <1>7

\* A sender goes on: if its message is still in the box, its line is not certain from
\* there on.
LEMMA ReturnStepOK ==
  ASSUME ShellInv, ShellTyped', NEW c \in Client, Parser!Return(c)
  PROVE  BoxInOrder' /\ Parser!ProcessesLines'
<1> DEFINE k == Len(taken)
           l == Len(mbx)
<1>1. /\ at' = [at EXCEPT ![c] = "typing"]
      /\ overtaken' = IF c \in Parser!Range(mbx) THEN overtaken \cup {sent[c]} ELSE overtaken
      /\ UNCHANGED <<mbx, taken, typed, sent>>
  BY DEF Parser!Return
<1>2. /\ k \in Nat /\ l \in Nat /\ DOMAIN mbx = 1 .. l /\ \A i \in 1 .. l : mbx[i] \in Client
      /\ \A d \in Client : d # c => at'[d] = at[d]
  <2>1. mbx \in Seq(Client) /\ taken \in Seq(AnyWord) /\ at \in [Client -> {"typing", "sent"}]
    BY DEF ShellInv, ScriptInv, ShellTyped
  <2>2. QED BY <1>1, <2>1
<1> HIDE DEF k, l
<1>3. /\ overtaken \subseteq overtaken'
      /\ \A n \in Nat : Certain(n, overtaken') => Certain(n, overtaken)
      /\ \A n, m \in Nat : m <= n /\ Certain(n, overtaken) => Certain(m, overtaken)
  <2>1. overtaken \subseteq overtaken'
    BY <1>1
  <2>2. QED BY <2>1, CertainUp DEF Certain, ShellInv, ScriptInv
<1>4. Parser!ProcessesLines'
  BY <1>1, <1>3 DEF ShellInv, Parser!ProcessesLines
<1>5. \A i \in 1 .. l : Certain(k + i, overtaken) =>
        k + i <= Len(typed) /\ at[mbx[i]] = "sent" /\ sent[mbx[i]] = k + i
  BY <1>2 DEF ShellInv, BoxInOrder, k
<1>6. ASSUME NEW j \in 1 .. l, mbx[j] = c, NEW n \in Nat, k + j <= n
      PROVE  ~Certain(n, overtaken')
  <2>1. c \in Parser!Range(mbx)
    BY <1>2, <1>6 DEF Parser!Range
  <2>2. sent[c] \in overtaken' /\ overtaken \subseteq overtaken'
    BY <1>1, <2>1
  <2>3. CASE Certain(k + j, overtaken)
    <3>1. sent[c] = k + j
      BY <1>5, <1>6, <2>3
    <3>2. QED BY <1>2, <1>6, <2>2, <3>1 DEF Certain
  <2>4. CASE ~Certain(k + j, overtaken)
    <3>1. k + j \in Nat /\ n \in Nat
      BY <1>2, <1>6
    <3>2. QED BY <1>3, <1>6, <2>4, <3>1
  <2>5. QED BY <2>3, <2>4
<1>7. ASSUME NEW i \in 1 .. l, Certain(k + i, overtaken')
      PROVE  k + i <= Len(typed) /\ at'[mbx[i]] = "sent" /\ sent[mbx[i]] = k + i
  <2>1. Certain(k + i, overtaken)
    <3>1. k + i \in Nat
      BY <1>2
    <3>2. QED BY <1>3, <1>7, <3>1
  <2>2. mbx[i] # c
    <3>1. k + i \in Nat /\ k + i <= k + i
      BY <1>2
    <3>2. QED BY <1>6, <1>7, <3>1
  <2>3. k + i <= Len(typed) /\ at[mbx[i]] = "sent" /\ sent[mbx[i]] = k + i /\ mbx[i] \in Client
    BY <1>2, <1>5, <2>1
  <2>4. QED BY <1>2, <2>2, <2>3
<1>8. Certain(k + l, overtaken') => Len(typed) = k + l
  <2>1. k + l \in Nat
    BY <1>2
  <2>2. Certain(k + l, overtaken) => Len(typed) = k + l
    BY DEF ShellInv, BoxInOrder, k, l
  <2>3. QED BY <1>3, <2>1, <2>2
<1>9. mbx' = mbx /\ taken' = taken /\ typed' = typed /\ sent' = sent
  BY <1>1
<1>10. QED BY <1>2, <1>4, <1>7, <1>8, <1>9 DEF BoxInOrder, k, l

\* The first message is taken.
LEMMA ReceiveStepOK ==
  ASSUME ShellInv, ShellTyped', Parser!Receive
  PROVE  BoxInOrder' /\ Parser!ProcessesLines'
<1> DEFINE k == Len(taken)
           l == Len(mbx)
<1>1. PICK w \in Parser!Message(Head(mbx)) : taken' = Append(taken, w)
  BY DEF Parser!Receive
<1>2. /\ mbx # <<>> /\ mbx' \in Parser!Behind(Head(mbx))
      /\ UNCHANGED <<at, sent, typed, overtaken>>
  BY DEF Parser!Receive, Parser!clients
<1>3. /\ k \in Nat /\ l \in Nat /\ l > 0 /\ Head(mbx) = mbx[1] /\ DOMAIN mbx = 1 .. l
      /\ Len(taken') = k + 1 /\ DOMAIN taken' = 1 .. k + 1 /\ taken'[k + 1] = w
      /\ \A i \in 1 .. k : taken'[i] = taken[i]
      /\ DOMAIN taken = 1 .. k /\ Len(typed) \in Nat
  <2>1. mbx \in Seq(Client) /\ taken \in Seq(AnyWord) /\ typed \in Seq(AnyWord)
        /\ taken' \in Seq(AnyWord)
    BY DEF ShellInv, ScriptInv, ShellTyped
  <2>2. l \in Nat /\ l > 0 /\ Head(mbx) = mbx[1] /\ DOMAIN mbx = 1 .. l
    BY <1>2, <2>1, Shorter
  <2>3. /\ k \in Nat /\ Len(taken') = k + 1 /\ DOMAIN taken' = 1 .. k + 1 /\ taken'[k + 1] = w
        /\ \A i \in 1 .. k : taken'[i] = taken[i]
        /\ DOMAIN taken = 1 .. k /\ Len(typed) \in Nat
    BY <1>1, <2>1
  <2>4. QED BY <2>2, <2>3
<1>4. mbx' = Tail(mbx) \/ mbx' = <<>>
  BY <1>2 DEF Parser!Behind
<1>5. /\ Len(mbx') \in Nat /\ DOMAIN mbx' = 1 .. Len(mbx')
      /\ mbx' = Tail(mbx) => Len(mbx') = l - 1 /\ \A i \in 1 .. l - 1 : mbx'[i] = mbx[i + 1]
  <2>1. mbx \in Seq(Client)
    BY DEF ShellInv, ScriptInv, ShellTyped
  <2>2. CASE mbx' = Tail(mbx)
    BY <1>2, <2>1, <2>2, Shorter
  <2>3. CASE mbx' = <<>> /\ mbx' # Tail(mbx)
    <3>1. Len(mbx') = 0 /\ DOMAIN mbx' = 1 .. 0
      BY <2>3
    <3>2. QED BY <2>3, <3>1
  <2>4. QED BY <1>4, <2>2, <2>3
<1> HIDE DEF k, l
<1>6. /\ \A n, m \in Nat : m <= n /\ Certain(n, overtaken) => Certain(m, overtaken)
      /\ overtaken' = overtaken /\ typed' = typed /\ at' = at /\ sent' = sent
  BY <1>2, CertainUp DEF ShellInv, ScriptInv
<1>7. CASE Certain(k + 1, overtaken)
  <2>1. at[mbx[1]] = "sent" /\ sent[mbx[1]] = k + 1 /\ k + 1 <= Len(typed)
    BY <1>3, <1>7 DEF ShellInv, BoxInOrder, k
  <2>2. w = typed[k + 1] /\ mbx' = Tail(mbx)
    BY <1>1, <1>2, <1>3, <2>1 DEF Parser!Message, Parser!Behind
  <2>3. Parser!ProcessesLines'
    BY <1>2, <1>3, <2>1, <2>2 DEF ShellInv, Parser!ProcessesLines
  <2>7. Len(mbx') = l - 1 /\ DOMAIN mbx' = 1 .. l - 1 /\ \A i \in 1 .. l - 1 : mbx'[i] = mbx[i + 1]
    <3>1. Len(mbx') = l - 1 /\ DOMAIN mbx' = 1 .. Len(mbx')
      BY <1>5, <2>2, Zenon
    <3>2. \A i \in 1 .. l - 1 : mbx'[i] = mbx[i + 1]
      BY <1>5, <2>2, Zenon
    <3>3. DOMAIN mbx' = 1 .. l - 1
      BY <3>1, Zenon
    <3>4. QED BY <3>1, <3>2, <3>3, Zenon
  <2>4. ASSUME NEW i \in DOMAIN mbx', Certain(k + 1 + i, overtaken)
        PROVE  /\ k + 1 + i <= Len(typed)
               /\ at[mbx'[i]] = "sent" /\ sent[mbx'[i]] = k + 1 + i
    <3>1. i \in 1 .. l - 1 /\ i + 1 \in 1 .. l /\ mbx'[i] = mbx[i + 1] /\ k + (i + 1) = k + 1 + i
      <4>1. i \in 1 .. l - 1
        BY <2>4, <2>7, Zenon
      <4>2. i + 1 \in 1 .. l /\ k + (i + 1) = k + 1 + i
        BY <1>3, <4>1
      <4>3. mbx'[i] = mbx[i + 1]
        BY <2>7, <4>1, Zenon
      <4>4. QED BY <4>1, <4>2, <4>3
    <3>2. Certain(k + (i + 1), overtaken)
      BY <2>4, <3>1
    <3>3. /\ k + (i + 1) <= Len(typed)
          /\ at[mbx[i + 1]] = "sent" /\ sent[mbx[i + 1]] = k + (i + 1)
      BY <1>3, <3>1, <3>2 DEF ShellInv, BoxInOrder, k
    <3>4. QED BY <3>1, <3>3
  <2>5. Certain(k + 1 + Len(mbx'), overtaken) => Len(typed) = k + 1 + Len(mbx')
    <3>1. k + 1 + Len(mbx') = k + l
      BY <1>3, <2>7
    <3>2. Certain(k + l, overtaken) => Len(typed) = k + l
      BY DEF ShellInv, BoxInOrder, k, l
    <3>3. QED BY <3>1, <3>2
  <2>6. QED BY <1>3, <1>6, <2>3, <2>4, <2>5 DEF BoxInOrder
<1>8. CASE ~Certain(k + 1, overtaken)
  <2>1. \A n \in Nat : n >= k + 1 => ~Certain(n, overtaken)
    <3>1. k + 1 \in Nat
      BY <1>3
    <3>2. QED BY <1>6, <1>8, <3>1
  <2>2. \A i \in DOMAIN taken' : Certain(i, overtaken) => i \in 1 .. k
    BY <1>3, <2>1
  <2>3. Parser!ProcessesLines'
    BY <1>3, <1>6, <2>2 DEF ShellInv, Parser!ProcessesLines, Certain
  <2>4. \A i \in DOMAIN mbx' : ~Certain(k + 1 + i, overtaken)
    <3>1. \A i \in DOMAIN mbx' : k + 1 + i \in Nat /\ k + 1 + i >= k + 1
      BY <1>3, <1>5
    <3>2. QED BY <2>1, <3>1
  <2>5. ~Certain(k + 1 + Len(mbx'), overtaken)
    <3>1. k + 1 + Len(mbx') \in Nat /\ k + 1 + Len(mbx') >= k + 1
      BY <1>3, <1>5
    <3>2. QED BY <2>1, <3>1
  <2>6. QED BY <1>3, <1>6, <2>3, <2>4, <2>5 DEF BoxInOrder
<1>9. QED BY <1>7, <1>8

\* A step keeps the box and what was taken in order.
LEMMA MessageStep ==
  ASSUME ShellInv, ShellTyped', [Parser!Next]_shellVars
  PROVE  BoxInOrder' /\ Parser!ProcessesLines'
<1>1. CASE UNCHANGED <<Parser!clients, Parser!box>>
  BY <1>1 DEF ShellInv, BoxInOrder, Certain, Parser!ProcessesLines, Parser!clients, Parser!box
<1>2. CASE UNCHANGED shellVars
  BY <1>1, <1>2 DEF shellVars, Parser!clients, Parser!box
<1>3. QED
  BY <1>1, <1>2, SendStepOK, ReturnStepOK, ReceiveStepOK
     DEF Parser!Next, Parser!Parse, Parser!shellParseTty, Parser!scriptRun, Parser!shellParse,
         Parser!custom_cmd, Parser!Unblock, Parser!longjmp, Parser!scriptNext, Parser!Done

\* shellParseThread, scriptRun: up to the first line whose sender went on before it was
\* taken, the lines run are the lines entered, in their order, whoever entered them and
\* with whatever priority, and however many wait; scripts, the startup script too, stop
\* at their first failing line and their files are closed.  For every number of
\* clients, table of commands and set of scripts.
THEOREM ShellRunsLines == Parser!Spec => LinesRun
<1>1. Parser!Init => ShellInv
  <2> SUFFICES ASSUME Parser!Init PROVE ShellInv
    OBVIOUS
  <2>1. Parser!Garbage \in AnyWord
    BY DEF AnyWord
  <2>2. ASSUME parser = Parser!Idle, open = 0
        PROVE  parser \in ParserType /\ open \in Nat /\ FilesOfScripts
    <3>1. parser = [at |-> "receive", word |-> Parser!Garbage, stack |-> <<>>, ret |-> "ok"]
      BY <2>2 DEF Parser!Idle
    <3>2. parser \in ParserType /\ Len(<<>>) = 0
      BY <2>1, <3>1 DEF ParserType
    <3>3. QED BY <2>2, <3>1, <3>2 DEF FilesOfScripts
  <2>3. ASSUME NEW s \in Startups, open = 1,
               parser = [Parser!Idle EXCEPT !.at = "run", !.word = Scripts[s][1],
                                            !.stack = Parser!Opened(s, <<>>)]
        PROVE  parser \in ParserType /\ open \in Nat /\ FilesOfScripts
    <3>1. s \in DOMAIN Scripts
      BY ConsolesAssumption DEF Parser!ShellAssumption
    <3>2. Scripts[s][1] \in AnyWord
      BY <3>1 DEF AnyWord
    <3>3. [script |-> s, next |-> 2] \in Frame
      BY <3>1 DEF Frame
    <3>4. Parser!Opened(s, <<>>) \in Seq(Frame) /\ Len(Parser!Opened(s, <<>>)) = 1
      BY <3>3 DEF Parser!Opened
    <3> DEFINE st == Parser!Opened(s, <<>>)
    <3>5. parser = [at |-> "run", word |-> Scripts[s][1], stack |-> st, ret |-> "ok"]
      BY <2>3 DEF Parser!Idle
    <3>6. st \in Seq(Frame) /\ Len(st) = 1
      BY <3>4
    <3> HIDE DEF st
    <3>7. parser \in ParserType
      BY <3>2, <3>5, <3>6 DEF ParserType
    <3>8. parser.at = "run" /\ parser.stack = st
      BY <3>5
    <3>9. QED BY <2>3, <3>6, <3>7, <3>8 DEF FilesOfScripts
  <2>4. parser \in ParserType /\ open \in Nat /\ FilesOfScripts
    <3>1. \/ parser = Parser!Idle /\ open = 0
          \/ \E s \in Startups :
               /\ parser = [Parser!Idle EXCEPT !.at = "run", !.word = Scripts[s][1],
                                               !.stack = Parser!Opened(s, <<>>)]
               /\ open = 1
      BY DEF Parser!Init
    <3>2. QED BY <2>2, <2>3, <3>1
  <2>5. /\ mbx \in Seq(Client) /\ typed \in Seq(AnyWord) /\ taken \in Seq(AnyWord)
        /\ DOMAIN mbx = {} /\ DOMAIN taken = {} /\ Len(mbx) = 0 /\ Len(typed) = 0 /\ Len(taken) = 0
    <3>1. mbx = <<>> /\ typed = <<>> /\ taken = <<>>
      BY DEF Parser!Init
    <3>2. QED BY <3>1
  <2>6. ShellTyped
    <3>1. /\ at = [c \in Client |-> "typing"] /\ sent = [c \in Client |-> 0] /\ overtaken = {}
      BY DEF Parser!Init
    <3>2. QED BY <2>4, <2>5, <3>1 DEF ShellTyped
  <2>7. OnItsWayOut /\ BoxInOrder /\ Parser!ProcessesLines
    <3>1. failed = FALSE
      BY DEF Parser!Init
    <3>2. OnItsWayOut
      BY <3>1 DEF OnItsWayOut
    <3>3. QED BY <2>5, <3>2 DEF BoxInOrder, Parser!ProcessesLines
  <2>8. QED BY <2>4, <2>6, <2>7 DEF ShellInv, ScriptInv
<1>2. ShellInv /\ [Parser!Next]_shellVars => ShellInv' /\ [Parser!ErrorStops]_shellVars
  BY ScriptStep, MessageStep DEF ShellInv, ScriptInv
<1>3. ShellInv => Parser!TypeOK /\ Parser!ProcessesLines /\ Parser!ScriptsClosed
  <2> SUFFICES ASSUME ShellInv PROVE Parser!TypeOK /\ Parser!ScriptsClosed
    BY DEF ShellInv
  <2>1. parser.stack \in Seq(Frame) /\ \A f \in Frame : f.script \in DOMAIN Scripts
    BY DEF ShellInv, ScriptInv, ShellTyped, ParserType, Frame
  <2>2. \A i \in DOMAIN parser.stack : parser.stack[i].script \in DOMAIN Scripts
    BY <2>1
  <2>3. QED
    BY <2>2 DEF ShellInv, ScriptInv, ShellTyped, ParserType, FilesOfScripts, Parser!TypeOK, Parser!ScriptsClosed
<1>4. QED BY <1>1, <1>2, <1>3, PTL DEF Parser!Spec, Parser!vars, shellVars, LinesRun

-----------------------------------------------------------------------------
(* The line editor: CliEditor. *)

CliPos  == 0 .. (CLI_MAX - 1)
CliSlot == 0 .. (CLI_HISTSIZE - 1)
CliBuf  == [CliPos -> Chars \cup {0}]

\* The string in buf has n characters.
EndsAt(buf, n) == n \in CliPos /\ buf[n] = 0 /\ \A q \in 0 .. (n - 1) : buf[q] # 0

\* String reads a buffer up to the first 0.
LEMMA StringIs ==
  ASSUME NEW buf, NEW n, EndsAt(buf, n)
  PROVE  Editor!String(buf) = [i \in 1 .. n |-> buf[i - 1]]
<1> DEFINE P(m) == buf[m] = 0 /\ \A q \in 0 .. (m - 1) : buf[q] # 0
           size == CHOOSE m \in CliPos : P(m)
<1>1. \E m \in CliPos : P(m)
  BY DEF EndsAt
<1>2. size \in CliPos /\ P(size)
  BY <1>1
<1>3. size = n
  <2>1. n \in Nat /\ size \in Nat
    BY <1>2, ConsolesAssumption DEF EndsAt, CliPos, Editor!EditorAssumption
  <2>2. P(size) /\ P(n)
    BY <1>2 DEF EndsAt
  <2> HIDE DEF size
  <2>3. ~(size < n) /\ ~(n < size)
    BY <2>1, <2>2
  <2>4. QED BY <2>1, <2>3
<1>4. Editor!String(buf) = [i \in 1 .. size |-> buf[i - 1]]
  BY DEF Editor!String, Editor!Pos, CliPos
<1>5. QED BY <1>3, <1>4

\* What is on the screen are the characters before g_cli_pos; every line of the
\* ring has an end, and the ring holds the last lines entered.
EditorInv ==
  /\ Editor!TypeOK
  /\ seen \in Seq(Chars) /\ Len(seen) = g_cli_pos
  /\ \A i \in 1 .. g_cli_pos : g_cli[i - 1] = seen[i]
  /\ g_lastcli \in [CliSlot -> CliBuf]
  /\ \A s \in CliSlot : \E n \in CliPos : EndsAt(g_lastcli[s], n)
  /\ entered \in Seq(Seq(Chars))
  /\ Editor!RingHoldsLast

\* The line process_cli takes is the one on the screen.
LEMMA TakenIsSeen ==
  ASSUME EditorInv
  PROVE  /\ Editor!Ending \in CliBuf
         /\ EndsAt(Editor!Ending, g_cli_pos)
         /\ Editor!String(Editor!Ending) = seen
<1> USE ConsolesAssumption DEF Editor!EditorAssumption
<1>1. /\ g_cli \in CliBuf /\ g_cli_pos \in CliPos /\ g_cli_pos \in Nat
  BY DEF EditorInv, Editor!TypeOK, Editor!Pos, CliBuf, CliPos
<1>2. Editor!Ending \in CliBuf
  BY <1>1 DEF Editor!Ending, CliBuf
<1>3. \A q \in 0 .. (g_cli_pos - 1) : Editor!Ending[q] = seen[q + 1] /\ seen[q + 1] \in Chars
  <2> TAKE q \in 0 .. (g_cli_pos - 1)
  <2>1. q \in CliPos /\ q # g_cli_pos /\ q + 1 \in 1 .. g_cli_pos
    BY <1>1 DEF CliPos
  <2>2. g_cli[q] = seen[q + 1]
    <3>1. g_cli[(q + 1) - 1] = seen[q + 1]
      BY <2>1 DEF EditorInv
    <3>2. (q + 1) - 1 = q
      BY <2>1 DEF CliPos
    <3>3. QED BY <3>1, <3>2
  <2>3. seen[q + 1] \in Chars
    BY <2>1 DEF EditorInv
  <2>4. QED BY <1>1, <2>1, <2>2, <2>3 DEF Editor!Ending, CliBuf
<1>4. Editor!Ending[g_cli_pos] = 0
  BY <1>1 DEF Editor!Ending, CliBuf
<1>5. EndsAt(Editor!Ending, g_cli_pos)
  BY <1>1, <1>3, <1>4 DEF EndsAt
<1>6. Editor!String(Editor!Ending) = [i \in 1 .. g_cli_pos |-> Editor!Ending[i - 1]]
  BY <1>5, StringIs
<1>7. \A i \in 1 .. g_cli_pos : Editor!Ending[i - 1] = seen[i]
  <2> TAKE i \in 1 .. g_cli_pos
  <2>1. i - 1 \in 0 .. (g_cli_pos - 1) /\ (i - 1) + 1 = i
    BY <1>1
  <2>2. QED BY <1>3, <2>1
<1>8. seen = [i \in 1 .. g_cli_pos |-> seen[i]]
  BY DEF EditorInv
<1>9. QED BY <1>2, <1>5, <1>6, <1>7, <1>8

\* The remainders that occur.
LEMMA RemainderOf ==
  ASSUME NEW h \in Nat \ {0}, NEW a \in 0 .. (2 * h - 1)
  PROVE  a % h = IF a < h THEN a ELSE a - h
<1>1. CASE a < h
  BY <1>1, Z3
<1>2. CASE ~(a < h)
  BY <1>2, Z3
<1>3. QED BY <1>1, <1>2

\* The slots of the last lines, before and after the ring has turned.
LEMMA RingTurns ==
  ASSUME NEW h \in Nat \ {0}, NEW p \in 0 .. (h - 1)
  PROVE  /\ (p + 1) % h \in 0 .. (h - 1)
         /\ (((p + 1) % h) - 1 + h) % h = p
         /\ \A k \in 2 .. h : /\ (((p + 1) % h) - k + h) % h = (p - (k - 1) + h) % h
                              /\ (p - (k - 1) + h) % h # p
                              /\ (p - (k - 1) + h) % h \in 0 .. (h - 1)
<1> DEFINE t == (p + 1) % h
<1>1. t = IF p + 1 < h THEN p + 1 ELSE 0
  <2>1. p + 1 \in 0 .. (2 * h - 1)
    OBVIOUS
  <2>2. t = IF p + 1 < h THEN p + 1 ELSE (p + 1) - h
    BY <2>1, RemainderOf
  <2> HIDE DEF t
  <2>3. QED BY <2>2
<1> HIDE DEF t
<1>2. t \in 0 .. (h - 1)
  BY <1>1
<1>3. (t - 1 + h) % h = p
  <2> DEFINE a == t - 1 + h
  <2>1. a \in 0 .. (2 * h - 1) /\ p = IF a < h THEN a ELSE a - h
    BY <1>1
  <2> HIDE DEF a
  <2>2. a % h = p
    BY <2>1, RemainderOf
  <2>3. QED BY <2>2 DEF a
<1>4. ASSUME NEW k \in 2 .. h
      PROVE  /\ (t - k + h) % h = (p - (k - 1) + h) % h
             /\ (p - (k - 1) + h) % h # p
             /\ (p - (k - 1) + h) % h \in 0 .. (h - 1)
  <2> DEFINE a == t - k + h
             b == p - (k - 1) + h
  <2>1. a \in 0 .. (2 * h - 1) /\ b \in 0 .. (2 * h - 1) /\ (a = b \/ (a = b - h /\ b >= h))
    BY <1>1
  <2>2. b # p /\ b # p + h
    OBVIOUS
  <2> HIDE DEF a, b
  <2>3. a % h = (IF a < h THEN a ELSE a - h) /\ b % h = (IF b < h THEN b ELSE b - h)
    BY <2>1, RemainderOf
  <2> DEFINE x == a % h
             y == b % h
  <2>4. x = (IF a < h THEN a ELSE a - h) /\ y = (IF b < h THEN b ELSE b - h)
    BY <2>3
  <2> HIDE DEF x, y
  <2>5. x = y /\ y # p /\ y \in 0 .. (h - 1)
    BY <2>1, <2>2, <2>4
  <2>6. QED BY <2>5 DEF x, y, a, b
<1>5. QED BY <1>2, <1>3, <1>4 DEF t

\* The line k back is the line k - 1 back before the last was entered.
LEMMA OneFurtherBack ==
  ASSUME NEW h \in Nat, NEW n \in Nat, NEW k \in 1 .. h, k # 1, k <= n + 1
  PROVE  /\ k \in 2 .. h /\ k - 1 \in 1 .. h /\ k - 1 <= n
         /\ (n + 1) - k + 1 = n - (k - 1) + 1
         /\ n - (k - 1) + 1 \in 1 .. n
  OBVIOUS

\* A step preserves the invariant, and a line entered is the one on the screen.
LEMMA EditorStep ==
  ASSUME EditorInv, [Editor!Next]_editorVars
  PROVE  EditorInv' /\ (Editor!EntersWhatIsSeen \/ UNCHANGED editorVars)
<1> USE ConsolesAssumption DEF Editor!EditorAssumption
<1>1. /\ g_cli \in CliBuf /\ g_cli_pos \in CliPos /\ g_cli_pos \in Nat
      /\ g_lastcli_pos \in CliSlot /\ g_currcli_pos \in CliSlot
      /\ seen \in Seq(Chars) /\ Len(seen) = g_cli_pos
      /\ \A i \in 1 .. g_cli_pos : g_cli[i - 1] = seen[i]
      /\ g_lastcli \in [CliSlot -> CliBuf]
      /\ \A s \in CliSlot : \E n \in CliPos : EndsAt(g_lastcli[s], n)
      /\ entered \in Seq(Seq(Chars)) /\ Len(entered) \in Nat
  BY DEF EditorInv, Editor!TypeOK, Editor!Pos, Editor!Slot, CliBuf, CliPos, CliSlot
<1>2. ASSUME NEW c \in Chars, Editor!Type(c)
      PROVE  EditorInv' /\ Editor!EntersWhatIsSeen
  <2>1. /\ UNCHANGED <<g_lastcli, g_lastcli_pos, g_currcli_pos, entered>>
        /\ g_cli_pos' = g_cli_pos + 1 /\ g_cli_pos' \in CliPos
        /\ seen' = Append(seen, c)
        /\ g_cli' = [q \in CliPos |-> IF q = g_cli_pos THEN c
                                      ELSE IF q = g_cli_pos + 1 THEN 0 ELSE g_cli[q]]
    BY <1>1, <1>2 DEF Editor!Type, Editor!Fits, Editor!Typed, Editor!Pos, CliPos
  <2>2. g_cli' \in CliBuf /\ g_cli'[g_cli_pos'] = 0
    BY <1>1, <2>1 DEF CliBuf, CliPos
  <2>3. seen' \in Seq(Chars) /\ Len(seen') = g_cli_pos'
    BY <1>1, <2>1
  <2>4. \A i \in 1 .. g_cli_pos' : g_cli'[i - 1] = seen'[i]
    <3> TAKE i \in 1 .. g_cli_pos'
    <3>1. i - 1 \in CliPos /\ i - 1 # g_cli_pos + 1
      BY <1>1, <2>1 DEF CliPos
    <3>2. CASE i = g_cli_pos + 1
      BY <1>1, <2>1, <3>1, <3>2
    <3>3. CASE i # g_cli_pos + 1
      <4>1. i \in 1 .. g_cli_pos /\ i - 1 # g_cli_pos
        BY <1>1, <2>1, <3>3
      <4>2. seen'[i] = seen[i] /\ g_cli[i - 1] = seen[i]
        BY <1>1, <2>1, <4>1
      <4>3. QED BY <2>1, <3>1, <4>1, <4>2
    <3>4. QED BY <3>2, <3>3
  <2>5. Editor!TypeOK'
    BY <1>1, <2>1, <2>2 DEF Editor!TypeOK, Editor!Pos, Editor!Slot, CliBuf, CliPos, CliSlot
  <2>6. Editor!RingHoldsLast'
    BY <2>1 DEF EditorInv, Editor!RingHoldsLast
  <2>7. EditorInv'
    BY <1>1, <2>1, <2>3, <2>4, <2>5, <2>6 DEF EditorInv
  <2>8. QED BY <1>1, <2>1, <2>7 DEF Editor!EntersWhatIsSeen
<1>3. CASE Editor!Backspace
  <2>1. /\ UNCHANGED <<g_lastcli, g_lastcli_pos, g_currcli_pos, entered>>
        /\ g_cli_pos > 0 /\ g_cli_pos' = g_cli_pos - 1 /\ g_cli_pos' \in CliPos
        /\ seen' = SubSeq(seen, 1, Len(seen) - 1)
        /\ g_cli' = [g_cli EXCEPT ![g_cli_pos - 1] = 0]
    BY <1>1, <1>3 DEF Editor!Backspace, Editor!Front, CliPos
  <2>2. g_cli' \in CliBuf /\ g_cli'[g_cli_pos'] = 0
    BY <1>1, <2>1 DEF CliBuf, CliPos
  <2>3. seen' \in Seq(Chars) /\ Len(seen') = g_cli_pos'
    BY <1>1, <2>1
  <2>4. \A i \in 1 .. g_cli_pos' : g_cli'[i - 1] = seen'[i]
    <3> TAKE i \in 1 .. g_cli_pos'
    <3>1. i - 1 \in CliPos /\ i - 1 # g_cli_pos - 1 /\ i \in 1 .. g_cli_pos
      BY <1>1, <2>1 DEF CliPos
    <3>2. seen'[i] = seen[i]
      BY <1>1, <2>1
    <3>3. QED BY <1>1, <2>1, <3>1, <3>2 DEF CliBuf
  <2>5. Editor!TypeOK'
    BY <1>1, <2>1, <2>2 DEF Editor!TypeOK, Editor!Pos, Editor!Slot, CliBuf, CliPos, CliSlot
  <2>6. Editor!RingHoldsLast'
    BY <2>1 DEF EditorInv, Editor!RingHoldsLast
  <2>7. EditorInv'
    BY <1>1, <2>1, <2>3, <2>4, <2>5, <2>6 DEF EditorInv
  <2>8. QED BY <1>1, <2>1, <2>7 DEF Editor!EntersWhatIsSeen
<1>4. ASSUME NEW s \in CliSlot, Editor!Recall(s)
      PROVE  EditorInv' /\ Editor!EntersWhatIsSeen
  <2>1. PICK n \in CliPos : EndsAt(g_lastcli[s], n)
    BY <1>1
  <2> DEFINE str == [i \in 1 .. n |-> g_lastcli[s][i - 1]]
  <2>2. Editor!String(g_lastcli[s]) = str
    BY <2>1, StringIs
  <2>3. n \in Nat
    BY DEF CliPos
  <2>4. str \in Seq(Chars) /\ Len(str) = n
    <3>1. \A i \in 1 .. n : g_lastcli[s][i - 1] \in Chars
      <4> TAKE i \in 1 .. n
      <4>1. i - 1 \in CliPos /\ i - 1 \in 0 .. (n - 1)
        BY <2>3 DEF CliPos
      <4>2. g_lastcli[s] \in CliBuf
        BY <1>1
      <4>3. QED BY <2>1, <4>1, <4>2 DEF EndsAt, CliBuf
    <3>2. QED BY <2>3, <3>1
  <2>5. \A i \in 1 .. n : str[i] = g_lastcli[s][i - 1]
    OBVIOUS
  <2> HIDE DEF str
  <2>6. /\ UNCHANGED <<g_lastcli, g_lastcli_pos, entered>>
        /\ g_currcli_pos' = s /\ g_cli_pos' = n /\ seen' = str
        /\ g_cli' = [q \in CliPos |-> IF q < n THEN str[q + 1] ELSE IF q = n THEN 0 ELSE g_cli[q]]
    BY <1>4, <2>2, <2>4 DEF Editor!Recall, Editor!Pos, CliPos
  <2>7. \A q \in CliPos : q < n => str[q + 1] \in Chars
    BY <2>3, <2>4 DEF CliPos
  <2>8. g_cli' \in CliBuf /\ g_cli'[n] = 0
    BY <1>1, <2>3, <2>6, <2>7 DEF CliBuf
  <2>9. \A i \in 1 .. n : g_cli'[i - 1] = str[i]
    <3> TAKE i \in 1 .. n
    <3>1. i - 1 \in CliPos /\ i - 1 < n /\ (i - 1) + 1 = i
      BY <2>3 DEF CliPos
    <3>2. QED BY <2>6, <3>1
  <2>10. Editor!TypeOK'
    BY <1>1, <2>6, <2>8 DEF Editor!TypeOK, Editor!Pos, Editor!Slot, CliBuf, CliPos, CliSlot
  <2>11. Editor!RingHoldsLast'
    BY <2>6 DEF EditorInv, Editor!RingHoldsLast
  <2>12. EditorInv'
    BY <1>1, <2>4, <2>6, <2>9, <2>10, <2>11 DEF EditorInv
  <2>13. QED BY <1>1, <2>6, <2>12 DEF Editor!EntersWhatIsSeen
<1>5. CASE Editor!process_cli
  <2> DEFINE turned == (g_lastcli_pos + 1) % CLI_HISTSIZE
  <2>1. /\ g_cli' = Editor!Ending /\ g_cli_pos' = 0
        /\ g_lastcli' = [g_lastcli EXCEPT ![g_lastcli_pos] = g_cli']
        /\ g_lastcli_pos' = turned /\ g_currcli_pos' = turned
        /\ entered' = Append(entered, seen) /\ seen' = <<>>
    BY <1>5, TakenIsSeen DEF Editor!process_cli, Editor!NextSlot
  <2>2. g_cli' \in CliBuf /\ EndsAt(g_cli', g_cli_pos) /\ Editor!String(g_cli') = seen
    BY <2>1, TakenIsSeen
  <2>3. /\ turned \in CliSlot
        /\ (turned - 1 + CLI_HISTSIZE) % CLI_HISTSIZE = g_lastcli_pos
        /\ \A k \in 2 .. CLI_HISTSIZE :
              /\ (turned - k + CLI_HISTSIZE) % CLI_HISTSIZE
                   = (g_lastcli_pos - (k - 1) + CLI_HISTSIZE) % CLI_HISTSIZE
              /\ (g_lastcli_pos - (k - 1) + CLI_HISTSIZE) % CLI_HISTSIZE # g_lastcli_pos
              /\ (g_lastcli_pos - (k - 1) + CLI_HISTSIZE) % CLI_HISTSIZE \in CliSlot
    BY <1>1, RingTurns DEF CliSlot
  <2> HIDE DEF turned
  <2>4. /\ entered' \in Seq(Seq(Chars)) /\ Len(entered') = Len(entered) + 1
        /\ entered'[Len(entered')] = seen
        /\ \A i \in 1 .. Len(entered) : entered'[i] = entered[i]
    BY <1>1, <2>1
  <2>5. /\ g_lastcli' \in [CliSlot -> CliBuf]
        /\ \A s \in CliSlot : \E n \in CliPos : EndsAt(g_lastcli'[s], n)
    BY <1>1, <2>1, <2>2
  <2>6. Editor!RingHoldsLast'
    <3> SUFFICES ASSUME NEW k \in 1 .. CLI_HISTSIZE, k <= Len(entered')
                 PROVE  Editor!String(g_lastcli'[(g_lastcli_pos' - k + CLI_HISTSIZE)
                                                   % CLI_HISTSIZE])
                          = entered'[Len(entered') - k + 1]
      BY DEF Editor!RingHoldsLast
    <3>1. g_lastcli_pos' = turned
      BY <2>1
    <3>2. CASE k = 1
      <4>1. g_lastcli'[g_lastcli_pos] = g_cli'
        BY <1>1, <2>1
      <4>2. Len(entered') - 1 + 1 = Len(entered')
        BY <1>1, <2>4
      <4>3. QED BY <2>2, <2>3, <2>4, <3>1, <3>2, <4>1, <4>2
    <3>3. CASE k # 1
      <4> DEFINE j == k - 1
                 s == (g_lastcli_pos - j + CLI_HISTSIZE) % CLI_HISTSIZE
      <4>1. /\ k \in 2 .. CLI_HISTSIZE /\ j \in 1 .. CLI_HISTSIZE /\ j <= Len(entered)
            /\ Len(entered') - k + 1 = Len(entered) - j + 1
            /\ Len(entered) - j + 1 \in 1 .. Len(entered)
        <5>1. CLI_HISTSIZE \in Nat /\ Len(entered) \in Nat /\ Len(entered') = Len(entered) + 1
          BY <1>1, <2>4
        <5>2. QED BY <3>3, <5>1, OneFurtherBack
      <4>2. (turned - k + CLI_HISTSIZE) % CLI_HISTSIZE = s /\ s # g_lastcli_pos /\ s \in CliSlot
        BY <2>3, <4>1
      <4>3. Editor!String(g_lastcli[s]) = entered[Len(entered) - j + 1]
        BY <4>1 DEF EditorInv, Editor!RingHoldsLast
      <4>4. g_lastcli'[s] = g_lastcli[s]
        BY <1>1, <2>1, <4>2
      <4> HIDE DEF j, s
      <4>5. QED BY <2>4, <3>1, <4>1, <4>2, <4>3, <4>4
    <3>4. QED BY <3>2, <3>3
  <2>7. Editor!TypeOK'
    BY <1>1, <2>1, <2>2, <2>3
       DEF Editor!TypeOK, Editor!Pos, Editor!Slot, CliBuf, CliPos, CliSlot, EndsAt
  <2>8. EditorInv'
    BY <2>1, <2>4, <2>5, <2>6, <2>7 DEF EditorInv
  <2>9. QED BY <2>4, <2>8 DEF Editor!EntersWhatIsSeen, Editor!Last
<1>6. CASE UNCHANGED editorVars
  BY <1>6 DEF editorVars, EditorInv, Editor!TypeOK, Editor!RingHoldsLast
<1>7. Editor!Older \in CliSlot /\ (g_currcli_pos + 1) % CLI_HISTSIZE \in CliSlot
  BY <1>1, RingTurns DEF Editor!Older, CliSlot
<1>8. QED
  BY <1>2, <1>3, <1>4, <1>5, <1>6, <1>7 DEF Editor!Next, Editor!Up, Editor!Down

\* cli_handler: a line typed, taken back, recalled and changed is entered as it is
\* on the screen, and the history holds the last lines, for every size of the
\* buffer and of the history.
THEOREM EditorEntersWhatIsSeen == Editor!Spec => EntersWhatIsSeen
<1>1. Editor!Init => EditorInv
  <2> USE ConsolesAssumption DEF Editor!EditorAssumption
  <2> SUFFICES ASSUME Editor!Init PROVE EditorInv
    OBVIOUS
  <2>1. Editor!Blank \in CliBuf /\ EndsAt(Editor!Blank, 0) /\ 0 \in CliPos /\ 0 \in CliSlot
    BY DEF Editor!Blank, Editor!Pos, CliBuf, CliPos, CliSlot, EndsAt
  <2>2. seen \in Seq(Chars) /\ Len(seen) = 0 /\ entered \in Seq(Seq(Chars)) /\ Len(entered) = 0
    BY DEF Editor!Init
  <2>3. Editor!TypeOK
    BY <2>1 DEF Editor!Init, Editor!TypeOK, Editor!Pos, Editor!Slot, CliBuf, CliPos, CliSlot, EndsAt
  <2>4. g_lastcli \in [CliSlot -> CliBuf] /\ \A s \in CliSlot : EndsAt(g_lastcli[s], 0)
    BY <2>1 DEF Editor!Init, Editor!Slot, CliSlot
  <2>5. QED BY <2>1, <2>2, <2>3, <2>4 DEF Editor!Init, EditorInv, Editor!RingHoldsLast
<1>2. EditorInv /\ [Editor!Next]_editorVars => EditorInv' /\ [Editor!EntersWhatIsSeen]_editorVars
  BY EditorStep
<1>3. EditorInv => Editor!TypeOK /\ Editor!RingHoldsLast
  BY DEF EditorInv
<1>4. Editor!vars = editorVars
  BY DEF Editor!vars, editorVars
<1>5. QED BY <1>1, <1>2, <1>3, <1>4, PTL DEF Editor!Spec, Editor!vars, editorVars, EntersWhatIsSeen

-----------------------------------------------------------------------------
(* The wireless shell: NetShell. *)

\* The access point has given an address exactly when the network is up, and the
\* server listens only then.
NetUp == /\ modnet \in {"off", "event", "net", "up", "failed"}
         /\ (modnet = "up" => g_ipaddr)
         /\ server \in {"accept"} \cup Wireless!Serving => modnet = "up"

\* The types the argument needs.
PrinterRec == [at : {"idle", "spin", "fill", "size"}, text : 0 .. MaxPrints]
TextRec    == [text : Nat, size : Nat]
NetTyped ==
  /\ server \in {"start", "asleep", "accept"} \cup Wireless!Serving
  /\ g_currsock \in 0 .. MaxConn /\ (g_currsock # 0) = (server \in Wireless!Serving)
  /\ g_data \in 0 .. MaxPrints /\ g_size \in Nat
  /\ crossed \in BOOLEAN /\ overrun \in BOOLEAN
  /\ conns \in Nat /\ lines \in Nat
  /\ prints \in Seq(Sizes) /\ Len(prints) <= MaxPrints
  /\ printer \in [Printer -> PrinterRec]
  /\ wire \in Seq({"c", "nl"}) /\ data \in {"c", "nl"}
  /\ pos \in Seq(Nat) /\ commands \in Seq(Seq(Nat))
  /\ delivered \in Seq(TextRec)

\* The buffer is as large as its size says, and so is every text that is copied.
Fits ==
  /\ g_size <= DataSize
  /\ ~overrun => \A q \in Printer : printer[q].at = "size" => prints[printer[q].text] <= DataSize

\* After a line end nothing is collected: reading it again gives no command.
LineBegun == data = "nl" => pos = <<>>

\* Where texts are: each printer's is its own, and known.
Holds(q) == printer[q].at # "idle"
Owned ==
  /\ g_data <= Len(prints)
  /\ \A i \in DOMAIN delivered : delivered[i].text <= Len(prints)
  /\ \A q \in Printer : Holds(q) => printer[q].text \in 1 .. Len(prints)
  /\ \A q, r \in Printer : Holds(q) /\ Holds(r) /\ q # r => printer[q].text # printer[r].text

\* One thread at most is past its wait, and while one is, g_data waits for no sending.
Alone ==
  /\ server = "sent" => g_size # 0
  /\ server \in {"fill", "size"} => g_size = 0 /\ \A q \in Printer : printer[q].at \notin {"fill", "size"}
  /\ \A q \in Printer : printer[q].at \in {"fill", "size"} =>
       /\ g_size = 0 /\ server # "sent"
       /\ \A r \in Printer : r # q => printer[r].at \notin {"fill", "size"}

\* A text is held in one place: by the thread that prints it, in g_data until that
\* is sent, or among what was sent.
Texts ==
  /\ \A q \in Printer : printer[q].at \in {"spin", "fill"} => printer[q].text # g_data
  /\ \A q \in Printer : printer[q].at = "size" => printer[q].text = g_data
  /\ server = "size" => g_data = 0
  /\ \A i \in DOMAIN delivered, q \in Printer : Holds(q) => delivered[i].text # printer[q].text
  /\ g_size # 0 /\ g_data # 0 =>
       /\ prints[g_data] = g_size
       /\ server # "sent" => \A i \in DOMAIN delivered : delivered[i].text # g_data

Printed == ~crossed => Alone /\ Texts

NetInv == NetTyped /\ NetUp /\ Fits /\ LineBegun /\ Owned /\ Printed
          /\ Wireless!OneCommandPerLine /\ Wireless!PrintedOnce

\* Sizes, and where a text may be.
LEMMA NetConstants == Sizes \subseteq Nat /\ DataSize \in Nat \ {0} /\ MaxPrints \in Nat
BY ConsolesAssumption DEF Wireless!NetShellAssumption

\* Printed texts go on as they are when nothing of theirs changes.
LEMMA TextsKept ==
  ASSUME Owned, Printed, Wireless!PrintedOnce, UNCHANGED Wireless!output,
         server' = server \/ server' \notin {"fill", "size", "sent"}, server # "sent" \/ server' = "sent"
  PROVE  Owned' /\ Printed' /\ Wireless!PrintedOnce'
<1>1. UNCHANGED <<g_size, g_data, delivered, printer, prints, crossed>>
  BY DEF Wireless!output, Wireless!buffer
<1>2. Owned'
  BY <1>1 DEF Owned, Holds
<1>3. Wireless!PrintedOnce'
  BY <1>1 DEF Wireless!PrintedOnce
<1>4. Printed'
  BY <1>1 DEF Printed, Alone, Texts, Holds
<1>5. QED BY <1>2, <1>3, <1>4

\* What a printer does to its own record.
LEMMA PrinterMoves ==
  ASSUME NetTyped, NEW q \in Printer, NEW a \in {"idle", "spin", "fill", "size"},
         printer' = [printer EXCEPT ![q].at = a]
  PROVE  /\ printer' \in [Printer -> PrinterRec] /\ printer'[q].at = a
         /\ \A r \in Printer : printer'[r].text = printer[r].text
         /\ \A r \in Printer : r # q => printer'[r].at = printer[r].at
BY DEF NetTyped, PrinterRec

\* A step of the server, of the network or of the other end leaves types right.
LEMMA ServerTyped ==
  ASSUME NetInv, Wireless!ModNet \/ Wireless!GiveUp \/ Wireless!Listen \/ Wireless!Accept
                 \/ Wireless!NothingToSend \/ Wireless!HangUp
  PROVE  /\ NetTyped' /\ NetUp' /\ Fits' /\ LineBegun' /\ Wireless!OneCommandPerLine'
         /\ UNCHANGED Wireless!output
         /\ server' = server \/ server' \notin {"fill", "size", "sent"}
         /\ server # "sent" \/ server' = "sent"
<1> USE DEF NetInv, Wireless!output, Wireless!buffer, Wireless!input, Wireless!up, Wireless!Serving
<1> USE NetConstants, ConsolesAssumption DEF Wireless!NetShellAssumption
<1>1. UNCHANGED Wireless!output
  BY DEF Wireless!ModNet, Wireless!GiveUp, Wireless!Listen, Wireless!Accept,
         Wireless!NothingToSend, Wireless!HangUp
<1>2. /\ server' = server \/ server' \notin {"fill", "size", "sent"}
      /\ server # "sent" \/ server' = "sent"
  BY DEF Wireless!ModNet, Wireless!GiveUp, Wireless!Listen, Wireless!Accept,
         Wireless!NothingToSend, Wireless!HangUp
<1>3. Fits'
  BY <1>1 DEF Fits
<1>4. LineBegun' /\ Wireless!OneCommandPerLine'
  BY DEF Wireless!ModNet, Wireless!GiveUp, Wireless!Listen, Wireless!Accept,
         Wireless!NothingToSend, Wireless!HangUp, LineBegun, Wireless!OneCommandPerLine
<1>5. NetUp'
  <2>1. CASE Wireless!ModNet
    <3>1. /\ Wireless!Stages["off"] = "event" /\ Wireless!Stages["event"] = "net"
          /\ Wireless!Stages["net"] = "up"
      BY DEF Wireless!Stages
    <3>2. /\ modnet' \in {"off", "event", "net", "up", "failed"}
          /\ (modnet' = "up" => g_ipaddr') /\ modnet # "up" /\ server' = server
      BY <2>1, <3>1 DEF Wireless!ModNet
    <3>3. QED BY <3>2 DEF NetUp
  <2>2. CASE Wireless!GiveUp \/ Wireless!Listen
    BY <2>2 DEF Wireless!GiveUp, Wireless!Listen, NetUp
  <2>3. CASE Wireless!Accept
    BY <2>3 DEF Wireless!Accept, NetUp
  <2>4. CASE Wireless!NothingToSend \/ Wireless!HangUp
    BY <2>4 DEF Wireless!NothingToSend, Wireless!HangUp, NetUp
  <2>5. QED BY <2>1, <2>2, <2>3, <2>4
<1>6. /\ server' \in {"start", "asleep", "accept"} \cup Wireless!Serving
      /\ g_currsock' \in 0 .. MaxConn /\ (g_currsock' # 0) = (server' \in Wireless!Serving)
      /\ conns' \in Nat
  <2>1. CASE Wireless!Accept
    <3>1. conns \in Nat /\ conns' = conns + 1 /\ g_currsock' = conns + 1 /\ conns < MaxConn
          /\ MaxConn \in Nat /\ server' = "prompt"
      BY <2>1 DEF Wireless!Accept, NetTyped
    <3>2. QED BY <3>1
  <2>2. CASE Wireless!ModNet
    BY <2>2 DEF Wireless!ModNet, NetTyped
  <2>3. CASE Wireless!GiveUp \/ Wireless!Listen
    BY <2>3 DEF Wireless!GiveUp, Wireless!Listen, NetTyped
  <2>4. CASE Wireless!NothingToSend
    BY <2>4 DEF Wireless!NothingToSend, NetTyped
  <2>5. CASE Wireless!HangUp
    BY <2>5 DEF Wireless!HangUp, NetTyped
  <2>6. QED BY <2>1, <2>2, <2>3, <2>4, <2>5
<1>7. wire' \in Seq({"c", "nl"}) /\ UNCHANGED <<data, pos, commands, lines>>
  <2>1. (wire' = wire \/ wire' = <<>>) /\ UNCHANGED <<data, pos, commands, lines>>
    BY DEF Wireless!ModNet, Wireless!GiveUp, Wireless!Listen, Wireless!Accept,
           Wireless!NothingToSend, Wireless!HangUp
  <2>2. wire \in Seq({"c", "nl"}) /\ <<>> \in Seq({"c", "nl"})
    BY DEF NetTyped
  <2>3. QED BY <2>1, <2>2, Zenon
<1>8. NetTyped'
  BY <1>1, <1>6, <1>7 DEF NetTyped
<1>9. QED BY <1>1, <1>2, <1>3, <1>4, <1>5, <1>8

\* A character taken leaves printing alone, and lines begin anew.
LEMMA RecvStep ==
  ASSUME NetInv, Wireless!Recv
  PROVE  NetInv'
<1>1. UNCHANGED Wireless!output /\ server = "recv" /\ server' = "loop"
      /\ UNCHANGED <<Wireless!up, g_currsock, conns>>
  BY DEF Wireless!Recv
<1>2. Owned' /\ Printed' /\ Wireless!PrintedOnce'
  BY <1>1, TextsKept DEF NetInv
<1>3. NetUp' /\ Fits'
  BY <1>1 DEF NetInv, NetUp, Fits, Wireless!output, Wireless!buffer, Wireless!up, Wireless!Serving
<1>4. ASSUME NEW c \in {"c", "nl"}, Wireless!Taken(c)
      PROVE  /\ pos' \in Seq(Nat) /\ commands' \in Seq(Seq(Nat)) /\ data' \in {"c", "nl"}
             /\ LineBegun'
             /\ c # "nl" \/ pos = <<>> => Len(commands') = Len(commands)
             /\ Len(commands') <= Len(commands) + 1
  BY <1>4, ConsolesAssumption DEF Wireless!Taken, Wireless!Collected, NetInv, NetTyped, LineBegun,
          Wireless!NetShellAssumption
<1>5. /\ wire' \in Seq({"c", "nl"}) /\ lines' \in Nat
      /\ pos' \in Seq(Nat) /\ commands' \in Seq(Seq(Nat)) /\ data' \in {"c", "nl"}
      /\ LineBegun' /\ Wireless!OneCommandPerLine'
  <2>1. CASE wire # <<>> /\ Wireless!Taken(Head(wire)) /\ wire' = Tail(wire)
             /\ lines' = lines + (IF Head(wire) = "nl" THEN 1 ELSE 0)
    <3>1. Head(wire) \in {"c", "nl"} /\ wire' \in Seq({"c", "nl"})
      BY <2>1 DEF NetInv, NetTyped
    <3>2. /\ pos' \in Seq(Nat) /\ commands' \in Seq(Seq(Nat)) /\ data' \in {"c", "nl"}
          /\ LineBegun'
          /\ Head(wire) # "nl" => Len(commands') = Len(commands)
          /\ Len(commands') <= Len(commands) + 1
      BY <1>4, <2>1, <3>1
    <3>3. Len(commands) \in Nat /\ Len(commands') \in Nat /\ lines \in Nat
          /\ Len(commands) <= lines
      BY <3>2 DEF NetInv, NetTyped, Wireless!OneCommandPerLine
    <3>4. QED
      BY <2>1, <3>1, <3>2, <3>3 DEF Wireless!OneCommandPerLine
  <2>2. CASE Wireless!Taken(data) /\ UNCHANGED <<wire, lines>>
    <3>1. data \in {"c", "nl"} /\ (data = "nl" => pos = <<>>)
      BY DEF NetInv, NetTyped, LineBegun
    <3>2. /\ pos' \in Seq(Nat) /\ commands' \in Seq(Seq(Nat)) /\ data' \in {"c", "nl"}
          /\ LineBegun'
          /\ Len(commands') = Len(commands)
      BY <1>4, <2>2, <3>1
    <3>3. QED
      BY <2>2, <3>1, <3>2 DEF NetInv, NetTyped, Wireless!OneCommandPerLine
  <2>3. CASE UNCHANGED <<wire, pos, data, commands, lines>>
    BY <2>3 DEF NetInv, NetTyped, LineBegun, Wireless!OneCommandPerLine
  <2>4. QED BY <2>1, <2>2, <2>3 DEF Wireless!Recv
<1>6. NetTyped'
  BY <1>1, <1>5 DEF NetInv, NetTyped, Wireless!output, Wireless!buffer, Wireless!Serving
<1>7. QED BY <1>2, <1>3, <1>5, <1>6 DEF NetInv

\* The prompt: waited for, copied, and given its size.
LEMMA PromptStep ==
  ASSUME NetInv, Wireless!PromptWait \/ Wireless!PromptFill
  PROVE  NetInv'
<1>1. /\ UNCHANGED <<Wireless!up, g_currsock, peer, conns, printer, prints, overrun, delivered,
                     Wireless!input>>
      /\ \/ /\ server = "prompt" /\ server' = "fill" /\ g_size = 0 /\ UNCHANGED <<g_size, g_data>>
            /\ crossed' = (crossed \/ Wireless!Filling)
         \/ /\ server = "fill" /\ server' = "size" /\ g_data' = 0 /\ UNCHANGED <<g_size, crossed>>
         \/ /\ server = "size" /\ server' = "loop" /\ g_size' = 1 /\ UNCHANGED <<g_data, crossed>>
  BY DEF Wireless!PromptWait, Wireless!PromptFill, Wireless!buffer
<1>2. NetTyped' /\ NetUp' /\ Fits' /\ LineBegun' /\ Wireless!OneCommandPerLine'
  <2>1. crossed' \in BOOLEAN
    <3>1. crossed' = crossed \/ crossed' = (crossed \/ Wireless!Filling)
      BY <1>1
    <3>2. CASE crossed' = crossed
      BY <3>2 DEF NetInv, NetTyped
    <3>3. CASE crossed' = (crossed \/ Wireless!Filling)
      BY <3>3, Zenon
    <3>4. QED BY <3>1, <3>2, <3>3
  <2>2. /\ server' \in Wireless!Serving /\ server \in Wireless!Serving
        /\ g_data' \in 0 .. MaxPrints /\ g_size' \in Nat
    BY <1>1, NetConstants DEF NetInv, NetTyped, Wireless!Serving
  <2>3. NetTyped'
    BY <1>1, <2>1, <2>2 DEF NetInv, NetTyped, Wireless!input
  <2>4. NetUp' /\ Fits'
    BY <1>1, <2>2, NetConstants DEF NetInv, NetUp, Fits, Wireless!up
  <2>5. QED BY <1>1, <2>3, <2>4 DEF NetInv, LineBegun, Wireless!OneCommandPerLine, Wireless!input
<1>3. Owned'
  BY <1>1 DEF NetInv, NetTyped, Owned, Holds
<1>4. Wireless!PrintedOnce'
  BY <1>1 DEF NetInv, Wireless!PrintedOnce
<1>5. ASSUME ~crossed' PROVE Alone' /\ Texts'
  <2>0. crossed' = crossed \/ crossed' = (crossed \/ Wireless!Filling)
    BY <1>1
  <2>1. Alone /\ Texts /\ ~crossed
    <3>1. ~crossed
      BY <1>5, <2>0, Zenon
    <3>2. QED BY <3>1 DEF NetInv, Printed
  <2>2. CASE server = "prompt"
    <3>1. /\ server' = "fill" /\ g_size = 0 /\ UNCHANGED <<g_size, g_data, printer, delivered, prints>>
      BY <1>1, <2>2
    <3>4. crossed' = (crossed \/ Wireless!Filling)
      BY <1>1, <2>2
    <3>5. ~Wireless!Filling
      BY <1>5, <3>4, Zenon
    <3>2. \A q \in Printer : printer[q].at \notin {"fill", "size"}
      BY <3>5 DEF Wireless!Filling
    <3>3. QED BY <2>1, <3>1, <3>2 DEF Alone, Texts, Holds
  <2>3. CASE server = "fill"
    BY <1>1, <2>1, <2>3 DEF Alone, Texts, Holds, NetInv, Owned
  <2>4. CASE server = "size"
    BY <1>1, <2>1, <2>4 DEF Alone, Texts, Holds
  <2>5. QED BY <1>1, <2>2, <2>3, <2>4
<1>6. QED BY <1>2, <1>3, <1>4, <1>5 DEF NetInv, Printed

\* What is in g_data is sent, or its connection is gone.
LEMMA SendStep ==
  ASSUME NetInv, Wireless!Send
  PROVE  NetInv'
<1> DEFINE out == [text |-> g_data, size |-> g_size]
<1>1. /\ UNCHANGED <<Wireless!up, g_size, g_data, printer, prints, crossed, overrun, conns,
                     Wireless!input>>
      /\ server = "loop" /\ g_size # 0
      /\ \/ delivered' = Append(delivered, out) /\ server' = "sent" /\ UNCHANGED g_currsock
         \/ UNCHANGED delivered /\ server' = "accept" /\ g_currsock' = 0
  BY DEF Wireless!Send
<1>2. out \in TextRec /\ out.text = g_data /\ out.size = g_size
  BY DEF NetInv, NetTyped, TextRec
<1> HIDE DEF out
<1>3. delivered \in Seq(TextRec) /\ delivered' \in Seq(TextRec)
  <2>1. delivered \in Seq(TextRec)
    BY DEF NetInv, NetTyped
  <2>2. Append(delivered, out) \in Seq(TextRec)
    BY <1>2, <2>1
  <2>3. QED BY <1>1, <2>1, <2>2
<1>4. NetTyped' /\ NetUp' /\ Fits' /\ LineBegun' /\ Wireless!OneCommandPerLine'
  <2>1. g_currsock' \in 0 .. MaxConn
    BY <1>1, ConsolesAssumption DEF NetInv, NetTyped, Wireless!NetShellAssumption
  <2>2. NetTyped'
    BY <1>1, <1>3, <2>1 DEF NetInv, NetTyped, Wireless!Serving, Wireless!input
  <2>3. NetUp' /\ Fits'
    BY <1>1 DEF NetInv, NetUp, Fits, Wireless!Serving, Wireless!up
  <2>4. QED BY <1>1, <2>2, <2>3 DEF NetInv, LineBegun, Wireless!OneCommandPerLine, Wireless!input
<1>5. \A i \in DOMAIN delivered' : \/ i \in DOMAIN delivered /\ delivered'[i] = delivered[i]
                                   \/ /\ i \notin DOMAIN delivered /\ delivered'[i] = out
                                      /\ i = Len(delivered) + 1 /\ server' = "sent"
  <2>1. CASE delivered' = Append(delivered, out) /\ server' = "sent"
    BY <1>3, <2>1
  <2>2. CASE UNCHANGED delivered
    BY <2>2
  <2>3. QED BY <1>1, <2>1, <2>2
<1>6. Owned'
  BY <1>1, <1>2, <1>5 DEF NetInv, Owned, Holds
<1>7. ASSUME ~crossed PROVE Alone' /\ Texts' /\ Wireless!PrintedOnce'
  <2>1. Alone /\ Texts /\ Wireless!PrintedOnce
    BY <1>7 DEF NetInv, Printed
  <2>2. \A q \in Printer : printer[q].at \notin {"fill", "size"}
    BY <1>1, <2>1 DEF Alone
  <2>3. Alone'
    BY <1>1, <2>1, <2>2 DEF Alone
  <2>4. \A q \in Printer : Holds(q) => printer[q].text # g_data
    BY <2>1, <2>2 DEF Texts, Holds, NetInv, NetTyped, PrinterRec
  <2>5. Texts'
    BY <1>1, <1>2, <1>5, <2>1, <2>2, <2>4 DEF Texts, Holds
  <2>6. g_data # 0 => /\ prints[g_data] = g_size
                      /\ \A i \in DOMAIN delivered : delivered[i].text # g_data
    BY <1>1, <2>1 DEF Texts
  <2>7. Wireless!PrintedOnce'
    BY <1>1, <1>2, <1>5, <1>7, <2>1, <2>6 DEF Wireless!PrintedOnce
  <2>8. QED BY <2>3, <2>5, <2>7
<1>8. QED BY <1>1, <1>4, <1>6, <1>7 DEF NetInv, Printed, Wireless!PrintedOnce

\* The buffer is free again.
LEMMA ClearStep ==
  ASSUME NetInv, Wireless!Clear
  PROVE  NetInv'
<1>1. /\ UNCHANGED <<Wireless!up, g_currsock, conns, g_data, printer, prints, crossed, overrun,
                     delivered, Wireless!input>>
      /\ server = "sent" /\ server' = "recv" /\ g_size' = 0
  BY DEF Wireless!Clear
<1>2. NetTyped'
  BY <1>1 DEF NetInv, NetTyped, Wireless!Serving, Wireless!input
<1>3. NetUp' /\ Fits'
  BY <1>1, NetConstants DEF NetInv, NetUp, Fits, Wireless!Serving, Wireless!up
<1>4. LineBegun' /\ Wireless!OneCommandPerLine'
  BY <1>1 DEF NetInv, LineBegun, Wireless!OneCommandPerLine, Wireless!input
<1>5. Owned' /\ Wireless!PrintedOnce'
  BY <1>1 DEF NetInv, Owned, Holds, Wireless!PrintedOnce
<1>6. Printed'
  BY <1>1 DEF NetInv, Printed, Alone, Texts, Holds
<1>7. QED BY <1>2, <1>3, <1>4, <1>5, <1>6 DEF NetInv

\* A thread begins to print.
LEMMA PrintStep ==
  ASSUME NetInv, NEW q \in Printer, Wireless!wifiPrint(q)
  PROVE  NetInv'
<1> DEFINE n == Len(prints)
<1>1. /\ UNCHANGED <<Wireless!up, server, g_currsock, conns, g_size, g_data, crossed, overrun,
                     delivered, Wireless!input>>
      /\ printer[q].at = "idle" /\ Len(prints) < MaxPrints
  BY DEF Wireless!wifiPrint, Wireless!buffer
<1>2. PICK size \in Sizes : prints' = Append(prints, size)
  BY DEF Wireless!wifiPrint
<1>3. n \in Nat /\ prints' \in Seq(Sizes) /\ Len(prints') = n + 1 /\ n + 1 <= MaxPrints
      /\ \A i \in 1 .. n : prints'[i] = prints[i]
  BY <1>1, <1>2, NetConstants DEF NetInv, NetTyped
<1>4. printer' = [printer EXCEPT ![q] = [at |-> "spin", text |-> n + 1]]
  BY <1>3 DEF Wireless!wifiPrint
<1>5. [at |-> "spin", text |-> n + 1] \in PrinterRec
  BY <1>3, NetConstants DEF PrinterRec
<1>6. /\ printer' \in [Printer -> PrinterRec] /\ printer'[q].at = "spin" /\ printer'[q].text = n + 1
      /\ \A r \in Printer : r # q => printer'[r] = printer[r]
  BY <1>4, <1>5 DEF NetInv, NetTyped
<1> HIDE DEF n
<1>7. NetTyped'
  BY <1>1, <1>3, <1>6 DEF NetInv, NetTyped, Wireless!input
<1>8. /\ g_data <= n /\ g_data \in Nat /\ \A i \in DOMAIN delivered : delivered[i].text <= n
      /\ \A r \in Printer : Holds(r) => printer[r].text \in 1 .. n
  BY DEF NetInv, NetTyped, Owned, n
<1>9. NetUp' /\ Fits'
  <2>1. ASSUME ~overrun, NEW r \in Printer, printer'[r].at = "size"
        PROVE  prints'[printer'[r].text] <= DataSize
    <3>1. r # q /\ printer[r].at = "size" /\ printer[r].text \in 1 .. n
      BY <1>6, <1>8, <2>1 DEF Holds
    <3>2. QED BY <1>3, <1>6, <2>1, <3>1 DEF NetInv, Fits
  <2>2. QED BY <1>1, <2>1 DEF NetInv, NetUp, Fits, Wireless!up
<1>10. LineBegun' /\ Wireless!OneCommandPerLine'
  BY <1>1 DEF NetInv, LineBegun, Wireless!OneCommandPerLine, Wireless!input
<1>11. \A i \in DOMAIN delivered : delivered[i].text \in Nat /\ delivered[i].text < n + 1
  <2>1. \A i \in DOMAIN delivered : delivered[i] \in TextRec
    BY DEF NetInv, NetTyped
  <2>2. QED BY <1>3, <1>8, <2>1 DEF TextRec
<1>12. Owned'
  <2>1. g_data' <= Len(prints)' /\ \A i \in DOMAIN delivered' : delivered'[i].text <= Len(prints)'
    BY <1>1, <1>3, <1>8, <1>11
  <2>2. \A r \in Printer : Holds(r)' => printer'[r].text \in 1 .. Len(prints)'
    BY <1>3, <1>6, <1>8 DEF Holds
  <2>3. \A r, u \in Printer : Holds(r)' /\ Holds(u)' /\ r # u => printer'[r].text # printer'[u].text
    BY <1>3, <1>6, <1>8 DEF NetInv, Owned, Holds
  <2>4. QED BY <2>1, <2>2, <2>3 DEF Owned
<1>13. Wireless!PrintedOnce'
  BY <1>1, <1>3, <1>11 DEF NetInv, Wireless!PrintedOnce
<1>14. Printed'
  <2>1. ASSUME ~crossed PROVE Alone' /\ Texts'
    <3>1. Alone /\ Texts
      BY <2>1 DEF NetInv, Printed
    <3>2. Alone'
      BY <1>1, <1>6, <3>1 DEF Alone
    <3>3. /\ \A r \in Printer : printer'[r].at \in {"spin", "fill"} => printer'[r].text # g_data
          /\ \A r \in Printer : printer'[r].at = "size" => printer'[r].text = g_data
          /\ server = "size" => g_data = 0
      BY <1>3, <1>6, <1>8, <3>1 DEF Texts
    <3>4. \A i \in DOMAIN delivered, r \in Printer :
            printer'[r].at # "idle" => delivered[i].text # printer'[r].text
      BY <1>3, <1>6, <1>11, <3>1 DEF Texts, Holds
    <3>5. g_size # 0 /\ g_data # 0 =>
            /\ prints'[g_data] = g_size
            /\ server # "sent" => \A i \in DOMAIN delivered : delivered[i].text # g_data
      BY <1>3, <1>8, <3>1 DEF Texts
    <3>6. Texts'
      BY <1>1, <3>3, <3>4, <3>5 DEF Texts, Holds
    <3>7. QED BY <3>2, <3>6
  <2>2. QED BY <1>1, <2>1 DEF Printed
<1>15. QED BY <1>7, <1>9, <1>10, <1>12, <1>13, <1>14 DEF NetInv

\* A thread ends its wait, copies its text and sets the size.
LEMMA FillStep ==
  ASSUME NetInv, ~overrun, NEW q \in Printer,
         Wireless!PrintWait(q) \/ Wireless!PrintFill(q) \/ Wireless!PrintSize(q)
  PROVE  NetInv'
<1> DEFINE a == printer[q].at
           t == printer[q].text
<1>1. /\ UNCHANGED <<Wireless!up, server, g_currsock, conns, prints, delivered, Wireless!input>>
      /\ \/ /\ a = "spin" /\ g_size = 0 /\ printer' = [printer EXCEPT ![q].at = "fill"]
            /\ crossed' = (crossed \/ Wireless!Filling) /\ UNCHANGED <<g_size, g_data, overrun>>
         \/ /\ a = "fill" /\ printer' = [printer EXCEPT ![q].at = "size"]
            /\ g_data' = t /\ overrun' = (prints[t] > DataSize) /\ UNCHANGED <<g_size, crossed>>
         \/ /\ a = "size" /\ printer' = [printer EXCEPT ![q].at = "idle"]
            /\ g_size' = prints[t] /\ UNCHANGED <<g_data, crossed, overrun>>
  BY DEF Wireless!PrintWait, Wireless!PrintFill, Wireless!PrintSize, Wireless!buffer
<1>2. /\ printer' \in [Printer -> PrinterRec]
      /\ \A r \in Printer : printer'[r].text = printer[r].text
      /\ \A r \in Printer : r # q => printer'[r].at = printer[r].at
      /\ printer'[q].at = IF a = "spin" THEN "fill" ELSE IF a = "fill" THEN "size" ELSE "idle"
  BY <1>1, PrinterMoves DEF NetInv
<1>3. /\ t \in 1 .. Len(prints) /\ t \in 1 .. MaxPrints /\ prints[t] \in Nat /\ Holds(q)
      /\ DataSize \in Nat
  <2>1. Holds(q)
    BY <1>1 DEF Holds
  <2>2. t \in 1 .. Len(prints)
    BY <2>1 DEF NetInv, Owned
  <2>3. prints[t] \in Sizes
    BY <2>2 DEF NetInv, NetTyped
  <2>4. Len(prints) \in Nat /\ Len(prints) <= MaxPrints
    BY DEF NetInv, NetTyped
  <2>5. t \in 1 .. MaxPrints
    BY <2>2, <2>4, NetConstants
  <2>6. QED BY <2>1, <2>2, <2>3, <2>5, NetConstants
<1> HIDE DEF a, t
<1>4. NetTyped'
  <2>1. crossed' \in BOOLEAN
    <3>1. crossed' = crossed \/ crossed' = (crossed \/ Wireless!Filling)
      BY <1>1
    <3>2. CASE crossed' = crossed
      BY <3>2 DEF NetInv, NetTyped
    <3>3. CASE crossed' = (crossed \/ Wireless!Filling)
      BY <3>3, Zenon
    <3>4. QED BY <3>1, <3>2, <3>3
  <2>2. overrun' \in BOOLEAN
    <3>1. overrun' = overrun \/ overrun' = (prints[t] > DataSize)
      BY <1>1
    <3>2. CASE overrun' = overrun
      BY <3>2 DEF NetInv, NetTyped
    <3>3. CASE overrun' = (prints[t] > DataSize)
      <4>1. (prints[t] > DataSize) \in BOOLEAN
        BY <1>3
      <4>2. QED BY <3>3, <4>1, Zenon
    <3>4. QED BY <3>1, <3>2, <3>3
  <2>3. g_data' \in 0 .. MaxPrints /\ g_size' \in Nat
    BY <1>1, <1>3 DEF NetInv, NetTyped
  <2>4. QED BY <1>1, <1>2, <2>1, <2>2, <2>3 DEF NetInv, NetTyped, Wireless!input
<1>5. NetUp' /\ Fits'
  <2>1. ASSUME ~overrun', NEW r \in Printer, printer'[r].at = "size"
        PROVE  prints'[printer'[r].text] <= DataSize
    <3>1. CASE r # q
      BY <1>1, <1>2, <2>1, <3>1 DEF NetInv, Fits
    <3>2. CASE r = q
      <4>1. a = "fill" /\ printer'[q].text = t /\ overrun' = (prints[t] > DataSize)
            /\ prints' = prints
        BY <1>1, <1>2, <2>1, <3>2 DEF t
      <4>2. ~(prints[t] > DataSize)
        BY <2>1, <4>1, Zenon
      <4>3. QED BY <1>3, <3>2, <4>1, <4>2
    <3>3. QED BY <3>1, <3>2
  <2>2. g_size' <= DataSize
    BY <1>1, <1>3 DEF NetInv, Fits, a, t
  <2>3. QED BY <1>1, <2>1, <2>2 DEF NetInv, NetUp, Fits, Wireless!up
<1>6. LineBegun' /\ Wireless!OneCommandPerLine'
  BY <1>1 DEF NetInv, LineBegun, Wireless!OneCommandPerLine, Wireless!input
<1>7. \A r \in Printer : Holds(r)' => Holds(r)
  BY <1>2, <1>3 DEF Holds
<1>8. Owned'
  BY <1>1, <1>2, <1>3, <1>7 DEF NetInv, Owned, t
<1>9. Wireless!PrintedOnce'
  BY <1>1 DEF NetInv, Wireless!PrintedOnce
<1>10. ASSUME ~crossed' PROVE Alone' /\ Texts'
  <2>0. crossed' = crossed \/ crossed' = (crossed \/ Wireless!Filling)
    BY <1>1
  <2>1. Alone /\ Texts /\ ~crossed
    <3>1. ~crossed
      BY <1>10, <2>0, Zenon
    <3>2. QED BY <3>1 DEF NetInv, Printed
  <2>2. CASE a = "spin"
    <3>5. g_size = 0 /\ UNCHANGED <<g_size, g_data>> /\ crossed' = (crossed \/ Wireless!Filling)
      BY <1>1, <2>2
    <3>6. ~Wireless!Filling
      BY <1>10, <3>5, Zenon
    <3>1. /\ server \notin {"fill", "size"} /\ g_size = 0 /\ UNCHANGED <<g_size, g_data>>
          /\ \A r \in Printer : printer[r].at \notin {"fill", "size"}
      BY <3>5, <3>6 DEF Wireless!Filling
    <3>2. Alone'
      BY <1>1, <1>2, <2>1, <2>2, <3>1 DEF Alone
    <3>3. Texts'
      BY <1>1, <1>2, <1>7, <2>1, <2>2, <3>1 DEF Texts, a
    <3>7. QED BY <3>2, <3>3
  <2>3. CASE a = "fill"
    <3>1. /\ server \notin {"fill", "size", "sent"} /\ g_size = 0 /\ g_size' = 0 /\ g_data' = t
          /\ \A r \in Printer : r # q => printer[r].at \notin {"fill", "size"}
      BY <1>1, <2>1, <2>3 DEF Alone, a
    <3>2. Alone'
      BY <1>1, <1>2, <2>3, <3>1 DEF Alone
    <3>3. \A r \in Printer : r # q /\ Holds(r) => printer[r].text # t
      BY <1>3 DEF NetInv, Owned, t
    <3>4. Texts'
      BY <1>1, <1>2, <1>7, <2>1, <2>3, <3>1, <3>3 DEF Texts, Holds, t
    <3>5. QED BY <3>2, <3>4
  <2>4. CASE a = "size"
    <3>1. /\ server \notin {"fill", "size", "sent"} /\ g_size' = prints[t] /\ g_data = t
          /\ \A r \in Printer : r # q => printer[r].at \notin {"fill", "size"}
          /\ \A i \in DOMAIN delivered : delivered[i].text # t
      BY <1>1, <1>3, <2>1, <2>4 DEF Alone, Texts, a, t
    <3>2. Alone'
      BY <1>1, <1>2, <2>4, <3>1 DEF Alone
    <3>3. Texts'
      BY <1>1, <1>2, <1>7, <2>1, <2>4, <3>1 DEF Texts
    <3>4. QED BY <3>2, <3>3
  <2>5. QED BY <1>1, <2>2, <2>3, <2>4
<1>11. QED BY <1>4, <1>5, <1>6, <1>8, <1>9, <1>10 DEF NetInv, Printed

\* A step preserves the invariant.
LEMMA NetStep ==
  ASSUME NetInv, [Wireless!Next]_(Wireless!vars)
  PROVE  NetInv'
<1>1. CASE Wireless!ModNet \/ Wireless!GiveUp \/ Wireless!Listen \/ Wireless!Accept
           \/ Wireless!NothingToSend \/ Wireless!HangUp
  BY <1>1, ServerTyped, TextsKept DEF NetInv
<1>2. CASE Wireless!PromptWait \/ Wireless!PromptFill
  BY <1>2, PromptStep
<1>3. CASE Wireless!Send \/ Wireless!Clear \/ Wireless!Recv
  BY <1>3, SendStep, ClearStep, RecvStep
<1>4. ASSUME NEW c \in {"c", "nl"}, Wireless!Key(c) PROVE NetInv'
  <2>1. UNCHANGED <<Wireless!up, server, g_currsock, conns, Wireless!output, data, pos, lines,
                    commands>> /\ wire' = Append(wire, c)
    BY <1>4 DEF Wireless!Key
  <2>2. Owned' /\ Printed' /\ Wireless!PrintedOnce'
    BY <2>1, TextsKept DEF NetInv
  <2>3. wire' \in Seq({"c", "nl"})
    BY <2>1 DEF NetInv, NetTyped
  <2>4. NetTyped'
    BY <2>1, <2>3 DEF NetInv, NetTyped, Wireless!output, Wireless!buffer
  <2>5. NetUp' /\ Fits' /\ LineBegun' /\ Wireless!OneCommandPerLine'
    BY <2>1 DEF NetInv, NetUp, Fits, LineBegun, Wireless!OneCommandPerLine, Wireless!output,
                Wireless!buffer, Wireless!up
  <2>6. QED BY <2>2, <2>4, <2>5 DEF NetInv
<1>5. ASSUME NEW q \in Printer, Wireless!Output(q), ~overrun PROVE NetInv'
  BY <1>5, PrintStep, FillStep DEF Wireless!Output
<1>6. CASE UNCHANGED Wireless!vars
  <2>1. UNCHANGED Wireless!output /\ server' = server
    BY <1>6 DEF Wireless!vars, Wireless!output, Wireless!buffer
  <2>2. Owned' /\ Printed' /\ Wireless!PrintedOnce'
    BY <2>1, TextsKept DEF NetInv
  <2>3. NetTyped'
    BY <1>6 DEF Wireless!vars, NetInv, NetTyped
  <2>4. QED BY <1>6, <2>2, <2>3 DEF Wireless!vars, NetInv, NetUp, Fits, LineBegun,
                                    Wireless!OneCommandPerLine
<1>7. QED
  BY <1>1, <1>2, <1>3, <1>4, <1>5, <1>6 DEF Wireless!Next, Wireless!Serve

\* start_server, wifiPrint: whatever connections come and go and whoever prints, a
\* line is run only for a line end that was sent, and the server listens only on a
\* network that is up; no text is sent twice, or in another's size, until two threads
\* end their wait for the buffer together or a text runs over it.  For every number
\* of printers and connections and every size of texts and of the buffer.
THEOREM LinesOverNetHold == Wireless!Spec => []LinesOverNet
<1>1. Wireless!Init => NetInv
  <2> SUFFICES ASSUME Wireless!Init PROVE NetInv
    OBVIOUS
  <2>1. printer \in [Printer -> PrinterRec] /\ \A q \in Printer : printer[q].at = "idle"
    BY NetConstants DEF Wireless!Init, PrinterRec
  <2>2. /\ wire \in Seq({"c", "nl"}) /\ pos \in Seq(Nat) /\ delivered \in Seq(TextRec)
        /\ prints \in Seq(Sizes) /\ Len(prints) = 0
    BY DEF Wireless!Init
  <2>3. commands \in Seq(Seq(Nat)) /\ Len(commands) = 0 /\ DOMAIN delivered = {}
    BY DEF Wireless!Init
  <2>4. NetTyped
    <3>1. 0 \in 0 .. MaxConn /\ 0 \in 0 .. MaxPrints /\ 0 \in Nat
      BY NetConstants, ConsolesAssumption DEF Wireless!NetShellAssumption
    <3>2. /\ server = "start" /\ g_currsock = 0 /\ g_data = 0 /\ g_size = 0 /\ conns = 0 /\ lines = 0
          /\ crossed = FALSE /\ overrun = FALSE /\ data = "c" /\ Len(prints) <= MaxPrints
      BY <2>2, NetConstants DEF Wireless!Init
    <3>3. server \in {"start", "asleep", "accept"} \cup Wireless!Serving /\ server \notin Wireless!Serving
          /\ data \in {"c", "nl"} /\ crossed \in BOOLEAN /\ overrun \in BOOLEAN
      BY <3>2 DEF Wireless!Serving
    <3>4. QED BY <2>1, <2>2, <2>3, <3>1, <3>2, <3>3 DEF NetTyped
  <2>5. NetUp /\ Fits /\ LineBegun /\ Wireless!OneCommandPerLine /\ Wireless!PrintedOnce
    BY <2>1, <2>3, NetConstants DEF Wireless!Init, NetUp, Fits, LineBegun, Wireless!Serving,
         Wireless!OneCommandPerLine, Wireless!PrintedOnce
  <2>6. Owned /\ Printed
    BY <2>1, <2>2, <2>3 DEF Wireless!Init, Owned, Printed, Alone, Texts, Holds
  <2>7. QED BY <2>4, <2>5, <2>6 DEF NetInv
<1>2. NetInv /\ [Wireless!Next]_(Wireless!vars) => NetInv'
  BY NetStep
<1>3. NetInv => LinesOverNet
  <2>1. NetInv => g_size \in 0 .. DataSize
    BY NetConstants DEF NetInv, NetTyped, Fits
  <2>2. QED
    BY <2>1 DEF NetInv, NetTyped, NetUp, LinesOverNet, Wireless!ListensWhenUp, Wireless!TypeOK
<1>4. QED BY <1>1, <1>2, <1>3, PTL DEF Wireless!Spec
=============================================================================
