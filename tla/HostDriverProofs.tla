-------------------------- MODULE HostDriverProofs --------------------------
(***************************************************************************)
(* Proofs about the driver's side of FileService: for every number of       *)
(* threads, file ids, file sizes, block size and lengths, what a transfer    *)
(* returns is what it moved, whatever other threads, lost answers and new    *)
(* sessions do between its blocks, and a handle stands for the file it was   *)
(* opened for; and for every set of times and permissions, what a program    *)
(* did not ask to change stays.                                              *)
(***************************************************************************)
EXTENDS FileService, SequenceTheorems, TLAPS

At     == {"idle", "block", "done"}
Handle == [arg : Fid \cup {Driver!None}, open : 0 .. MaxHandles, session : 0 .. MaxSession]
Move   == Nat \X Nat \X Nat
Moves  == Seq(Move)
Call   == [op : {"none", "read", "write"}, len : Int, blocks : Nat, residual : Nat, data : Nat,
           ret : Int, start : Nat, moved : Moves, eaten : Nat, lost : BOOLEAN,
           short : BOOLEAN]
ThrRec == [at : At, h : Handle, call : Call]
FileRec   == [open : 0 .. MaxHandles, pos : 0 .. Size]

-----------------------------------------------------------------------------
(* Arithmetic and sequences. *)

\* A length is its blocks and the residual.
LEMMA Split ==
  ASSUME NEW len \in Nat, NEW m \in Nat \ {0}
  PROVE  /\ len \div m \in Nat /\ len % m \in 0 .. (m - 1)
         /\ (len \div m) * m + (len % m) = len
  BY Z3

\* One block less.
LEMMA BlockLess ==
  ASSUME NEW b \in Nat, b > 0, NEW m \in Nat
  PROVE  (b - 1) * m + m = b * m
  BY Z3

\* n bytes of open o, after position s of the file, at the start of the buffer.
Run(o, s, n) == [i \in 1 .. n |-> <<o, s + i, i>>]

\* A transfer that has moved nothing has an empty run.
LEMMA RunEmpty == ASSUME NEW o, NEW s PROVE Run(o, s, 0) = <<>>
  BY DEF Run

\* A run is a sequence of moves, one for each byte.
LEMMA RunTyped ==
  ASSUME NEW o \in Nat, NEW s \in Nat, NEW n \in Nat
  PROVE  Run(o, s, n) \in Moves /\ Len(Run(o, s, n)) = n
  BY DEF Run, Moves, Move

\* The next block continues the run.
Onwards(o, s, n, m) == [i \in 1 .. m |-> <<o, (s + n) + i, n + i>>]
Joined(a, b) == a \o b

\* What was moved, followed by the next block, is the longer run.
LEMMA RunOn ==
  ASSUME NEW o \in Nat, NEW s \in Nat, NEW n \in Nat, NEW m \in Nat
  PROVE  Joined(Run(o, s, n), Onwards(o, s, n, m)) = Run(o, s, n + m)
<1> DEFINE a == Run(o, s, n)
           b == Onwards(o, s, n, m)
           r == Run(o, s, n + m)
<1>1. a \in Moves /\ Len(a) = n /\ r \in Moves /\ Len(r) = n + m
  BY RunTyped
<1>2. b \in Moves /\ Len(b) = m
  BY DEF Onwards, Moves, Move
<1>3. \A i \in 1 .. n : a[i] = <<o, s + i, i>>
  BY DEF Run
<1>4. \A i \in 1 .. m : b[i] = <<o, (s + n) + i, n + i>>
  BY DEF Onwards
<1>5. \A i \in 1 .. (n + m) : r[i] = <<o, s + i, i>>
  BY DEF Run
<1> HIDE DEF a, b, r
<1>6. /\ a \o b \in Moves /\ Len(a \o b) = n + m
      /\ \A i \in 1 .. (n + m) : (a \o b)[i] = IF i <= n THEN a[i] ELSE b[i - n]
  BY <1>1, <1>2, ConcatProperties DEF Moves
<1>7. ASSUME NEW i \in 1 .. (n + m), NEW x, x = (a \o b)[i] PROVE x = r[i]
  <2>1. CASE i <= n
    <3>1. i \in 1 .. n /\ x = a[i]
      BY <1>6, <1>7, <2>1
    <3>2. QED BY <1>3, <1>5, <3>1
  <2>2. CASE ~(i <= n)
    <3>1. i - n \in 1 .. m /\ x = b[i - n]
      BY <1>6, <1>7, <2>2
    <3>2. (s + n) + (i - n) = s + i /\ n + (i - n) = i
      OBVIOUS
    <3>3. QED BY <1>4, <1>5, <3>1, <3>2
  <2>3. QED BY <2>1, <2>2
<1>8. a \o b = r
  BY <1>1, <1>6, <1>7, SeqEqual DEF Moves
<1>9. QED BY <1>8 DEF Joined, a, b, r

-----------------------------------------------------------------------------
(* The invariant. *)

Typed ==
  /\ connected \in BOOLEAN /\ number \in 0 .. MaxSession /\ (connected => number # 0)
  /\ table \in [Fid -> FileRec] /\ thr \in [Thread -> ThrRec]
  /\ opens \in 0 .. MaxHandles /\ faults \in 0 .. MaxFaults /\ orphans \subseteq 1 .. MaxHandles

Holds(t) == thr[t].h.arg # Driver!None

\* A handle was given for an open of this session or an earlier one; no two
\* threads hold the same open, and no two ids stand for the same open.
Dated == \A t \in Thread : IF Holds(t) THEN /\ thr[t].h.open \in 1 .. opens
                                           /\ thr[t].h.session \in 1 .. number
                          ELSE thr[t].h.open = 0
Distinct == \A t, u \in Thread : t # u /\ Holds(t) /\ Holds(u) => thr[t].h.open # thr[u].h.open
OneId    == /\ \A f \in Fid : table[f].open <= opens
            /\ \A f, g \in Fid : table[f].open = table[g].open /\ table[f].open # 0 => f = g

\* A handle of this session stands for the open it was given for; of an open of an
\* earlier session the PC has nothing left.
Stands ==
  \A t \in Thread : Holds(t) =>
    IF thr[t].h.session = number THEN table[thr[t].h.arg].open = thr[t].h.open
    ELSE \A f \in Fid : table[f].open # thr[t].h.open

\* What the PC has open is accounted for.
Accounted ==
  connected => \A f \in Fid : table[f].open # 0 =>
                 table[f].open \in orphans \/ \E t \in Thread : thr[t].h.open = table[f].open

\* The file stands behind what the call has moved.
Behind(t) ==
  thr[t].h.session = number /\ Driver!Opened(thr[t].h.arg) =>
    table[thr[t].h.arg].pos = thr[t].call.start + thr[t].call.ret

Moved(t) == thr[t].call.moved = Run(thr[t].h.open, thr[t].call.start, thr[t].call.ret)

\* A call between two blocks.
Under(t) ==
  LET c == thr[t].call
  IN  /\ c.ret >= 0 /\ c.data = c.ret /\ ~c.lost /\ c.eaten = 0
      /\ Moved(t) /\ Behind(t)
      /\ c.residual < MaxBlock /\ (c.blocks > 0 \/ c.residual > 0)
      /\ ~c.short => c.ret + (c.blocks * MaxBlock + c.residual) = c.len

\* The file stands behind what a refused block has moved, too.
Beyond(t) ==
  thr[t].h.session = number /\ Driver!Opened(thr[t].h.arg) =>
    table[thr[t].h.arg].pos = thr[t].call.start + thr[t].call.ret + thr[t].call.eaten

\* A call about to return.
Over(t) ==
  LET c == thr[t].call
  IN  /\ c.ret >= 0 =>
           /\ c.moved = Run(thr[t].h.open, c.start, c.ret + Driver!Unreported(c))
           /\ (c.ret > 0 => Beyond(t)) /\ (c.ret < c.len => c.short)
           /\ c.eaten > 0 => c.short /\ c.eaten < MaxBlock
      /\ c.ret < 0 /\ ~c.lost =>
           c.eaten < MaxBlock /\ c.moved = Run(thr[t].h.open, c.start, Driver!Unreported(c))

CallOf(t) ==
  /\ thr[t].at # "idle" => Holds(t)
  /\ thr[t].at = "block" => Under(t)
  /\ thr[t].at = "done" => Over(t)

Handles == Dated /\ Distinct /\ OneId /\ Stands /\ Accounted
Calls   == \A t \in Thread : CallOf(t)
DInv    == Typed /\ Handles /\ Calls


\* What is promised follows.
LEMMA DInvGives ==
  ASSUME Driver!DriverAssumption, DInv, mistaken \in BOOLEAN
  PROVE  Driver!TypeOK /\ Driver!TransfersExact
<1>1. Driver!TypeOK
  BY DEF DInv, Typed, Handles, Dated, Calls, CallOf, Holds, Driver!TypeOK, ThrRec, Handle, Call, At, FileRec
<1>2. Driver!TransferExact
  BY DEF DInv, Calls, CallOf, Over, Beyond, Run, Driver!Run, Driver!TransferExact
<1>3. Driver!ErrorMovesNothing /\ Driver!NoNeedlessShort
  BY DEF DInv, Calls, CallOf, Over, Run, Driver!Run, Driver!ErrorMovesNothing,
         Driver!NoNeedlessShort
<1>4. Driver!HandlesMatch
  <2>1. ASSUME NEW t \in Thread, thr[t].h.session = number, thr[t].h.open # 0
        PROVE  Driver!Opened(thr[t].h.arg) /\ table[thr[t].h.arg].open = thr[t].h.open
    <3>1. Holds(t) /\ thr[t].h.arg \in Fid
      BY <2>1 DEF DInv, Typed, Handles, Dated, Holds, ThrRec, Handle
    <3>2. QED BY <2>1, <3>1 DEF DInv, Handles, Stands, Driver!Opened
  <2>2. QED BY <2>1 DEF DInv, Handles, Accounted, Driver!Opened, Driver!HandlesMatch
<1>5. QED BY <1>1, <1>2, <1>3, <1>4 DEF Driver!TransfersExact

\* At first nothing is open and no thread is in a call.
LEMMA InitD ==
  ASSUME Driver!DriverAssumption, Driver!Init
  PROVE  DInv
<1>1. Driver!NoCall \in Call /\ Driver!NoHandle \in Handle /\ Driver!Closed \in FileRec
  BY DEF Driver!DriverAssumption, Driver!NoCall, Driver!NoHandle, Driver!Closed, Call, Handle, FileRec, Moves
<1>2. Typed
  <2>1. thr \in [Thread -> ThrRec] /\ table \in [Fid -> FileRec]
    BY <1>1 DEF Driver!Init, ThrRec, At
  <2>2. connected \in BOOLEAN
    BY DEF Driver!Init
  <2>3. QED BY <2>1, <2>2 DEF Driver!DriverAssumption, Driver!Init, Typed
<1>3. \A t \in Thread : thr[t].at = "idle" /\ ~Holds(t) /\ thr[t].h.open = 0
  BY DEF Driver!Init, Holds, Driver!NoHandle
<1>4. \A f \in Fid : table[f].open = 0
  BY DEF Driver!Init, Driver!Closed
<1>5. QED BY <1>2, <1>3, <1>4 DEF Driver!Init, DInv, Handles, Dated, Distinct, OneId, Stands, Accounted, Calls, CallOf

-----------------------------------------------------------------------------
(* What updates of a thread do. *)

\* Storing a file id in the file argument changes nothing else.
LEMMA SetH ==
  ASSUME Typed, NEW t \in Thread, NEW x \in Handle, thr' = [thr EXCEPT ![t].h = x]
  PROVE  /\ thr' \in [Thread -> ThrRec] /\ thr'[t].h = x
         /\ thr'[t].at = thr[t].at /\ thr'[t].call = thr[t].call
         /\ \A u \in Thread : u # t => thr'[u] = thr[u]
<1>1. thr' = [thr EXCEPT ![t] = [thr[t] EXCEPT !.h = x]]
  OBVIOUS
<1>2. [thr[t] EXCEPT !.h = x] \in ThrRec
  BY DEF Typed, ThrRec
<1>3. QED BY <1>1, <1>2 DEF Typed, ThrRec

\* A call that goes on leaves the thread its handle, and the other threads alone.
LEMMA SetCall ==
  ASSUME Typed, NEW t \in Thread, NEW a \in At, NEW c \in Call,
         thr' = [thr EXCEPT ![t].at = a, ![t].call = c]
  PROVE  /\ thr' \in [Thread -> ThrRec] /\ thr'[t].h = thr[t].h
         /\ thr'[t].at = a /\ thr'[t].call = c
         /\ \A u \in Thread : u # t => thr'[u] = thr[u]
<1>1. thr' = [thr EXCEPT ![t] = [thr[t] EXCEPT !.at = a, !.call = c]]
  BY DEF Typed, ThrRec
<1>2. [thr[t] EXCEPT !.at = a, !.call = c] \in ThrRec
  BY DEF Typed, ThrRec
<1>3. QED BY <1>1, <1>2 DEF Typed, ThrRec

Sets(t, a, c) == thr' = [thr EXCEPT ![t].at = a, ![t].call = c]

\* The same, with the assignment under a name.
LEMMA CallSet ==
  ASSUME Typed, NEW t \in Thread, NEW a \in At, NEW c \in Call, Sets(t, a, c)
  PROVE  /\ thr' \in [Thread -> ThrRec] /\ thr'[t].h = thr[t].h
         /\ thr'[t].at = a /\ thr'[t].call = c
         /\ \A u \in Thread : u # t => thr'[u] = thr[u]
BY SetCall DEF Sets

\* Handles are as they were if opens and handles are.
LEMMA HandlesKept ==
  ASSUME Handles, UNCHANGED <<connected, number, opens, orphans>>,
         \A t \in Thread : thr'[t].h = thr[t].h, \A f \in Fid : table'[f].open = table[f].open,
         Typed
  PROVE  Handles'
<1>1. \A t \in Thread : Holds(t) => thr[t].h.arg \in Fid
  BY DEF Typed, ThrRec, Handle, Holds
<1>2. \A t \in Thread : Holds(t)' <=> Holds(t)
  BY DEF Holds
<1>3. Dated' /\ Distinct' /\ OneId'
  BY <1>2 DEF Handles, Dated, Distinct, OneId
<1>4. Stands'
  BY <1>1, <1>2 DEF Handles, Stands
<1>5. Accounted'
  BY DEF Handles, Accounted
<1>6. QED BY <1>3, <1>4, <1>5 DEF Handles

\* A call is as it was if its thread is and its file stands where it stood.
LEMMA CallKept ==
  ASSUME NEW t \in Thread, CallOf(t), thr'[t] = thr[t],
         thr[t].h.session = number' /\ Driver!Opened(thr[t].h.arg)' =>
           /\ number' = number /\ Driver!Opened(thr[t].h.arg)
           /\ table'[thr[t].h.arg].pos = table[thr[t].h.arg].pos
  PROVE  CallOf(t)'
<1>1. (Behind(t) => Behind(t)') /\ (Beyond(t) => Beyond(t)')
  BY DEF Behind, Beyond, Driver!Opened
<1>2. (Moved(t) => Moved(t)') /\ (Holds(t) => Holds(t)')
  BY DEF Moved, Holds
<1>3. QED BY <1>1, <1>2 DEF CallOf, Under, Over

\* An id of this session that is open is the file of the thread that holds it.
LEMMA Mine ==
  ASSUME Driver!DriverAssumption, Typed, Handles, NEW t \in Thread, Driver!Opened(thr[t].h.arg),
         thr[t].h.session = number
  PROVE  Holds(t) /\ table[thr[t].h.arg].open = thr[t].h.open
<1>1. Holds(t)
  BY DEF Driver!DriverAssumption, Driver!Opened, Holds, Driver!None
<1>2. QED BY <1>1 DEF Handles, Stands, Driver!Opened

\* Threads of this session do not share files.
LEMMA Apart ==
  ASSUME Driver!DriverAssumption, Typed, Handles, NEW t \in Thread, NEW u \in Thread, t # u,
         Driver!Opened(thr[t].h.arg), Driver!Opened(thr[u].h.arg),
         thr[t].h.session = number, thr[u].h.session = number
  PROVE  thr[t].h.arg # thr[u].h.arg
<1>1. /\ Holds(t) /\ table[thr[t].h.arg].open = thr[t].h.open
      /\ Holds(u) /\ table[thr[u].h.arg].open = thr[u].h.open
  BY Mine
<1>2. QED BY <1>1 DEF Handles, Distinct
-----------------------------------------------------------------------------
(* The link and the handles. *)

\* A new session starts with no file open on the PC; ids kept are of an older one.
LEMMA ConnectD ==
  ASSUME Driver!DriverAssumption, DInv, Driver!Connect
  PROVE  DInv'
<1>0. Typed /\ Handles /\ Calls /\ number \in Nat
  BY DEF DInv, Typed
<1>1. /\ number' = number + 1 /\ number < MaxSession /\ connected' = TRUE /\ orphans' = {}
      /\ UNCHANGED <<thr, opens, faults, mistaken>> /\ table' = [f \in Fid |-> Driver!Closed]
  BY DEF Driver!Connect
<1>2. Driver!Closed \in FileRec /\ Driver!Closed.open = 0
  BY DEF Driver!DriverAssumption, Driver!Closed, FileRec
<1>3. \A f \in Fid : table'[f].open = 0
  BY <1>1, <1>2
<1>4. Typed'
  <2>1. table' \in [Fid -> FileRec] /\ connected' \in BOOLEAN
    BY <1>1, <1>2
  <2>2. QED BY <1>0, <1>1, <2>1 DEF Typed, Driver!DriverAssumption
<1>5. \A t \in Thread : Holds(t) => thr[t].h.session \in 1 .. number
  BY <1>0 DEF Handles, Dated
<1>6. \A t \in Thread : Holds(t)' <=> Holds(t)
  BY <1>1 DEF Holds
<1>7. Dated' /\ Distinct' /\ OneId'
  <2>1. Dated'
    BY <1>0, <1>1, <1>5, <1>6 DEF Handles, Dated
  <2>2. Distinct'
    BY <1>0, <1>1, <1>6 DEF Handles, Distinct
  <2>3. OneId'
    BY <1>0, <1>1, <1>3 DEF OneId, Typed
  <2>4. QED BY <2>1, <2>2, <2>3
<1>8. Stands'
  BY <1>0, <1>1, <1>3, <1>5, <1>6 DEF Stands, Handles, Dated
<1>9. Accounted'
  BY <1>3 DEF Accounted
<1>10. Calls'
  <2>1. ASSUME NEW t \in Thread PROVE CallOf(t)'
    <3>1. ~Driver!Opened(thr[t].h.arg)'
      BY <1>1, <1>3 DEF Driver!Opened
    <3>2. ~(thr[t].h.session = number' /\ Driver!Opened(thr[t].h.arg)')
      BY <3>1
    <3>3. QED BY <1>0, <1>1, <3>2, CallKept DEF Calls
  <2>2. QED BY <2>1 DEF Calls
<1>11. QED BY <1>4, <1>7, <1>8, <1>9, <1>10 DEF DInv, Handles

\* The cable, or nothing at all: no id and no position changes.
LEMMA DisconnectD ==
  ASSUME Driver!DriverAssumption, DInv, Driver!Disconnect \/ UNCHANGED driverVars
  PROVE  DInv'
<1>0. Typed /\ Handles /\ Calls
  BY DEF DInv
<1>1. /\ UNCHANGED <<number, table, thr, opens, faults, orphans, mistaken>>
      /\ connected' = FALSE \/ connected' = connected
  BY DEF Driver!Disconnect, driverVars
<1>2. Typed'
  <2>1. connected' \in BOOLEAN
    BY <1>0, <1>1 DEF Typed
  <2>2. QED BY <1>0, <1>1, <2>1 DEF Typed
<1>3. \A t \in Thread : Holds(t)' <=> Holds(t)
  BY <1>1 DEF Holds
<1>4. Dated' /\ Distinct' /\ OneId' /\ Stands'
  BY <1>0, <1>1, <1>3 DEF Handles, Dated, Distinct, OneId, Stands
<1>5. Accounted'
  BY <1>0, <1>1 DEF Handles, Accounted
<1>6. Calls'
  <2>1. ASSUME NEW t \in Thread PROVE CallOf(t)'
    BY <1>0, <1>1, CallKept DEF Calls, Driver!Opened
  <2>2. QED BY <2>1 DEF Calls
<1>7. QED BY <1>2, <1>4, <1>5, <1>6 DEF DInv, Handles

\* A file is opened, under an id and a number that no handle of the session has.
LEMMA OpenD ==
  ASSUME Driver!DriverAssumption, DInv, NEW t \in Thread, Driver!io_open(t)
  PROVE  DInv'
<1>0. /\ Typed /\ Handles /\ Calls /\ opens \in Nat /\ MaxHandles \in Nat
      /\ Dated /\ Distinct /\ OneId /\ Stands /\ Accounted
  BY DEF DInv, Handles, Typed, Driver!DriverAssumption
<1>1. PICK outcome \in {"answered", "unanswered"}, f \in Fid :
        /\ Driver!command_xchg(outcome) /\ ~Driver!Opened(f) /\ opens' = opens + 1
        /\ table' = [table EXCEPT ![f] = [open |-> opens', pos |-> 0]]
        /\ IF outcome = "answered"
           THEN /\ thr' = [thr EXCEPT ![t].h = [arg |-> Driver!Kept(f), open |-> opens', session |-> number]]
                /\ UNCHANGED orphans
           ELSE orphans' = orphans \cup {opens'} /\ UNCHANGED thr
  BY DEF Driver!io_open
<1>2. /\ thr[t].at = "idle" /\ ~Holds(t) /\ opens < MaxHandles /\ connected
      /\ UNCHANGED <<connected, number, mistaken>>
  BY <1>1 DEF Driver!io_open, Driver!command_xchg, Holds
<1>3. faults' \in 0 .. MaxFaults
  BY <1>0, <1>1 DEF Driver!command_xchg, Typed, Driver!DriverAssumption
<1>4. [open |-> opens', pos |-> 0] \in FileRec
  BY <1>0, <1>1, <1>2 DEF FileRec, Driver!DriverAssumption
<1>5. /\ table' \in [Fid -> FileRec] /\ table'[f].open = opens'
      /\ \A g \in Fid : g # f => table'[g] = table[g]
  BY <1>0, <1>1, <1>4 DEF Typed
<1>6. table[f].open = 0 /\ opens' \in 1 .. MaxHandles /\ opens' = opens + 1
  BY <1>0, <1>1, <1>2 DEF Driver!Opened
<1>6a. ASSUME NEW u \in Thread, Holds(u)
       PROVE  IF thr[u].h.session = number THEN table'[thr[u].h.arg].open = thr[u].h.open
              ELSE \A g \in Fid : table'[g].open # thr[u].h.open
  <2>1. thr[u].h.open \in 1 .. opens /\ thr[u].h.arg \in Fid
    BY <1>0, <1>6a DEF Dated, Typed, ThrRec, Handle, Holds
  <2>2. CASE thr[u].h.session = number
    <3>1. table[thr[u].h.arg].open = thr[u].h.open
      BY <1>0, <1>6a, <2>2 DEF Stands
    <3>2. QED BY <1>0, <1>5, <1>6, <2>1, <2>2, <3>1
  <2>3. CASE thr[u].h.session # number
    <3>1. \A g \in Fid : table[g].open # thr[u].h.open
      BY <1>0, <1>6a, <2>3 DEF Stands
    <3>2. opens' # thr[u].h.open
      BY <1>0, <1>6, <2>1
    <3>3. \A g \in Fid : table'[g].open # thr[u].h.open
      BY <1>5, <3>1, <3>2
    <3>4. QED BY <2>3, <3>3
  <2>4. QED BY <2>2, <2>3
<1>7. \A u \in Thread : Holds(u) => /\ thr[u].h.session = number => thr[u].h.arg # f
                                    /\ thr[u].h.arg \in Fid /\ thr[u].h.open \in 1 .. opens
  <2>1. ASSUME NEW u \in Thread, Holds(u)
        PROVE  /\ thr[u].h.session = number => thr[u].h.arg # f
               /\ thr[u].h.arg \in Fid /\ thr[u].h.open \in 1 .. opens
    <3>1. thr[u].h.open \in 1 .. opens
      BY <1>0, <2>1 DEF Dated
    <3>2. thr[u].h.session = number => table[thr[u].h.arg].open = thr[u].h.open
      BY <1>0, <2>1 DEF Stands
    <3>3. thr[u].h.arg \in Fid
      BY <1>0, <2>1 DEF Typed, ThrRec, Handle, Holds
    <3>4. QED BY <1>6, <3>1, <3>2, <3>3
  <2>2. QED BY <2>1
<1>7a. OneId'
  <2>1. \A g \in Fid : table[g].open \in Nat
    BY <1>0 DEF Typed, FileRec
  <2>2. QED BY <1>0, <1>5, <1>6, <2>1 DEF OneId
<1>8. ASSUME NEW u \in Thread, thr'[u] = thr[u] PROVE CallOf(u)' 
  <2>1. CASE Holds(u)
    BY <1>0, <1>2, <1>5, <1>7, <1>8, <2>1, CallKept DEF Calls, Driver!Opened
  <2>2. CASE ~Holds(u)
    <3>1. thr'[u].at = "idle"
      BY <1>0, <1>8, <2>2 DEF Calls, CallOf
    <3>2. QED BY <3>1 DEF CallOf
  <2>3. QED BY <2>1, <2>2
<1>9. CASE outcome = "answered"
  <2> DEFINE x == [arg |-> f, open |-> opens', session |-> number]
  <2>1. x \in Handle /\ x.arg = f /\ x.open = opens' /\ x.session = number
    BY <1>0, <1>6 DEF Handle, Typed
  <2>2. thr' = [thr EXCEPT ![t].h = x] /\ UNCHANGED orphans
    BY <1>1, <1>9 DEF Driver!Kept
  <2> HIDE DEF x
  <2>3. /\ thr' \in [Thread -> ThrRec] /\ thr'[t].h = x
        /\ thr'[t].at = "idle" /\ \A u \in Thread : u # t => thr'[u] = thr[u]
    BY <1>0, <1>2, <2>1, <2>2, SetH
  <2>4. Typed'
    BY <1>0, <1>2, <1>3, <1>5, <1>6, <2>2, <2>3 DEF Typed
  <2>5. Holds(t)' /\ \A u \in Thread : u # t => (Holds(u)' <=> Holds(u))
    BY <2>1, <2>3 DEF Holds, Driver!DriverAssumption, Driver!None
  <2>6. number \in 1 .. number
    BY <1>0, <1>2 DEF Typed
  <2>7. Dated' /\ Distinct'
    <3>1. Dated'
      BY <1>0, <1>2, <1>6, <2>1, <2>3, <2>5, <2>6 DEF Dated
    <3>2. Distinct'
      BY <1>0, <1>6, <2>1, <2>3, <2>5 DEF Distinct, Dated
    <3>3. QED BY <3>1, <3>2
  <2>8. Stands'
    BY <1>2, <1>5, <1>6a, <2>1, <2>3, <2>5 DEF Stands
  <2>9. Accounted'
    <3>1. ASSUME NEW g \in Fid, table'[g].open # 0
          PROVE  table'[g].open \in orphans' \/ \E u \in Thread : thr'[u].h.open = table'[g].open
      <4>1. CASE g = f
        BY <1>5, <2>1, <2>3, <4>1
      <4>2. CASE g # f
        <5>1. thr[t].h.open = 0
          BY <1>0, <1>2 DEF Dated
        <5>2. QED BY <1>0, <1>2, <1>5, <2>2, <2>3, <3>1, <4>2, <5>1 DEF Accounted
      <4>3. QED BY <4>1, <4>2
    <3>2. QED BY <3>1 DEF Accounted
  <2>10. Calls'
    BY <1>8, <2>3 DEF Calls, CallOf
  <2>11. QED BY <1>7a, <2>4, <2>7, <2>8, <2>9, <2>10 DEF DInv, Handles
<1>10. CASE outcome # "answered"
  <2>1. orphans' = orphans \cup {opens'} /\ UNCHANGED thr
    BY <1>1, <1>10
  <2>2. Typed'
    BY <1>0, <1>2, <1>3, <1>5, <1>6, <2>1 DEF Typed
  <2>3. \A u \in Thread : Holds(u)' <=> Holds(u)
    BY <2>1 DEF Holds
  <2>4. Dated' /\ Distinct'
    BY <1>0, <1>2, <1>6, <2>1, <2>3 DEF Dated, Distinct
  <2>5. Stands'
    BY <1>2, <1>6a, <2>1, <2>3 DEF Stands
  <2>6. Accounted'
    BY <1>0, <1>2, <1>5, <1>6, <2>1 DEF Accounted
  <2>7. Calls'
    BY <1>8, <2>1 DEF Calls
  <2>8. QED BY <1>7a, <2>2, <2>4, <2>5, <2>6, <2>7 DEF DInv, Handles
<1>11. QED BY <1>9, <1>10
\* A file is closed: whatever reaches the PC, no other thread's file is.
LEMMA CloseD ==
  ASSUME Driver!DriverAssumption, DInv, NEW t \in Thread, Driver!io_close(t), ~mistaken'
  PROVE  DInv'
<1> DEFINE h == thr[t].h
<1>0. /\ Typed /\ Handles /\ Calls /\ opens \in Nat /\ MaxHandles \in Nat
      /\ Dated /\ Distinct /\ OneId /\ Stands /\ Accounted
  BY DEF DInv, Handles, Typed, Driver!DriverAssumption
<1>1. /\ thr[t].at = "idle" /\ Holds(t) /\ thr' = [thr EXCEPT ![t].h = Driver!NoHandle]
      /\ UNCHANGED <<connected, number, opens>>
  BY DEF Driver!io_close, Holds
<1>2. \/ ~connected /\ UNCHANGED <<table, faults, orphans>>
      \/ /\ faults' \in 0 .. MaxFaults
         /\ \/ /\ table' = [f \in Fid |-> IF f = h.arg THEN Driver!Closed ELSE table[f]]
               /\ UNCHANGED orphans /\ ~Driver!Mistakes(t)
            \/ UNCHANGED table /\ orphans' = orphans \cup {h.open}
  BY <1>0 DEF Driver!io_close, Driver!command_xchg, Driver!Reaches, Typed, Driver!DriverAssumption
<1>2a. ~Driver!Mistakes(t) => h.session = number \/ ~Driver!Opened(h.arg)
  BY DEF Driver!Mistakes
<1>3. Driver!NoHandle \in Handle /\ Driver!NoHandle.arg = Driver!None /\ Driver!NoHandle.open = 0 /\ Driver!Closed \in FileRec
      /\ Driver!Closed.open = 0
  BY DEF Driver!NoHandle, Handle, Driver!Closed, FileRec, Driver!DriverAssumption
<1>4. /\ thr' \in [Thread -> ThrRec] /\ thr'[t].h = Driver!NoHandle /\ thr'[t].at = "idle"
      /\ \A u \in Thread : u # t => thr'[u] = thr[u]
  BY <1>0, <1>1, <1>3, SetH
<1>5. ~Holds(t)' /\ \A u \in Thread : u # t => (Holds(u)' <=> Holds(u))
  BY <1>3, <1>4 DEF Holds
<1>6. h.open \in 1 .. opens /\ opens \in 0 .. MaxHandles /\ h.arg \in Fid
  BY <1>0, <1>1 DEF Dated, Typed, ThrRec, Handle, Holds
<1> HIDE DEF h
<1>7. /\ table' \in [Fid -> FileRec]
      /\ \A f \in Fid : table'[f] = table[f] \/ (f = h.arg /\ table'[f].open = 0)
  BY <1>0, <1>2, <1>3 DEF Typed
<1>8. Typed'
  <2>1. faults' \in 0 .. MaxFaults /\ orphans' \subseteq 1 .. MaxHandles
    <3>1. {h.open} \subseteq 1 .. MaxHandles
      BY <1>0, <1>6
    <3>2. orphans' \subseteq orphans \cup {h.open}
      BY <1>2
    <3>3. faults' \in 0 .. MaxFaults
      BY <1>0, <1>2 DEF Typed
    <3>4. QED BY <1>0, <3>1, <3>2, <3>3 DEF Typed
  <2>2. connected' \in BOOLEAN
    BY <1>0, <1>1 DEF Typed
  <2>3. QED BY <1>0, <1>1, <1>4, <1>7, <2>1, <2>2 DEF Typed
<1>9. Dated' /\ Distinct'
  BY <1>0, <1>1, <1>3, <1>4, <1>5 DEF Dated, Distinct
<1>10. OneId'
  BY <1>0, <1>1, <1>7 DEF OneId
<1>11. Stands'
  <2>1. ASSUME NEW u \in Thread, u # t, Holds(u)
        PROVE  IF thr[u].h.session = number THEN table'[thr[u].h.arg].open = thr[u].h.open
               ELSE \A f \in Fid : table'[f].open # thr[u].h.open
    <3>1. CASE thr[u].h.session = number
      <4>1. thr[u].h.arg \in Fid /\ Driver!Opened(thr[u].h.arg)
            /\ table[thr[u].h.arg].open = thr[u].h.open
        BY <1>0, <2>1, <3>1 DEF Typed, ThrRec, Handle, Holds, Stands, Dated, Driver!Opened
      <4>2. CASE h.session = number
        <5>1. Driver!Opened(h.arg) => thr[u].h.arg # h.arg
          BY <1>0, <2>1, <3>1, <4>1, <4>2, Apart DEF h
        <5>2. QED BY <1>7, <3>1, <4>1, <5>1
      <4>3. CASE h.session # number
        <5>1. table' = table \/ ~Driver!Opened(h.arg)
          BY <1>2, <1>2a, <4>3
        <5>2. QED BY <1>7, <3>1, <4>1, <5>1
      <4>4. QED BY <3>1, <4>2, <4>3
    <3>2. CASE thr[u].h.session # number
      <4>1. thr[u].h.open # 0
        BY <1>0, <2>1 DEF Dated
      <4>2. QED BY <1>0, <1>7, <2>1, <3>2, <4>1 DEF Stands
    <3>3. QED BY <3>1, <3>2
  <2>2. QED BY <1>1, <1>4, <1>5, <2>1 DEF Stands
<1>12. Accounted'
  <2>1. ASSUME NEW f \in Fid, table'[f].open # 0, connected
        PROVE  table'[f].open \in orphans' \/ \E u \in Thread : thr'[u].h.open = table'[f].open
    <3>1. table'[f] = table[f] /\ orphans \subseteq orphans'
      BY <1>2, <1>7, <2>1
    <3>2. CASE table[f].open \in orphans
      BY <3>1, <3>2
    <3>3. CASE table[f].open = h.open
      <4>1. CASE table' = [g \in Fid |-> IF g = h.arg THEN Driver!Closed ELSE table[g]]
        <5>1. f # h.arg
          BY <1>3, <2>1, <4>1
        <5>2. h.session = number
          BY <1>0, <1>1, <3>3 DEF Stands, h
        <5>3. table[h.arg].open = h.open
          BY <1>0, <1>1, <5>2 DEF Stands, h
        <5>4. QED BY <1>0, <1>6, <2>1, <3>1, <3>3, <5>1, <5>3 DEF OneId
      <4>2. CASE orphans' = orphans \cup {h.open}
        BY <3>1, <3>3, <4>2
      <4>3. QED BY <1>2, <2>1, <4>1, <4>2
    <3>4. ASSUME NEW u \in Thread, u # t, thr[u].h.open = table[f].open
          PROVE  \E v \in Thread : thr'[v].h.open = table'[f].open
      BY <1>4, <3>1, <3>4
    <3>5. QED BY <1>0, <2>1, <3>1, <3>2, <3>3, <3>4 DEF Accounted, h
  <2>2. QED BY <1>1, <2>1 DEF Accounted
<1>13. Calls'
  <2>1. ASSUME NEW u \in Thread PROVE CallOf(u)'
    <3>1. CASE u = t
      BY <1>4, <3>1 DEF CallOf
    <3>2. CASE u # t
      BY <1>0, <1>1, <1>4, <1>7, <3>2, CallKept DEF Calls, Driver!Opened
    <3>3. QED BY <3>1, <3>2
  <2>2. QED BY <2>1 DEF Calls
<1>14. QED BY <1>8, <1>9, <1>10, <1>11, <1>12, <1>13 DEF DInv, Handles

\* The position of an open file is moved, and the call of the thread that holds it
\* goes on.
LEMMA MoveD ==
  ASSUME Driver!DriverAssumption, DInv, NEW t \in Thread, CallOf(t)',
         thr' \in [Thread -> ThrRec], thr'[t].h = thr[t].h,
         \A u \in Thread : u # t => thr'[u] = thr[u],
         UNCHANGED <<connected, number, opens, orphans>>, faults' \in 0 .. MaxFaults,
         \/ UNCHANGED table
         \/ /\ Driver!Opened(thr[t].h.arg) /\ thr[t].h.session = number
            /\ \E p \in 0 .. Size : table' = [table EXCEPT ![thr[t].h.arg].pos = p]
  PROVE  DInv'
<1>0. Typed /\ Handles /\ Calls
  BY DEF DInv
<1>1. /\ table' \in [Fid -> FileRec] /\ \A f \in Fid : table'[f].open = table[f].open
      /\ \A f \in Fid : table'[f] = table[f] \/ ( /\ Driver!Opened(thr[t].h.arg)
                                                /\ thr[t].h.session = number
                                                /\ f = thr[t].h.arg )
  <2>1. CASE UNCHANGED table
    BY <1>0, <2>1 DEF Typed
  <2>2. ASSUME NEW p \in 0 .. Size, Driver!Opened(thr[t].h.arg), thr[t].h.session = number,
               table' = [table EXCEPT ![thr[t].h.arg].pos = p]
        PROVE  <1>1!1 /\ <1>1!2
    BY <1>0, <2>2 DEF Typed, FileRec, Driver!Opened
  <2>3. QED BY <2>1, <2>2
<1>2. Typed'
  <2>1. connected' \in BOOLEAN
    BY <1>0 DEF Typed
  <2>2. QED BY <1>0, <1>1, <2>1 DEF Typed
<1>3. Handles'
  BY <1>0, <1>1, HandlesKept
<1>4. ASSUME NEW u \in Thread, u # t PROVE CallOf(u)'
  <2>1. Driver!Opened(thr[u].h.arg)' => Driver!Opened(thr[u].h.arg) /\ thr[u].h.arg \in Fid
    BY <1>1, <1>4 DEF Driver!Opened
  <2>2. ASSUME Driver!Opened(thr[u].h.arg), Driver!Opened(thr[t].h.arg),
               thr[u].h.session = number, thr[t].h.session = number
        PROVE  thr[u].h.arg # thr[t].h.arg
    BY <1>0, <1>4, <2>2, Apart
  <2>3. QED BY <1>0, <1>1, <1>4, <2>1, <2>2, CallKept DEF Calls
<1>5. QED BY <1>2, <1>3, <1>4 DEF DInv, Calls
-----------------------------------------------------------------------------
(* Transfers. *)

\* io_lseek moves the position of a file no call is at work on.
LEMMA SeekD ==
  ASSUME Driver!DriverAssumption, DInv, NEW t \in Thread, NEW ofs \in 0 .. Size,
         Driver!io_lseek(t, ofs), ~mistaken'
  PROVE  DInv'
<1>0. Typed
  BY DEF DInv
<1>1. /\ thr[t].at = "idle" /\ Driver!Opened(thr[t].h.arg) /\ table' = [table EXCEPT ![thr[t].h.arg].pos = ofs]
      /\ UNCHANGED <<connected, number, thr, opens, orphans>> /\ thr[t].h.session = number
  BY DEF Driver!io_lseek, Driver!Mistakes
<1>2. faults' \in 0 .. MaxFaults
  BY <1>0 DEF Driver!io_lseek, Driver!command_xchg, Typed, Driver!DriverAssumption
<1>3. CallOf(t)'
  BY <1>1 DEF CallOf
<1>4. thr' \in [Thread -> ThrRec]
  BY <1>0, <1>1 DEF Typed
<1>5. QED BY <1>1, <1>2, <1>3, <1>4, MoveD

\* The call as it begins.
Started(op, len, pos, q, r, v) ==
  [Driver!NoCall EXCEPT !.op = op, !.len = len, !.start = pos, !.blocks = q, !.residual = r, !.ret = v]

Fresh(c, len, pos, q, r, v) ==
  /\ c \in Call /\ c.len = len /\ c.blocks = q /\ c.residual = r /\ c.ret = v /\ c.start = pos
  /\ c.data = 0 /\ c.moved = <<>> /\ ~c.lost /\ ~c.short /\ c.eaten = 0

\* The fields of a call that begins.
LEMMA FirstCall ==
  ASSUME NEW op \in {"read", "write"}, NEW len \in Int, NEW pos \in Nat, NEW q \in Nat,
         NEW r \in Nat, NEW v \in Int
  PROVE  Fresh(Started(op, len, pos, q, r, v), len, pos, q, r, v)
<1> DEFINE c == Started(op, len, pos, q, r, v)
<1>1. Driver!NoCall \in Call
  BY DEF Driver!NoCall, Call, Moves
<1> DEFINE d == [Driver!NoCall EXCEPT !.op = op, !.len = len, !.start = pos]
           e == [d EXCEPT !.blocks = q, !.residual = r]
<1>2. d \in Call
  BY <1>1 DEF Call
<1>3. c = [e EXCEPT !.ret = v]
  BY DEF Started
<1> HIDE DEF d
<1>4. e \in Call
  BY <1>2 DEF Call
<1> HIDE DEF e
<1>5. c \in Call
  BY <1>3, <1>4 DEF Call
<1>6. QED BY <1>5 DEF Fresh, Started, Driver!NoCall

\* A call begins with nothing moved and all blocks to go.
LEMMA BeginD ==
  ASSUME Driver!DriverAssumption, DInv, NEW t \in Thread, NEW len \in Int, NEW null \in BOOLEAN,
         NEW op \in {"read", "write"}, Driver!Begin(t, op, len, null)
  PROVE  DInv'
<1> DEFINE now == len <= 0 \/ null
           pos == Driver!Position(t)
           a == IF now THEN "done" ELSE "block"
           q == IF now THEN 0 ELSE len \div MaxBlock
           r == IF now THEN 0 ELSE len % MaxBlock
           v == IF len < 0 \/ (null /\ len # 0) THEN -1 ELSE 0
           c == Started(op, len, pos, q, r, v)
<1>0. Typed /\ MaxBlock \in Nat \ {0}
  BY DEF DInv, Driver!DriverAssumption
<1>1. /\ thr[t].at = "idle" /\ Holds(t) /\ thr' = [thr EXCEPT ![t].at = a, ![t].call = c]
      /\ UNCHANGED <<connected, number, table, opens, faults, orphans, mistaken>>
  BY DEF Driver!Begin, Holds, Started
<1>2. pos \in Nat /\ (Driver!Opened(thr[t].h.arg) => pos = table[thr[t].h.arg].pos)
  <2>1. CASE Driver!Opened(thr[t].h.arg)
    <3>1. table[thr[t].h.arg] \in FileRec
      BY <1>0, <2>1 DEF Driver!Opened, Typed
    <3>2. QED BY <2>1, <3>1 DEF Driver!Position, FileRec, Driver!DriverAssumption
  <2>2. CASE ~Driver!Opened(thr[t].h.arg)
    BY <2>2 DEF Driver!Position
  <2>3. QED BY <2>1, <2>2
<1>3. /\ q \in Nat /\ r \in Nat /\ v \in {-1, 0} /\ (now /\ v = 0 => len = 0)
      /\ ~now => /\ v = 0 /\ len > 0 /\ r < MaxBlock /\ q * MaxBlock + r = len
  <2>1. CASE now
    BY <2>1
  <2>2. CASE ~now
    <3>1. len \in Nat /\ len > 0 /\ q = len \div MaxBlock /\ r = len % MaxBlock /\ v = 0
      BY <2>2
    <3>2. /\ len \div MaxBlock \in Nat /\ len % MaxBlock \in 0 .. (MaxBlock - 1)
          /\ (len \div MaxBlock) * MaxBlock + (len % MaxBlock) = len
      BY <1>0, <3>1, Split
    <3> HIDE DEF q, r, v
    <3>3. QED BY <1>0, <2>2, <3>1, <3>2
  <2>3. QED BY <2>1, <2>2
<1> HIDE DEF now, pos, q, r, v
<1>4. /\ c \in Call /\ c.len = len /\ c.blocks = q /\ c.residual = r /\ c.ret = v /\ c.start = pos
      /\ c.data = 0 /\ c.moved = <<>> /\ ~c.lost /\ ~c.short /\ c.eaten = 0
  <2>1. v \in Int /\ pos \in Nat /\ q \in Nat /\ r \in Nat
    BY <1>2, <1>3
  <2>2. Fresh(c, len, pos, q, r, v)
    BY <2>1, FirstCall
  <2> HIDE DEF c
  <2>3. QED BY <2>2 DEF Fresh
<1>6. a \in At
  BY DEF At
<1> HIDE DEF c, a
<1>7. /\ thr' \in [Thread -> ThrRec] /\ thr'[t].h = thr[t].h
      /\ thr'[t].at = a /\ thr'[t].call = c
      /\ \A u \in Thread : u # t => thr'[u] = thr[u]
  BY <1>0, <1>1, <1>4, <1>6, SetCall
<1>8. Holds(t)'
  BY <1>1, <1>7 DEF Holds
<1>9. c.ret = 0 => Moved(t)' /\ Behind(t)'
  <2>1. ASSUME c.ret = 0 PROVE Moved(t)'
    BY <1>4, <1>7, <2>1, RunEmpty DEF Moved
  <2>2. ASSUME c.ret = 0 PROVE Behind(t)'
    <3>1. Driver!Opened(thr[t].h.arg) => table[thr[t].h.arg].pos = c.start + c.ret
      BY <1>2, <1>4, <2>2
    <3>2. QED BY <1>1, <1>7, <3>1 DEF Behind, Driver!Opened
  <2>3. QED BY <2>1, <2>2
<1>10. CASE now
  <2>1. /\ thr'[t].at = "done" /\ c.ret \in {-1, 0} /\ (c.ret = 0 => c.len = 0)
        /\ c.moved = <<>> /\ c.eaten = 0 /\ Driver!Unreported(c) = 0
    BY <1>3, <1>4, <1>7, <1>10 DEF a, Driver!Unreported
  <2>2. Over(t)'
    BY <1>0, <1>7, <2>1, RunEmpty DEF Over
  <2>3. CallOf(t)'
    BY <1>8, <2>1, <2>2 DEF CallOf
  <2>4. QED BY <1>0, <1>1, <1>7, <2>3, MoveD DEF Typed
<1>11. CASE ~now
  <2>1. thr'[t].at = "block"
    BY <1>7, <1>11 DEF a
  <2>2. /\ c.ret = 0 /\ c.residual < MaxBlock /\ (c.blocks > 0 \/ c.residual > 0)
        /\ c.ret + (c.blocks * MaxBlock + c.residual) = c.len
    <3>1. q > 0 \/ r > 0
      <4>1. ASSUME q = 0, r = 0 PROVE FALSE
        BY <1>0, <1>3, <1>11, <4>1
      <4>2. QED BY <1>3, <4>1
    <3>2. c.ret = 0 /\ c.residual = r /\ c.blocks = q /\ c.len = len
      BY <1>3, <1>4, <1>11
    <3>3. QED BY <1>3, <1>11, <3>1, <3>2
  <2>3. Under(t)'
    BY <1>4, <1>7, <1>9, <2>2 DEF Under
  <2>4. CallOf(t)'
    BY <1>8, <2>1, <2>3 DEF CallOf
  <2>5. QED BY <1>0, <1>1, <1>7, <2>4, MoveD DEF Typed
<1>12. QED BY <1>10, <1>11

\* A call that returns makes way for the next.
LEMMA ReturnD ==
  ASSUME Driver!DriverAssumption, DInv, NEW t \in Thread, Driver!Return(t)
  PROVE  DInv'
<1>0. Typed
  BY DEF DInv
<1>1. Driver!NoCall \in Call /\ "idle" \in At
  BY DEF Driver!NoCall, Call, Moves, At
<1>2. /\ thr' = [thr EXCEPT ![t].at = "idle", ![t].call = Driver!NoCall]
      /\ UNCHANGED <<connected, number, table, opens, faults, orphans, mistaken>>
  BY DEF Driver!Return
<1>3. /\ thr' \in [Thread -> ThrRec] /\ thr'[t].h = thr[t].h /\ thr'[t].at = "idle"
      /\ \A u \in Thread : u # t => thr'[u] = thr[u]
  BY <1>0, <1>1, <1>2, SetCall
<1>4. CallOf(t)'
  BY <1>3 DEF CallOf
<1>5. QED BY <1>0, <1>2, <1>3, <1>4, MoveD DEF Typed
\* What the PC answers fits the block asked for and the file.
Fits(t, res, n) ==
  /\ res \in Int /\ n \in Nat
  /\ n > 0 => Driver!Opened(thr[t].h.arg) /\ table[thr[t].h.arg].pos + n \in 0 .. Size
  /\ IF res > 0 THEN n = res /\ res <= Driver!Ask(thr[t].call)
     ELSE n = 0 \/ n < Driver!Ask(thr[t].call)

\* Every result that the PC can give fits.
LEMMA ResultsFit ==
  ASSUME Driver!DriverAssumption, Typed, NEW t \in Thread, NEW r \in Driver!Results(t)
  PROVE  Fits(t, r[1], r[2])
<1> DEFINE h == thr[t].h
           ask == Driver!Ask(thr[t].call)
           left == Size - table[h.arg].pos
           most == IF left < ask THEN left ELSE ask
           good == IF thr[t].call.op = "read" THEN {most} ELSE 0 .. most
<1>1. ask \in Nat
  BY DEF Driver!Ask, Typed, ThrRec, Call, Driver!DriverAssumption
<1>2. CASE ~Driver!Opened(h.arg)
  BY <1>2 DEF Driver!Results, Fits
<1>3. CASE Driver!Opened(h.arg)
  <2>1. table[h.arg].pos \in 0 .. Size /\ Size \in Nat
    BY <1>3 DEF Driver!Opened, Typed, FileRec, Driver!DriverAssumption
  <2>2. most \in Nat /\ most <= ask /\ table[h.arg].pos + most <= Size
    BY <1>1, <2>1
  <2>3. \/ \E n \in good : r = <<n, n>>
        \/ \E n \in 0 .. most : n < ask /\ r = <<-1, n>>
    BY <1>3 DEF Driver!Results
  <2>4. good \subseteq 0 .. most
    BY <2>2
  <2> HIDE DEF most, ask, h, good
  <2>5. ASSUME NEW n \in 0 .. most, r = <<n, n>> \/ (n < ask /\ r = <<-1, n>>)
        PROVE  Fits(t, r[1], r[2])
    <3>1. n \in Nat /\ n <= ask /\ table[h.arg].pos + n \in 0 .. Size
      BY <1>1, <2>1, <2>2
    <3>2. (r[1] = n /\ r[2] = n) \/ (n < ask /\ r[1] = -1 /\ r[2] = n)
      BY <2>5
    <3>3. QED BY <1>1, <1>3, <3>1, <3>2 DEF Fits, ask, h
  <2>6. QED BY <2>3, <2>4, <2>5
<1>4. QED BY <1>2, <1>3

\* A block that fails ends the call with an error.
LEMMA FailedD ==
  ASSUME Driver!DriverAssumption, DInv, NEW t \in Thread, thr[t].at = "block", Driver!Failed(t)
  PROVE  /\ CallOf(t)' /\ thr' \in [Thread -> ThrRec] /\ thr'[t].h = thr[t].h
         /\ \A u \in Thread : u # t => thr'[u] = thr[u]
<1> DEFINE v == -1
           c == [thr[t].call EXCEPT !.ret = v, !.lost = TRUE]
<1>0. Typed /\ Calls /\ thr[t].call \in Call
  BY DEF DInv, Typed, ThrRec
<1>1. thr' = [thr EXCEPT ![t].at = "done", ![t].call = c]
  BY DEF Driver!Failed
<1>2. v \in Int /\ v < 0
  OBVIOUS
<1> HIDE DEF v
<1>2a. c \in Call /\ c.ret = v /\ c.lost = TRUE
  BY <1>0, <1>2 DEF Call
<1> HIDE DEF c
<1>3. /\ thr' \in [Thread -> ThrRec] /\ thr'[t].h = thr[t].h /\ thr'[t].at = "done"
      /\ thr'[t].call = c /\ \A u \in Thread : u # t => thr'[u] = thr[u]
  BY <1>0, <1>1, <1>2a, SetCall DEF At
<1>4. Over(t)'
  BY <1>2, <1>2a, <1>3 DEF Over
<1>5. Holds(t)'
  BY <1>0, <1>3 DEF Holds, Calls, CallOf
<1>6. CallOf(t)'
  BY <1>3, <1>4, <1>5 DEF CallOf
<1>7. QED BY <1>3, <1>6

\* A call after a block that was refused.
Ends(old, v, n, moved) ==
  [old EXCEPT !.ret = v, !.short = TRUE, !.eaten = n, !.moved = moved]

\* The fields of a call after a block that was refused.
LEMMA CallEnds ==
  ASSUME NEW old \in Call, NEW v \in Int, NEW n \in Nat, NEW moved \in Moves
  PROVE  LET c == Ends(old, v, n, moved)
         IN  /\ c \in Call /\ c.ret = v /\ c.short /\ c.eaten = n /\ c.moved = moved
             /\ c.start = old.start /\ c.op = old.op
<1> DEFINE c == Ends(old, v, n, moved)
<1> DEFINE d == [old EXCEPT !.ret = v, !.short = TRUE]
<1>1. /\ d \in Call /\ d.ret = v /\ d.short /\ d.start = old.start /\ d.op = old.op
  BY DEF Call
<1>2. c = [d EXCEPT !.eaten = n, !.moved = moved]
  BY DEF Ends
<1> HIDE DEF d, c
<1>3. /\ c \in Call /\ c.ret = d.ret /\ c.short = d.short /\ c.eaten = n /\ c.moved = moved
      /\ c.start = d.start /\ c.op = d.op
  BY <1>1, <1>2 DEF Call
<1>4. QED BY <1>1, <1>3 DEF c

\* A block that is refused ends the call with what was moved before.
LEMMA RefusedD ==
  ASSUME Driver!DriverAssumption, DInv, NEW t \in Thread, thr[t].at = "block",
         NEW res \in Int, res <= 0, NEW n \in Nat, Fits(t, res, n),
         thr[t].h.session = number \/ ~Driver!Opened(thr[t].h.arg),
         Driver!Answered(t, res, n), UNCHANGED number,
         table' = IF n > 0 THEN [table EXCEPT ![thr[t].h.arg].pos = table[thr[t].h.arg].pos + n]
                  ELSE table
  PROVE  /\ CallOf(t)' /\ thr' \in [Thread -> ThrRec] /\ thr'[t].h = thr[t].h
         /\ \A u \in Thread : u # t => thr'[u] = thr[u]
<1> DEFINE old == thr[t].call
           h == thr[t].h
           v == Driver!Refused(old, res)
           k == IF old.op = "write" THEN n ELSE 0
           moved == Joined(old.moved, Driver!Written(t, n))
           c == Ends(old, v, n, moved)
           done == "done"
<1>0. /\ Typed /\ Handles /\ Calls /\ old \in Call /\ Holds(t) /\ Under(t) /\ h \in Handle
      /\ MaxBlock \in Nat \ {0}
  BY DEF DInv, Typed, ThrRec, Calls, CallOf, Driver!DriverAssumption
<1>1. /\ old.ret \in Nat /\ old.start \in Nat /\ old.moved \in Moves /\ h.open \in Nat
      /\ old.moved = Run(h.open, old.start, old.ret) /\ old.data = old.ret
      /\ old.residual < MaxBlock /\ old.residual \in Nat
  BY <1>0 DEF Under, Call, Moved, Handle
<1>2. v \in Int /\ (v >= 0 => v = old.ret) /\ (v < 0 => old.ret = 0)
  BY <1>1 DEF Driver!Refused
<1>3. n < MaxBlock
  <2>1. Driver!Ask(old) \in Nat /\ Driver!Ask(old) <= MaxBlock
    BY <1>0, <1>1 DEF Driver!Ask
  <2>2. QED BY <1>0, <2>1 DEF Fits
<1>4. n > 0 => /\ h.session = number /\ Driver!Opened(h.arg) /\ h.arg \in Fid
               /\ table[h.arg].open = h.open /\ table[h.arg].pos = old.start + old.ret
  <2>1. n > 0 => Driver!Opened(h.arg) /\ h.session = number
    BY DEF Fits
  <2>2. QED BY <1>0, <2>1, Mine DEF Under, Behind, Driver!Opened
<1>5. moved = Run(h.open, old.start, old.ret + k) /\ k \in Nat
  <2>1. CASE k = 0
    <3>1. Driver!Written(t, n) = <<>>
      <4>1. n = 0 \/ old.op # "write"
        BY <2>1
      <4>2. n = 0 => Driver!Bytes(t, n) = <<>>
        BY DEF Driver!Bytes
      <4>3. QED BY <4>1, <4>2 DEF Driver!Written
    <3>2. old.moved \o <<>> = old.moved
      BY <1>1 DEF Moves
    <3> HIDE DEF old, h, k
    <3>3. old.ret + k = old.ret
      BY <1>1, <2>1
    <3>4. QED BY <1>1, <2>1, <3>1, <3>2, <3>3 DEF Joined
  <2>2. CASE k # 0
    <3>1. k = n /\ n > 0 /\ Driver!Written(t, n) = Driver!Bytes(t, n)
      BY <2>2 DEF Driver!Written
    <3>2. Driver!Bytes(t, n) = Onwards(h.open, old.start, old.ret, n)
      BY <1>1, <1>4, <3>1 DEF Driver!Bytes, Onwards
    <3> HIDE DEF old, h, k
    <3>3. Joined(Run(h.open, old.start, old.ret), Onwards(h.open, old.start, old.ret, n))
            = Run(h.open, old.start, old.ret + n)
      BY <1>1, RunOn
    <3>4. QED BY <1>1, <3>1, <3>2, <3>3
  <2>3. QED BY <2>1, <2>2
<1>6. moved \in Moves
  <2>1. old.ret + k \in Nat
    BY <1>1, <1>5
  <2> HIDE DEF moved, old, h, k
  <2>2. QED BY <1>1, <1>5, <2>1, RunTyped
<1>7. Sets(t, done, c)
  <2>1. res <= 0 /\ ~(res > 0)
    OBVIOUS
  <2>2. QED BY <2>1 DEF Driver!Answered, Sets, Ends, Joined
<1> HIDE DEF v, moved
<1>8. /\ c \in Call /\ c.ret = v /\ c.short /\ c.eaten = n /\ c.moved = moved
      /\ c.start = old.start /\ c.op = old.op
  <2> HIDE DEF c, old
  <2>1. c = Ends(old, v, n, moved)
    BY DEF c
  <2>2. old \in Call /\ v \in Int /\ n \in Nat /\ moved \in Moves
    BY <1>0, <1>2, <1>6
  <2>3. QED BY <2>1, <2>2, CallEnds
<1> HIDE DEF c, done
<1>9. /\ thr' \in [Thread -> ThrRec] /\ thr'[t].h = h /\ thr'[t].at = done
      /\ thr'[t].call = c /\ \A u \in Thread : u # t => thr'[u] = thr[u]
  <2>1. done \in At
    BY DEF At, done
  <2>2. QED BY <1>0, <1>7, <1>8, <2>1, CallSet
<1>10. Driver!Unreported(c) = k
  BY <1>8 DEF Driver!Unreported
<1>11. v > 0 => Beyond(t)'
  <2>1. CASE n > 0
    <3>1. table'[h.arg].pos = table[h.arg].pos + n
      BY <1>0, <1>4, <2>1 DEF Typed, FileRec
    <3>2. v > 0 => table'[h.arg].pos = c.start + c.ret + c.eaten
      BY <1>1, <1>2, <1>4, <1>8, <2>1, <3>1
    <3>3. QED BY <1>8, <1>9, <3>2 DEF Beyond
  <2>2. CASE n = 0
    <3>1. table' = table /\ (v > 0 => c.start + c.ret + c.eaten = old.start + old.ret)
      BY <1>1, <1>2, <1>8, <2>2
    <3>2. QED BY <1>0, <1>8, <1>9, <3>1 DEF Beyond, Under, Behind, Driver!Opened
  <2>3. QED BY <2>1, <2>2
<1>12. Over(t)'
  <2>1. v >= 0 => c.moved = Run(h.open, c.start, c.ret + Driver!Unreported(c))
    BY <1>2, <1>5, <1>8, <1>10
  <2>2. v < 0 => c.moved = Run(h.open, c.start, Driver!Unreported(c))
    <3>1. v < 0 => old.ret + k = k
      BY <1>2, <1>5
    <3>2. QED BY <1>5, <1>8, <1>10, <3>1
  <2>3. QED BY <1>3, <1>8, <1>9, <1>11, <2>1, <2>2 DEF Over
<1>13. Holds(t)'
  BY <1>0, <1>9 DEF Holds
<1>14. CallOf(t)'
  BY <1>9, <1>12, <1>13 DEF CallOf, done
<1>15. QED BY <1>9, <1>14
\* A call after one more block.
Went(old, data, ret, q, moved, short) ==
  [old EXCEPT !.data = data, !.ret = ret, !.blocks = q, !.moved = moved, !.short = short]
Gone(c, old, ret, q, moved, short) ==
  /\ c \in Call /\ c.ret = ret /\ c.data = ret /\ c.blocks = q /\ c.moved = moved
  /\ (c.short <=> short) /\ c.start = old.start /\ c.residual = old.residual
  /\ c.len = old.len /\ (c.lost <=> old.lost) /\ c.eaten = old.eaten

\* The fields of a call after one more block.
LEMMA CallGoes ==
  ASSUME NEW old \in Call, NEW ret \in Nat, NEW q \in Nat, NEW moved \in Moves,
         NEW short \in BOOLEAN
  PROVE  Gone(Went(old, ret, ret, q, moved, short), old, ret, q, moved, short)
<1> DEFINE x == [old EXCEPT !.data = ret]
           d == [x EXCEPT !.ret = ret]
           e == [d EXCEPT !.blocks = q, !.moved = moved]
           c == [e EXCEPT !.short = short]
<1>1. /\ d \in Call /\ d.data = ret /\ d.ret = ret /\ d.start = old.start
      /\ d.residual = old.residual /\ d.len = old.len /\ (d.lost <=> old.lost)
      /\ d.eaten = old.eaten
  <2>1. /\ x \in Call /\ x.data = ret /\ x.start = old.start
        /\ x.residual = old.residual /\ x.len = old.len /\ (x.lost <=> old.lost)
        /\ x.eaten = old.eaten
    BY DEF Call
  <2> HIDE DEF x
  <2>2. d \in Call
    BY <2>1 DEF Call
  <2>3. QED BY <2>1, <2>2 DEF Call
<1>2. c = Went(old, ret, ret, q, moved, short)
  BY DEF Went
<1> HIDE DEF d
<1>3. /\ e \in Call /\ e.data = d.data /\ e.ret = d.ret /\ e.start = d.start /\ e.blocks = q
      /\ e.moved = moved /\ e.residual = d.residual /\ e.len = d.len /\ (e.lost <=> d.lost)
      /\ e.eaten = d.eaten
  <2>1. e \in Call
    BY <1>1 DEF Call
  <2>2. QED BY <1>1, <2>1 DEF Call
<1> HIDE DEF e
<1>4. /\ c \in Call /\ c.data = e.data /\ c.ret = e.ret /\ c.start = e.start
      /\ c.blocks = e.blocks /\ c.moved = e.moved /\ c.residual = e.residual
      /\ c.len = e.len /\ (c.lost <=> e.lost) /\ (c.short <=> short)
      /\ c.eaten = e.eaten
  <2>1. c \in Call
    BY <1>3 DEF Call
  <2>2. QED BY <1>3, <2>1 DEF Call
<1> HIDE DEF c
<1>5. Gone(c, old, ret, q, moved, short)
  BY <1>1, <1>3, <1>4 DEF Gone
<1>6. QED BY <1>2, <1>5

\* A block that moves bytes moves the next ones.
LEMMA AnsweredD ==
  ASSUME Driver!DriverAssumption, DInv, NEW t \in Thread, thr[t].at = "block",
         NEW res \in Int, res > 0, res <= Driver!Ask(thr[t].call), Driver!Opened(thr[t].h.arg),
         thr[t].h.session = number, Driver!Answered(t, res, res), UNCHANGED number,
         table' = [table EXCEPT ![thr[t].h.arg].pos = table[thr[t].h.arg].pos + res]
  PROVE  /\ CallOf(t)' /\ thr' \in [Thread -> ThrRec] /\ thr'[t].h = thr[t].h
         /\ \A u \in Thread : u # t => thr'[u] = thr[u]
<1> DEFINE old == thr[t].call
           h == thr[t].h
           a == IF Driver!Ended(old) THEN "done" ELSE "block"
           q == IF old.blocks > 0 THEN old.blocks - 1 ELSE 0
           ret == old.ret + res
           bytes == Driver!Bytes(t, res)
           moved == Joined(old.moved, bytes)
           short == old.short \/ res < Driver!Ask(old)
           c == Went(old, Driver!Advance(old, res), ret, q, moved, short)
<1>0. /\ Typed /\ Handles /\ Calls /\ old \in Call /\ h \in Handle /\ Holds(t) /\ Under(t)
      /\ MaxBlock \in Nat \ {0} /\ res \in Nat
  BY DEF DInv, Typed, ThrRec, Calls, CallOf, Driver!DriverAssumption
<1>1. /\ old.ret \in Nat /\ old.data = old.ret /\ old.start \in Nat /\ old.blocks \in Nat
      /\ old.residual \in Nat /\ old.len \in Int /\ old.short \in BOOLEAN /\ ~old.lost
      /\ old.eaten = 0
      /\ old.moved = Run(h.open, old.start, old.ret) /\ h.open \in Nat
      /\ old.residual < MaxBlock /\ (old.blocks > 0 \/ old.residual > 0)
      /\ ~old.short => old.ret + (old.blocks * MaxBlock + old.residual) = old.len
  BY <1>0 DEF Under, Moved, Call, Handle
<1>2. table[h.arg].open = h.open /\ table[h.arg].pos = old.start + old.ret /\ h.arg \in Fid
      /\ h.session = number
  BY <1>0, Mine DEF Under, Behind, Driver!Opened
<1>3. Sets(t, a, c)
  BY DEF Driver!Answered, Went, Joined, Sets
<1>4. bytes = Onwards(h.open, old.start, old.ret, res)
  BY <1>1, <1>2 DEF Driver!Bytes, Onwards
<1>5. moved = Run(h.open, old.start, ret)
  <2>1. /\ h.open \in Nat /\ old.start \in Nat /\ old.ret \in Nat /\ res \in Nat
        /\ old.moved = Run(h.open, old.start, old.ret)
    BY <1>0, <1>1
  <2> HIDE DEF old, h, bytes
  <2>2. Joined(Run(h.open, old.start, old.ret), Onwards(h.open, old.start, old.ret, res))
          = Run(h.open, old.start, old.ret + res)
    BY <2>1, RunOn
  <2>3. QED BY <1>4, <2>1, <2>2
<1>6. ret \in Nat /\ ret > 0 /\ q \in Nat /\ short \in BOOLEAN /\ Driver!Advance(old, res) = ret
  BY <1>0, <1>1 DEF Driver!Advance
<1>7. moved \in Moves
  <2>1. h.open \in Nat /\ old.start \in Nat /\ ret \in Nat
    BY <1>1, <1>6
  <2> HIDE DEF h, old, ret, moved
  <2>2. QED BY <1>5, <2>1, RunTyped
<1>8. a \in At
  BY DEF At
<1>9. /\ old.blocks > 0 /\ ~Driver!Ended(old) => q > 0 \/ old.residual > 0
      /\ ~Driver!Ended(old) => old.blocks > 0
  BY <1>1 DEF Driver!Ended
<1>10. ~short => ret + (q * MaxBlock + (IF old.blocks > 0 THEN old.residual ELSE 0)) = old.len
  <2>1. ASSUME ~short PROVE res = Driver!Ask(old) /\ ~old.short
    <3>1. ~old.short /\ ~(res < Driver!Ask(old))
      BY <2>1
    <3>2. Driver!Ask(old) \in Nat
      BY <1>0, <1>1 DEF Driver!Ask
    <3>3. res = Driver!Ask(old)
      BY <1>0, <3>1, <3>2
    <3>4. QED BY <3>1, <3>3
  <2>2. ASSUME ~short, old.blocks > 0
        PROVE  ret + (q * MaxBlock + old.residual) = old.len
    <3>1. res = MaxBlock /\ q = old.blocks - 1
      BY <2>1, <2>2 DEF Driver!Ask
    <3>2. (old.blocks - 1) * MaxBlock + MaxBlock = old.blocks * MaxBlock
      BY <1>0, <1>1, <2>2, BlockLess
    <3>3. old.ret + (old.blocks * MaxBlock + old.residual) = old.len
      BY <1>1, <2>1, <2>2
    <3>4. q * MaxBlock \in Int /\ old.blocks * MaxBlock \in Int
      BY <1>0, <1>1, <1>6
    <3>5. q * MaxBlock + MaxBlock = old.blocks * MaxBlock
      BY <3>1, <3>2
    <3>6. ret = old.ret + MaxBlock
      BY <3>1
    <3> HIDE DEF q, ret, old
    <3>7. QED BY <1>0, <1>1, <3>3, <3>4, <3>5, <3>6
  <2>3. ASSUME ~short, ~(old.blocks > 0)
        PROVE  ret + (q * MaxBlock + 0) = old.len
    <3>1. res = old.residual /\ q = 0 /\ old.blocks = 0
      BY <1>1, <2>1, <2>3 DEF Driver!Ask
    <3>2. old.ret + (0 * MaxBlock + old.residual) = old.len
      BY <1>1, <2>1, <2>3, <3>1
    <3>3. QED BY <1>0, <1>1, <3>1, <3>2
  <2>4. QED BY <2>2, <2>3
<1> HIDE DEF moved, short, ret, q, bytes
<1>11. /\ c \in Call /\ c.ret = ret /\ c.data = ret /\ c.blocks = q /\ c.moved = moved
       /\ (c.short <=> short) /\ c.start = old.start /\ c.residual = old.residual
       /\ c.len = old.len /\ (c.lost <=> old.lost) /\ c.eaten = 0
  <2>1. old \in Call /\ ret \in Nat /\ q \in Nat /\ moved \in Moves /\ short \in BOOLEAN
    BY <1>0, <1>6, <1>7
  <2>2. c = Went(old, ret, ret, q, moved, short)
    BY <1>6
  <2> HIDE DEF c, old
  <2>3. Gone(c, old, ret, q, moved, short)
    BY <2>1, <2>2, CallGoes
  <2>4. QED BY <1>1, <2>3 DEF Gone, old
<1> HIDE DEF c, a
<1>12. /\ thr' \in [Thread -> ThrRec] /\ thr'[t].h = h /\ thr'[t].at = a
       /\ thr'[t].call = c /\ \A u \in Thread : u # t => thr'[u] = thr[u]
  <2>1. Typed /\ c \in Call
    BY <1>0, <1>11
  <2>2. QED BY <1>3, <1>8, <2>1, CallSet
<1>13. Holds(t)'
  BY <1>0, <1>12 DEF Holds
<1>14. Moved(t)'
  BY <1>5, <1>11, <1>12 DEF Moved
<1>15. Behind(t)'
  <2>1. table'[h.arg].pos = table[h.arg].pos + res
    BY <1>0, <1>2 DEF Typed, FileRec
  <2>2. table'[h.arg].pos = old.start + ret
    BY <1>0, <1>1, <1>2, <2>1 DEF ret
  <2>3. QED BY <1>11, <1>12, <2>2 DEF Behind
<1>16. CASE Driver!Ended(old)
  <2>1. thr'[t].at = "done"
    BY <1>12, <1>16 DEF a
  <2>2. ~short => ret = old.len
    <3>1. q = 0 /\ (old.blocks > 0 => old.residual = 0)
      BY <1>1, <1>16 DEF Driver!Ended, q
    <3>2. ASSUME ~short PROVE ret + (0 * MaxBlock + 0) = old.len
      BY <1>10, <3>1, <3>2
    <3>3. QED BY <1>0, <1>1, <1>6, <3>2
  <2>3. Over(t)'
    <3>1. c.eaten = 0 /\ Driver!Unreported(c) = 0 /\ c.ret + 0 = c.ret
      BY <1>6, <1>11 DEF Driver!Unreported
    <3>2. Beyond(t)'
      BY <1>6, <1>11, <1>12, <1>15, <3>1 DEF Behind, Beyond, Call
    <3>3. c.moved = Run(h.open, c.start, c.ret + Driver!Unreported(c))
      BY <1>5, <1>11, <3>1
    <3>4. QED BY <1>6, <1>11, <1>12, <2>2, <3>1, <3>2, <3>3 DEF Over
  <2>4. CallOf(t)'
    BY <1>13, <2>1, <2>3 DEF CallOf
  <2>5. QED BY <1>12, <2>4
<1>17. CASE ~Driver!Ended(old)
  <2>1. thr'[t].at = "block"
    BY <1>12, <1>17 DEF a
  <2>2. ~short => ret + (q * MaxBlock + old.residual) = old.len
    BY <1>9, <1>10, <1>17
  <2>3. Under(t)'
    BY <1>1, <1>6, <1>9, <1>11, <1>12, <1>14, <1>15, <1>17, <2>2 DEF Under
  <2>4. CallOf(t)'
    BY <1>13, <2>1, <2>3 DEF CallOf
  <2>5. QED BY <1>12, <2>4
<1>18. QED BY <1>16, <1>17

\* A block answered, lost on the way back, never sent, or sent over a link that is down.
LEMMA BlockD ==
  ASSUME Driver!DriverAssumption, DInv, NEW t \in Thread, Driver!Block(t), ~mistaken'
  PROVE  DInv'
<1>0. Typed /\ thr[t].at = "block" /\ UNCHANGED <<connected, number, opens, orphans>>
  BY DEF DInv, Driver!Block
<1>1. faults' \in 0 .. MaxFaults
  <2>1. UNCHANGED faults \/ \E outcome \in Driver!Outcome : Driver!command_xchg(outcome)
    BY DEF Driver!Block, Driver!Outcome
  <2>2. UNCHANGED faults \/ (faults < MaxFaults /\ faults' = faults + 1)
    BY <2>1 DEF Driver!command_xchg
  <2>3. faults \in 0 .. MaxFaults /\ MaxFaults \in Nat
    BY <1>0 DEF Typed, Driver!DriverAssumption
  <2>4. QED BY <2>2, <2>3
<1>2. CASE Driver!Failed(t) /\ UNCHANGED table
  <2>1. /\ CallOf(t)' /\ thr' \in [Thread -> ThrRec] /\ thr'[t].h = thr[t].h
        /\ \A u \in Thread : u # t => thr'[u] = thr[u]
    BY <1>0, <1>2, FailedD
  <2>2. QED BY <1>0, <1>1, <1>2, <2>1, MoveD
<1>3. ASSUME NEW r \in Driver!Results(t), Driver!Answered(t, r[1], r[2]) \/ Driver!Failed(t),
             table' = IF r[2] > 0 THEN [table EXCEPT ![thr[t].h.arg].pos = @ + r[2]] ELSE table,
             ~Driver!Mistakes(t)
      PROVE  DInv'
  <2> DEFINE res == r[1]
             n == r[2]
  <2>1. Fits(t, res, n)
    BY <1>0, ResultsFit
  <2>2. thr[t].h.session = number \/ ~Driver!Opened(thr[t].h.arg)
    BY <1>3 DEF Driver!Mistakes
  <2>3. table' = IF n > 0 THEN [table EXCEPT ![thr[t].h.arg].pos = table[thr[t].h.arg].pos + n]
                 ELSE table
    BY <1>3
  <2>4. Driver!Answered(t, res, n) \/ Driver!Failed(t)
    BY <1>3
  <2> HIDE DEF res, n
  <2>5. res \in Int /\ n \in Nat
    BY <2>1 DEF Fits
  <2>6. /\ CallOf(t)' /\ thr' \in [Thread -> ThrRec] /\ thr'[t].h = thr[t].h
        /\ \A u \in Thread : u # t => thr'[u] = thr[u]
    <3>1. CASE Driver!Failed(t)
      BY <1>0, <3>1, FailedD
    <3>2. CASE Driver!Answered(t, res, n) /\ res > 0
      <4>1. /\ n = res /\ n > 0 /\ res <= Driver!Ask(thr[t].call)
            /\ Driver!Opened(thr[t].h.arg) /\ thr[t].h.session = number
        BY <2>1, <2>2, <3>2 DEF Fits
      <4>2. /\ table' = [table EXCEPT ![thr[t].h.arg].pos = table[thr[t].h.arg].pos + res]
            /\ Driver!Answered(t, res, res)
        BY <2>3, <3>2, <4>1
      <4>3. QED BY <1>0, <2>5, <3>2, <4>1, <4>2, AnsweredD
    <3>3. CASE Driver!Answered(t, res, n) /\ ~(res > 0)
      <4>1. res <= 0
        BY <2>5, <3>3
      <4>2. QED BY <1>0, <2>1, <2>2, <2>3, <2>5, <3>3, <4>1, RefusedD
    <3>4. QED BY <2>4, <3>1, <3>2, <3>3
  <2>7. CASE n > 0
    <3>1. /\ Driver!Opened(thr[t].h.arg) /\ thr[t].h.session = number
          /\ \E p \in 0 .. Size : table' = [table EXCEPT ![thr[t].h.arg].pos = p]
      BY <2>1, <2>2, <2>3, <2>7 DEF Fits
    <3>2. QED BY <1>0, <1>1, <2>6, <3>1, MoveD
  <2>8. CASE ~(n > 0)
    BY <1>0, <1>1, <2>3, <2>6, <2>8, MoveD
  <2>9. QED BY <2>7, <2>8
<1>4. QED BY <1>2, <1>3 DEF Driver!Block

\* The invariant is inductive.
LEMMA NextD ==
  ASSUME Driver!DriverAssumption, DInv, [Driver!Next]_driverVars, ~mistaken'
  PROVE  DInv'
<1>1. ASSUME NEW t \in Thread, NEW len \in Lens, NEW null \in BOOLEAN,
             Driver!io_read(t, len, null) \/ Driver!io_write(t, len, null)
      PROVE  DInv'
  <2>1. len \in Int
    BY DEF Driver!DriverAssumption
  <2>2. QED BY <1>1, <2>1, BeginD DEF Driver!io_read, Driver!io_write
<1>2. QED BY <1>1, ConnectD, DisconnectD, OpenD, CloseD, SeekD, BlockD, ReturnD DEF Driver!Next

\* What was mistaken stays so.
LEMMA Forever ==
  ASSUME [Driver!Next]_driverVars, mistaken \in BOOLEAN
  PROVE  mistaken' \in BOOLEAN /\ (mistaken => mistaken')
<1>1. mistaken' = mistaken \/ \E t \in Thread : mistaken' = (mistaken \/ Driver!Mistakes(t))
  <2>1. ASSUME NEW t \in Thread, Driver!io_open(t) \/ Driver!Return(t) PROVE mistaken' = mistaken
    BY <2>1 DEF Driver!io_open, Driver!Return
  <2>2. ASSUME NEW t \in Thread, Driver!io_close(t) \/ Driver!Block(t)
        PROVE  mistaken' = mistaken \/ mistaken' = (mistaken \/ Driver!Mistakes(t))
    BY <2>2 DEF Driver!io_close, Driver!Block
  <2>3. ASSUME NEW t \in Thread, NEW ofs, Driver!io_lseek(t, ofs)
        PROVE  mistaken' = (mistaken \/ Driver!Mistakes(t))
    BY <2>3 DEF Driver!io_lseek
  <2>4. ASSUME NEW t \in Thread, NEW len, NEW null,
               Driver!io_read(t, len, null) \/ Driver!io_write(t, len, null)
        PROVE  mistaken' = mistaken
    BY <2>4 DEF Driver!io_read, Driver!io_write, Driver!Begin
  <2>5. CASE Driver!Connect \/ Driver!Disconnect \/ UNCHANGED driverVars
    BY <2>5 DEF Driver!Connect, Driver!Disconnect, driverVars
  <2>6. QED BY <2>1, <2>2, <2>3, <2>4, <2>5 DEF Driver!Next
<1>2. QED BY <1>1

\* A read or write of any length, cut in blocks of any size, returns how many bytes
\* it moved: the first ones of the buffer, in order, to or from where the file
\* stood, with the file left behind them but for what the PC moved of a block
\* before it refused it; a negative result means nothing else was moved unless an
\* exchange failed, and fewer bytes than asked only follow a short or refused block.
\* A handle of this session stands for the file it was opened for and no file stays
\* open on the PC that nobody accounts for.  This for any number of threads whose
\* blocks interleave and any loss of answers and sessions, until an id of an ended
\* session reaches a file of the present one (usb_read_data, usb_write_data,
\* io_open, io_close).
THEOREM TransfersAreExact == Driver!Spec => []TransfersExact
<1>1. Driver!DriverAssumption
  BY FileServiceAssumption
<1> DEFINE I == mistaken \in BOOLEAN /\ (~mistaken => DInv)
<1>2. Driver!Init => I
  BY <1>1, InitD DEF Driver!Init
<1>3. I /\ [Driver!Next]_driverVars => I'
  <2>1. SUFFICES ASSUME I, [Driver!Next]_driverVars PROVE I'
    OBVIOUS
  <2>2. mistaken' \in BOOLEAN /\ (mistaken => mistaken')
    BY <2>1, Forever
  <2>3. ASSUME ~mistaken' PROVE DInv'
    BY <1>1, <2>1, <2>2, <2>3, NextD
  <2>4. QED BY <2>2, <2>3
<1>4. I => TransfersExact
  BY <1>1, DInvGives DEF TransfersExact
<1>5. QED BY <1>2, <1>3, <1>4, PTL DEF Driver!Spec, Driver!vars, driverVars

-----------------------------------------------------------------------------
(* Attributes: HostStat. *)

\* The attributes are times and permissions there are.
StatTyped == file \in Stat!Attributes /\ stat \in Stat!Attributes /\ call.ok \in BOOLEAN

\* Whatever mktime makes of a time is a time.
LEMMA MkTime ==
  ASSUME NEW t \in Stat!Time, NEW u \in Stat!mktime(t)
  PROVE  u \in Stat!Time
<1>1. /\ Hours \in Nat \ {0} /\ t.hour \in 0 .. Hours - 1 /\ t.minute \in Minute
  BY FileServiceAssumption DEF Stat!StatAssumption, Stat!Time
<1>2. PICK h \in {0, 1, Hours - 1} : u = [t EXCEPT !.hour = (t.hour + h) % Hours]
  BY DEF Stat!mktime
<1>3. (t.hour + h) % Hours \in 0 .. Hours - 1
  BY <1>1, <1>2
<1>4. QED BY <1>1, <1>2, <1>3 DEF Stat!Time

\* The command psp_chstat gets holds attributes.
LEMMA CommandTyped ==
  ASSUME StatTyped
  PROVE  Stat!Command(stat) \in Stat!Attributes /\ Stat!Command(stat).perm = stat.perm
BY DEF StatTyped, Stat!Command, Stat!Attributes, Stat!Time

\* Of a file g, attributes outside which and those that are set.
Same(f, g, which) ==
  /\ which # "mode" => g.perm = f.perm
  /\ which # "atime" => g.atime = f.atime
  /\ which # "mtime" => g.mtime = f.mtime

\* One call of chmod or utime changes what it is for.
LEMMA ApplyOne ==
  ASSUME NEW f \in Stat!Attributes, NEW cmd \in Stat!Attributes, NEW which \in Stat!Bits,
         NEW g \in Stat!Apply(f, cmd, which)
  PROVE  /\ g \in Stat!Attributes /\ Same(f, g, which)
         /\ which = "mode" => g.perm = cmd.perm
<1>1. CASE which = "mode"
  BY <1>1 DEF Stat!Apply, Stat!Attributes, Same
<1>2. CASE which # "mode"
  <2>1. /\ which \in {"atime", "mtime"} /\ cmd[which] \in Stat!Time
    BY <1>2 DEF Stat!Bits, Stat!Attributes
  <2>2. PICK t \in Stat!mktime(cmd[which]) : g = Stat!psp_settime(f, which, t)
    BY <1>2 DEF Stat!Apply
  <2>3. t \in Stat!Time
    BY <2>1, <2>2, MkTime
  <2>4. QED BY <2>1, <2>2, <2>3 DEF Stat!psp_settime, Stat!Attributes, Same
<1>3. QED BY <1>1, <1>2

\* The files after one of the three calls, if it is asked for.
OneOf(fs, cmd, bits, which) ==
  IF which \in bits THEN UNION {Stat!Apply(g, cmd, which) : g \in fs} ELSE fs

\* psp_chstat's calls, one after the other.
LEMMA AfterSteps ==
  ASSUME NEW f, NEW cmd, NEW bits, NEW n \in 0 .. 3
  PROVE  LET f1 == IF n >= 1 THEN OneOf({f}, cmd, bits, "mode") ELSE {f}
             f2 == IF n >= 2 THEN OneOf(f1, cmd, bits, "atime") ELSE f1
         IN  Stat!After(f, cmd, bits, n) = IF n >= 3 THEN OneOf(f2, cmd, bits, "mtime") ELSE f2
BY DEF Stat!After, OneOf, Stat!Order

\* What was not asked for stays, and permissions come first.
Kept(f, g, cmd, bits, n) ==
  /\ g \in Stat!Attributes
  /\ "mode" \notin bits => g.perm = f.perm
  /\ "atime" \notin bits \/ n < 2 => g.atime = f.atime
  /\ "mtime" \notin bits \/ n < 3 => g.mtime = f.mtime
  /\ "mode" \in bits /\ n >= 1 => g.perm = cmd.perm

\* What the server makes of a file with the bits of a command keeps the rest.
LEMMA AfterKeeps ==
  ASSUME NEW f \in Stat!Attributes, NEW cmd \in Stat!Attributes, NEW bits, NEW n \in 0 .. 3,
         NEW g \in Stat!After(f, cmd, bits, n)
  PROVE  Kept(f, g, cmd, bits, n)
<1> DEFINE f1 == IF n >= 1 THEN OneOf({f}, cmd, bits, "mode") ELSE {f}
           f2 == IF n >= 2 THEN OneOf(f1, cmd, bits, "atime") ELSE f1
           f3 == IF n >= 3 THEN OneOf(f2, cmd, bits, "mtime") ELSE f2
<1>1. g \in f3
  BY AfterSteps
<1>2. ASSUME NEW x \in f1 PROVE Kept(f, x, cmd, bits, IF n >= 1 THEN 1 ELSE 0)
  BY ApplyOne DEF OneOf, Kept, Same, Stat!Bits
<1> HIDE DEF f1
<1>3. ASSUME NEW x \in f2 PROVE Kept(f, x, cmd, bits, IF n >= 2 THEN 2 ELSE IF n >= 1 THEN 1 ELSE 0)
  <2>1. CASE n >= 2 /\ "atime" \in bits
    <3>1. PICK y \in f1 : x \in Stat!Apply(y, cmd, "atime")
      BY <1>3, <2>1 DEF OneOf
    <3>2. Kept(f, y, cmd, bits, 1)
      BY <1>2, <2>1, <3>1
    <3>3. x \in Stat!Attributes /\ Same(y, x, "atime")
      BY <3>1, <3>2, ApplyOne DEF Kept, Stat!Bits
    <3>4. QED BY <2>1, <3>2, <3>3 DEF Kept, Same
  <2>2. CASE ~(n >= 2 /\ "atime" \in bits)
    <3>1. x \in f1
      BY <1>3, <2>2 DEF OneOf
    <3>2. QED BY <1>2, <2>2, <3>1 DEF Kept
  <2>3. QED BY <2>1, <2>2
<1> HIDE DEF f2
<1>4. CASE n >= 3 /\ "mtime" \in bits
  <2>1. PICK y \in f2 : g \in Stat!Apply(y, cmd, "mtime")
    BY <1>1, <1>4 DEF OneOf
  <2>2. Kept(f, y, cmd, bits, 2)
    BY <1>3, <1>4, <2>1
  <2>3. g \in Stat!Attributes /\ Same(y, g, "mtime")
    BY <2>1, <2>2, ApplyOne DEF Kept, Stat!Bits
  <2>4. QED BY <1>4, <2>2, <2>3 DEF Kept, Same
<1>5. CASE ~(n >= 3 /\ "mtime" \in bits)
  <2>1. g \in f2
    BY <1>1, <1>5 DEF OneOf
  <2>2. QED BY <1>3, <1>5, <2>1 DEF Kept
<1>6. QED BY <1>4, <1>5

\* A step leaves attributes behind, and changes what was asked for.
LEMMA StatStep ==
  ASSUME StatTyped, [Stat!Next]_statVars
  PROVE  StatTyped' /\ [Stat!UnaskedKept /\ Stat!ModeFirst]_statVars
<1>1. CASE Stat!io_getstat
  BY <1>1 DEF StatTyped, Stat!io_getstat, Stat!NoCall, Stat!UnaskedKept, Stat!ModeFirst
<1>2. CASE Stat!Edit
  <2>1. stat' \in Stat!Attributes
    <3>1. CASE \E t \in Stat!Time :
                 stat' = [stat EXCEPT !.atime = t] \/ stat' = [stat EXCEPT !.mtime = t]
      BY <3>1 DEF StatTyped, Stat!Attributes
    <3>2. CASE \E p \in Perm : stat' = [stat EXCEPT !.perm = p]
      BY <3>2 DEF StatTyped, Stat!Attributes
    <3>3. QED BY <1>2, <3>1, <3>2 DEF Stat!Edit
  <2>2. file' = file /\ call' = Stat!NoCall
    BY <1>2 DEF Stat!Edit
  <2>3. QED BY <2>1, <2>2 DEF StatTyped, Stat!NoCall, Stat!UnaskedKept, Stat!ModeFirst
<1>3. ASSUME NEW bits \in SUBSET Stat!Bits, Stat!io_chstat(bits)
      PROVE  StatTyped' /\ [Stat!UnaskedKept /\ Stat!ModeFirst]_statVars
  <2> DEFINE cmd == Stat!Command(stat)
  <2>1. PICK n \in 0 .. 3 : /\ n < 3 => Stat!Order[n + 1] \in bits
                            /\ file' \in Stat!After(file, cmd, bits, n)
                            /\ call' = [bits |-> bits, ok |-> n = 3]
                            /\ UNCHANGED stat
    BY <1>3 DEF Stat!io_chstat
  <2>2. cmd \in Stat!Attributes /\ cmd.perm = stat.perm
    BY CommandTyped
  <2>3. Kept(file, file', cmd, bits, n)
    BY <2>1, <2>2, AfterKeeps DEF StatTyped
  <2>4. call'.bits = bits /\ (call'.ok => n = 3) /\ call'.ok \in BOOLEAN
    BY <2>1
  <2> HIDE DEF cmd
  <2>5. StatTyped'
    BY <2>1, <2>3, <2>4 DEF StatTyped, Kept
  <2>6. Stat!UnaskedKept
    BY <2>3, <2>4 DEF Kept, Stat!UnaskedKept
  <2>7. Stat!ModeFirst
    BY <2>2, <2>3, <2>4 DEF Kept, Stat!ModeFirst
  <2>8. QED BY <2>5, <2>6, <2>7
<1>4. CASE UNCHANGED statVars
  BY <1>4 DEF StatTyped, statVars
<1>5. QED BY <1>1, <1>2, <1>3, <1>4 DEF Stat!Next

\* psp_chstat, psp_settime: whatever a program asks to change and wherever the call
\* fails, what it did not ask for stays and permissions come before times, for every
\* set of times and permissions.
THEOREM AttributesAreKept == Stat!Spec => UnaskedKept
<1>1. Stat!Init => StatTyped
  BY DEF Stat!Init, Stat!NoCall, StatTyped
<1>2. StatTyped /\ [Stat!Next]_statVars
        => StatTyped' /\ [Stat!UnaskedKept /\ Stat!ModeFirst]_statVars
  BY StatStep
<1>3. StatTyped => Stat!TypeOK
  BY DEF StatTyped, Stat!TypeOK
<1>4. QED BY <1>1, <1>2, <1>3, PTL DEF Stat!Spec, Stat!vars, statVars, UnaskedKept
=============================================================================
