--------------------------- MODULE DebuggerProofs ---------------------------
(***************************************************************************)
(* Proofs about Debugging, for every program, number of threads, contexts  *)
(* and breakpoints: exception contexts neither leak nor are shared, the    *)
(* memory gets its instructions back, and a step stops after one           *)
(* instruction; gdb finds memory, registers and hardware breakpoints as it *)
(* left them; and its packets come once and in order.                      *)
(***************************************************************************)
EXTENDS Debugging, WellFoundedInduction, FunctionTheorems, SequenceTheorems,
        FiniteSetTheorems, TLAPS

At == {"run", "trap", "sleep", "woken", "gone"}
Stopped == {"trap", "sleep", "woken"}
CtxRec == [valid : BOOLEAN, thid : All, epc : Addr]
ThrRec == [at : At, pc : Addr \cup {None}, ctx : Context \cup {None}, wake : 0 .. MaxWake]

-----------------------------------------------------------------------------
\* A set of natural numbers has a least one.
LEMMA LeastIn ==
  ASSUME NEW S \in SUBSET Nat, S # {}
  PROVE  \E m \in S : \A k \in S : m <= k
<1>1. PICK m \in S : \A k \in S : <<k, m>> \notin OpToRel(<, Nat)
  BY WFMin, NatLessThanWellFounded
<1>2. ASSUME NEW k \in S PROVE m <= k
  <2>1. m \in Nat /\ k \in Nat /\ <<k, m>> \in Nat \X Nat
    OBVIOUS
  <2>2. ~(<<k, m>>[1] < <<k, m>>[2])
    BY <1>1, <2>1 DEF OpToRel
  <2>3. QED BY <2>1, <2>2
<1>3. QED BY <1>2

(* Addresses. *)

\* Every address is in a word.
LEMMA PhysIn ==
  ASSUME DebuggerAssumption
  PROVE  \A a \in Int : Phys(a) \in Word
BY DEF DebuggerAssumption, Phys, Word

\* Another word of the same range is an address.
LEMMA SameRange ==
  ASSUME DebuggerAssumption, NEW a \in Addr, NEW w \in Word
  PROVE  (a - Phys(a)) + w \in Addr
<1> DEFINE q == a \div Words
<1>1. Words \in Nat /\ Words > 0 /\ Mirrors \in Nat /\ a \in Nat /\ w \in Nat /\ w < Words
  BY DEF DebuggerAssumption, Addr, Word
<1>2. Words * Mirrors \in Nat /\ a < Words * Mirrors
  BY <1>1 DEF Addr
<1>3. q \in Int /\ a = Words * q + Phys(a) /\ Phys(a) >= 0
  BY <1>1 DEF Phys
<1>4. q < Mirrors
  <2> SUFFICES ASSUME q >= Mirrors PROVE FALSE
    BY <1>1, <1>3
  <2> HIDE DEF q
  <2>1. Words * q >= Words * Mirrors
    BY <1>1, <1>3
  <2>2. QED BY <1>1, <1>2, <1>3, <2>1, PhysIn DEF Word
<1> HIDE DEF q
<1>5. q >= 0
  <2> SUFFICES ASSUME q <= -1 PROVE FALSE
    BY <1>3
  <2>1. Words * q <= Words * (-1)
    BY <1>1, <1>3
  <2>2. Phys(a) < Words /\ Phys(a) \in Int
    BY <1>1, PhysIn DEF Word
  <2>3. QED BY <1>1, <1>3, <2>1, <2>2
<1>6. Words * (q + 1) <= Words * Mirrors
  BY <1>1, <1>3, <1>4
<1>7. Words * (q + 1) = Words * q + Words /\ Words * q \in Nat
  BY <1>1, <1>3, <1>5
<1>8. Phys(a) \in Int
  BY <1>1, PhysIn DEF Word
<1>9. QED BY <1>1, <1>2, <1>3, <1>6, <1>7, <1>8 DEF Addr

\* So is the address some words further.
LEMMA AfterIn ==
  ASSUME DebuggerAssumption
  PROVE  \A a \in Addr, k \in Nat : After(a, k) \in Addr
<1> SUFFICES ASSUME NEW a \in Addr, NEW k \in Nat PROVE After(a, k) \in Addr
  OBVIOUS
<1>1. a \in Nat /\ Phys(a) \in Word /\ Phys(a) \in Nat
  BY PhysIn DEF Addr, Word
<1>2. (Phys(a) + k) % Words \in Word
  BY <1>1, PhysIn DEF Phys
<1>3. QED BY <1>2, SameRange DEF After

\* What an instruction goes to is an address.
LEMMA TargetIn ==
  ASSUME DebuggerAssumption
  PROVE  \A a \in Addr : Target(a) \in Addr /\ LongJmp \in Addr
<1> SUFFICES ASSUME NEW a \in Addr PROVE Target(a) \in Addr /\ LongJmp \in Addr
  OBVIOUS
<1>1. a \in Int /\ Phys(a) \in Word
  BY PhysIn DEF Addr
<1>2. 0 \in Word
  BY DEF DebuggerAssumption, Word
<1>3. Inst(a).to \in Word /\ Inst(a).reg \in Addr \cup {None}
  BY <1>1, <1>2 DEF Inst, Plain, DebuggerAssumption
<1>4. (a - Phys(a)) + Inst(a).to \in Addr
  BY <1>3, SameRange
<1>5. Target(a) \in Addr
  BY <1>3, <1>4, AfterIn DEF Target
<1>6. LongJmp \in Addr
  <2>1. 0 \in Addr
    <3>1. Words \in Nat /\ Mirrors \in Nat /\ Words > 0 /\ Mirrors > 0
      BY DEF DebuggerAssumption
    <3>2. Words * Mirrors > 0 /\ Words * Mirrors \in Nat
      BY <3>1
    <3>3. QED BY <3>2 DEF Addr
  <2>2. Phys(0) = 0
    BY DEF DebuggerAssumption, Phys
  <2>3. LongJmp \in Word /\ LongJmp \in Int
    BY DEF DebuggerAssumption, Word
  <2>4. (0 - Phys(0)) + LongJmp \in Addr
    BY <2>1, <2>3, SameRange
  <2>5. QED BY <2>2, <2>3, <2>4
<1>7. QED BY <1>5, <1>6

-----------------------------------------------------------------------------
(* Contexts. *)

\* The types a step on threads and contexts needs.
Owners == /\ ctx \in [Context -> CtxRec] /\ thr \in [All -> ThrRec]
          /\ \A t \in All : thr[t].at \in Stopped <=> thr[t].ctx # None
          /\ ContextsOwned

\* The rest of the type invariant.
Others == /\ mem \in [Word -> {"own", "brk"}]
          /\ g_bps \in [Bp -> Break] /\ g_stepbp \in [Slot -> Break]
          /\ g_currex \in Context \cup {None}
          /\ faults \in 0 .. MaxFaults
          /\ stepped \in [All -> {None} \cup Nat]

CInv == Owners /\ Others

\* Together they are the type invariant and the owners.
LEMMA CInvIs == CInv <=> TypeOK /\ ContextsOwned
BY DEF CInv, TypeOK, Owners, Others, Stopped, At, CtxRec, ThrRec

\* A context that is not valid is nobody's.
LEMMA FreeIsNobodys ==
  ASSUME Owners, NEW c \in Context, ~ctx[c].valid, NEW t \in All
  PROVE  thr[t].ctx # c
BY DEF Owners, ContextsOwned, Stopped, Context, None

\* The exception handler takes a free context for the thread, or there is none
\* and the thread is deleted.
TakesContext(t, c) ==
  /\ ~ctx[c].valid /\ thr'[t].at = "trap" /\ thr'[t].ctx = c
  /\ ctx'[c].valid /\ ctx'[c].thid = ctx[c].thid
  /\ \A d \in Context : d # c => ctx'[d] = ctx[d]
Deleted(t) == thr'[t].at = "gone" /\ thr'[t].ctx = None /\ UNCHANGED ctx
                /\ \A c \in Context : ctx[c].valid
Only(t) == /\ thr'[t].pc = thr[t].pc /\ thr'[t].wake = thr[t].wake
           /\ \A u \in All : u # t => thr'[u] = thr[u]

\* The list of contexts is searched to its end.
LEMMA NoneFree ==
  ASSUME DebuggerAssumption, ~ \E c \in Context : FreeContext(c)
  PROVE  \A c \in Context : ctx[c].valid
<1> SUFFICES ASSUME NEW c0 \in Context, ~ctx[c0].valid PROVE FALSE
  OBVIOUS
<1> DEFINE S == {c \in Context : ~ctx[c].valid}
<1>1. S \subseteq Nat /\ S # {}
  BY DEF Context, DebuggerAssumption
<1>2. PICK m \in S : \A k \in S : m <= k
  <2> HIDE DEF S
  <2>1. QED BY <1>1, LeastIn
<1>3. ASSUME NEW d \in 0 .. (m - 1) PROVE ctx[d].valid
  <2>1. d \in Context /\ d \in Nat /\ m \in Nat /\ d < m
    BY DEF Context, DebuggerAssumption
  <2>2. QED BY <1>2, <2>1
<1>4. FreeContext(m)
  BY <1>3 DEF FreeContext
<1>5. QED BY <1>4

\* psplinkExceptionHandler.
LEMMA HandlerIs ==
  ASSUME DebuggerAssumption, Owners, NEW t \in All, thr[t].at = "run",
         psplinkExceptionHandler(t)
  PROVE  /\ Owners' /\ Only(t)
         /\ (\E c \in Context : TakesContext(t, c)) \/ Deleted(t)
<1>1. thr[t] \in ThrRec /\ thr[t].ctx = None /\ thr[t].pc \in Addr \cup {None}
  BY DEF Owners, ThrRec, Stopped
<1>2. ASSUME NEW c \in Context, FreeContext(c),
             ctx' = [ctx EXCEPT ![c].valid = TRUE,
                                ![c].epc = IF thr[t].pc = None THEN LongJmp ELSE thr[t].pc],
             thr' = [thr EXCEPT ![t].at = "trap", ![t].ctx = c]
      PROVE  Owners' /\ Only(t) /\ TakesContext(t, c)
  <2> DEFINE e == IF thr[t].pc = None THEN LongJmp ELSE thr[t].pc
  <2>1. e \in Addr
    <3>1. 0 \in Addr \/ thr[t].pc \in Addr
      <4>1. Words * Mirrors \in Nat /\ Words * Mirrors > 0
        BY DEF DebuggerAssumption
      <4>2. QED BY <4>1 DEF Addr
    <3>2. QED BY <1>1, <3>1, TargetIn
  <2>2. ~ctx[c].valid /\ ctx[c] \in CtxRec
    BY <1>2 DEF FreeContext, Owners
  <2>3. /\ ctx'[c] \in CtxRec /\ ctx'[c].valid /\ ctx'[c].thid = ctx[c].thid
        /\ \A d \in Context : d # c => ctx'[d] = ctx[d]
        /\ ctx' \in [Context -> CtxRec]
    <3> HIDE DEF e
    <3>1. ctx' = [ctx EXCEPT ![c].valid = TRUE, ![c].epc = e]
      BY <1>2 DEF e
    <3>2. QED BY <2>1, <2>2, <3>1 DEF Owners, CtxRec
  <2>4. /\ thr'[t].at = "trap" /\ thr'[t].ctx = c /\ Only(t)
        /\ thr' \in [All -> ThrRec]
    BY <1>1, <1>2 DEF Owners, ThrRec, At, Only
  <2>5. c # None
    BY DEF Context, None
  <2>6. \A u \in All : thr[u].ctx # c
    BY <2>2, FreeIsNobodys
  <2>7. ContextsOwned'
    BY <2>3, <2>4, <2>5, <2>6, <1>1 DEF Owners, ContextsOwned, Only, Stopped
  <2>8. QED BY <2>2, <2>3, <2>4, <2>5, <2>7 DEF Owners, TakesContext, Only, Stopped
<1>3. CASE /\ ~ \E c \in Context : FreeContext(c)
           /\ thr' = [thr EXCEPT ![t].at = "gone"] /\ UNCHANGED ctx
  <2>1. /\ thr'[t].at = "gone" /\ thr'[t].ctx = None /\ Only(t) /\ thr' \in [All -> ThrRec]
    BY <1>1, <1>3 DEF Owners, ThrRec, At, Only
  <2>2. ContextsOwned'
    BY <1>1, <1>3, <2>1 DEF Owners, ContextsOwned, Only, Stopped
  <2>3. QED BY <1>3, <2>1, <2>2, NoneFree DEF Owners, Deleted, Only, Stopped
<1>4. QED BY <1>2, <1>3 DEF psplinkExceptionHandler, OutOfContexts

\* A thread's record changes, but not its place and its context: owners are kept.
LEMMA StaysOwned ==
  ASSUME Owners, NEW t \in All, NEW r \in ThrRec, thr' = [thr EXCEPT ![t] = r],
         r.ctx = thr[t].ctx, r.at \in Stopped <=> thr[t].at \in Stopped,
         ctx' \in [Context -> CtxRec], \A c \in Context : ctx'[c].valid = ctx[c].valid
  PROVE  Owners'
<1>1. /\ thr' \in [All -> ThrRec] /\ thr'[t] = r /\ \A u \in All : u # t => thr'[u] = thr[u]
  BY DEF Owners
<1>2. \A u \in All : thr'[u].ctx = thr[u].ctx /\ (thr'[u].at \in Stopped <=> thr[u].at \in Stopped)
  BY <1>1
<1>3. ContextsOwned'
  BY <1>2 DEF Owners, ContextsOwned, Stopped
<1>4. QED BY <1>1, <1>2, <1>3 DEF Owners

\* A known breakpoint gives memory and tables of the right kind.
LEMMA RecoveredTyped ==
  ASSUME DebuggerAssumption, Others, NEW a, debugHandleException(a)
  PROVE  /\ mem' \in [Word -> {"own", "brk"}] /\ g_bps' \in [Bp -> Break]
         /\ g_stepbp' \in [Slot -> Break] /\ stepped' \in [All -> {None} \cup Nat]
<1>1. CASE ~check_bp(a)
  BY <1>1 DEF debugHandleException, Others
<1>2. CASE check_bp(a)
  <2>1. Clear \in Break
    <3>1. Words * Mirrors \in Nat /\ Words * Mirrors > 0
      BY DEF DebuggerAssumption
    <3>2. QED BY <3>1 DEF Clear, Break, Addr
  <2>2. ASSUME NEW w \in Word PROVE Recovered(a, w) \in {"own", "brk"}
    <3> DEFINE b == {x \in find_bp(a) : Phys(g_bps[x].address) = w}
    <3>1. CASE b # {}
      <4>1. PICK m \in b : \A y \in b : m <= y
        <5>1. b \subseteq Nat
          BY DEF find_bp, Bp, DebuggerAssumption
        <5> HIDE DEF b
        <5>2. QED BY <3>1, <5>1, LeastIn
      <4>2. (CHOOSE x \in b : \A y \in b : x <= y) \in Bp
        <5>1. b \subseteq Bp
          BY DEF find_bp
        <5> HIDE DEF b
        <5>2. QED BY <4>1, <5>1
      <4>3. Recovered(a, w) = g_bps[CHOOSE x \in b : \A y \in b : x <= y].oldinst
        BY <3>1 DEF Recovered
      <4> HIDE DEF b
      <4>4. QED BY <4>2, <4>3 DEF Others, Break
    <3>2. CASE b = {}
      <4>1. \/ Recovered(a, w) = mem[w]
            \/ Recovered(a, w) = g_stepbp[1].oldinst \/ Recovered(a, w) = g_stepbp[0].oldinst
        BY <3>2 DEF Recovered
      <4>2. QED BY <4>1 DEF Others, Break, Slot
    <3>3. QED BY <3>1, <3>2
  <2>3. QED BY <1>2, <2>1, <2>2 DEF debugHandleException, Others
<1>3. QED BY <1>1, <1>2

\* The user resumes the current exception.
LEMMA ResumeIs ==
  ASSUME DebuggerAssumption, CInv, NEW c \in Context, exceptionResume(c),
         ctx' \in [Context -> CtxRec], \A d \in Context : ctx'[d].valid = ctx[d].valid
  PROVE  /\ Owners' /\ g_currex' = None
         /\ LET t == ctx[c].thid
            IN  /\ t \in All /\ thr'[t].wake = thr[t].wake + 1
                /\ thr'[t].at = thr[t].at /\ thr'[t].ctx = thr[t].ctx /\ thr'[t].pc = thr[t].pc
                /\ \A u \in All : u # t => thr'[u] = thr[u]
<1> DEFINE t == ctx[c].thid
           r == [thr[t] EXCEPT !.wake = thr[t].wake + 1]
<1>1. Owners
  BY DEF CInv
<1>2. t \in All /\ thr[t] \in ThrRec
  BY <1>1 DEF Owners, CtxRec
<1>3. thr[t].wake < MaxWake /\ thr' = [thr EXCEPT ![t] = r] /\ g_currex' = None
  BY <1>1, <1>2 DEF exceptionResume, Resumed, Owners
<1>4. /\ r \in ThrRec /\ r.at = thr[t].at /\ r.ctx = thr[t].ctx /\ r.pc = thr[t].pc
      /\ r.wake = thr[t].wake + 1
  BY <1>2, <1>3 DEF ThrRec, DebuggerAssumption
<1> HIDE DEF r, t
<1>5. Owners'
  BY <1>1, <1>2, <1>3, <1>4, StaysOwned
<1>6. thr'[t] = r /\ \A u \in All : u # t => thr'[u] = thr[u]
  BY <1>1, <1>2, <1>3 DEF Owners
<1>7. QED BY <1>2, <1>3, <1>4, <1>5, <1>6 DEF t

\* A thread runs or faults.
LEMMA ExecuteC ==
  ASSUME DebuggerAssumption, CInv, NEW t \in All, Execute(t) \/ Fault(t)
  PROVE  CInv'
<1>1. Owners /\ Others /\ thr[t] \in ThrRec
  BY DEF CInv, Owners
<1>2. CASE Execute(t)
  <2>1. /\ thr[t].at = "run" /\ thr[t].pc # None
        /\ UNCHANGED <<mem, g_bps, g_stepbp, g_currex, faults>>
    BY <1>2 DEF Execute
  <2>2. thr[t].pc \in Addr
    BY <1>1, <2>1 DEF ThrRec
  <2>3. CASE psplinkExceptionHandler(t) /\ stepped' = [stepped EXCEPT ![t] = None]
    <3>1. Owners'
      BY <1>1, <2>1, <2>3, HandlerIs
    <3>2. Others'
      BY <1>1, <2>1, <2>3 DEF Others
    <3>3. QED BY <3>1, <3>2 DEF CInv
  <2>4. ASSUME NEW next \in {Target(thr[t].pc), After(thr[t].pc, 2)},
               thr' = [thr EXCEPT ![t].pc =
                         IF t = Parse /\ thr[t].pc = After(LongJmp, 1) THEN None ELSE next],
               stepped' = [stepped EXCEPT ![t] = IF @ = None THEN None ELSE @ + 1],
               UNCHANGED ctx
        PROVE  CInv'
    <3> DEFINE n == IF t = Parse /\ thr[t].pc = After(LongJmp, 1) THEN None ELSE next
               r == [thr[t] EXCEPT !.pc = n]
    <3>1. next \in Addr
      BY <2>2, <2>4, TargetIn, AfterIn
    <3>2. n \in Addr \cup {None}
      BY <3>1
    <3>3. thr' = [thr EXCEPT ![t] = r]
      BY <1>1, <2>4 DEF Owners
    <3> HIDE DEF n
    <3>4. r \in ThrRec /\ r.ctx = thr[t].ctx /\ r.at = thr[t].at
      BY <1>1, <3>2 DEF ThrRec
    <3> HIDE DEF r
    <3>5. Owners'
      BY <1>1, <2>4, <3>3, <3>4, StaysOwned DEF Owners
    <3>6. stepped' \in [All -> {None} \cup Nat]
      BY <1>1, <2>4 DEF Others
    <3>7. Others'
      BY <1>1, <2>1, <3>6 DEF Others
    <3>8. QED BY <3>5, <3>7 DEF CInv
  <2>5. QED BY <1>2, <2>3, <2>4 DEF Execute
<1>3. CASE Fault(t)
  <2>1. /\ thr[t].at = "run" /\ faults < MaxFaults /\ faults' = faults + 1
        /\ psplinkExceptionHandler(t) /\ stepped' = [stepped EXCEPT ![t] = None]
        /\ UNCHANGED <<mem, g_bps, g_stepbp, g_currex>>
    BY <1>3 DEF Fault
  <2>2. Owners'
    BY <1>1, <2>1, HandlerIs
  <2>3. faults' \in 0 .. MaxFaults
    BY <1>1, <2>1 DEF Others, DebuggerAssumption
  <2>4. Others'
    BY <1>1, <2>1, <2>3 DEF Others
  <2>5. QED BY <2>2, <2>4 DEF CInv
<1>4. QED BY <1>2, <1>3

\* Through the trap.
LEMMA TrapC ==
  ASSUME DebuggerAssumption, CInv, NEW t \in All,
         psplinkHandleException(t) \/ Wake(t) \/ psplinkResumeFromException(t)
  PROVE  CInv'
<1>1. Owners /\ Others /\ thr[t] \in ThrRec
  BY DEF CInv, Owners
<1>2. CASE psplinkHandleException(t)
  <2> DEFINE c == thr[t].ctx
             r == [thr[t] EXCEPT !.at = IF t = Parse THEN "woken" ELSE "sleep"]
             e == IF t = Parse THEN LongJmp ELSE ctx[c].epc
  <2>1. c \in Context /\ ctx[c] \in CtxRec
    BY <1>1, <1>2 DEF psplinkHandleException, Owners, Stopped, ThrRec
  <2>2. /\ thr[t].at = "trap" /\ g_currex' = c /\ debugHandleException(ctx[c].epc)
        /\ ctx' = [ctx EXCEPT ![c].thid = t, ![c].epc = e]
        /\ thr' = [thr EXCEPT ![t] = r] /\ UNCHANGED faults
    BY <1>1, <1>2 DEF psplinkHandleException, Owners
  <2>3. r \in ThrRec /\ r.ctx = thr[t].ctx /\ r.at \in Stopped
    BY <1>1 DEF ThrRec, At, Stopped
  <2>4. e \in Addr
    BY <2>1, TargetIn DEF CtxRec
  <2> HIDE DEF r, e, c
  <2>5. ctx' \in [Context -> CtxRec] /\ \A d \in Context : ctx'[d].valid = ctx[d].valid
    BY <1>1, <2>1, <2>2, <2>4 DEF Owners, CtxRec
  <2>6. Owners'
    BY <1>1, <2>2, <2>3, <2>5, StaysOwned DEF Stopped
  <2>7. Others'
    BY <1>1, <2>1, <2>2, RecoveredTyped DEF Others
  <2>8. QED BY <2>6, <2>7 DEF CInv
<1>3. CASE Wake(t)
  <2> DEFINE r == [thr[t] EXCEPT !.at = "woken", !.wake = thr[t].wake - 1]
  <2>1. /\ thr[t].at = "sleep" /\ thr[t].wake > 0 /\ thr' = [thr EXCEPT ![t] = r]
        /\ UNCHANGED <<mem, g_bps, g_stepbp, ctx, g_currex, faults, stepped>>
    BY <1>1, <1>3 DEF Wake, Owners
  <2>2. r \in ThrRec /\ r.ctx = thr[t].ctx /\ r.at \in Stopped
    <3> DEFINE k == thr[t].wake - 1
    <3>1. k \in 0 .. MaxWake
      BY <1>1, <2>1 DEF ThrRec, DebuggerAssumption
    <3> HIDE DEF k
    <3>2. [thr[t] EXCEPT !.at = "woken", !.wake = k] \in ThrRec
      BY <1>1, <3>1 DEF ThrRec, At
    <3>3. r = [thr[t] EXCEPT !.at = "woken", !.wake = k]
      BY DEF k
    <3>4. QED BY <1>1, <3>2, <3>3 DEF ThrRec, Stopped
  <2> HIDE DEF r
  <2>3. Owners'
    BY <1>1, <2>1, <2>2, StaysOwned DEF Owners, Stopped
  <2>4. QED BY <1>1, <2>1, <2>3 DEF CInv, Others
<1>4. CASE psplinkResumeFromException(t)
  <2> DEFINE c == thr[t].ctx
             r == [thr[t] EXCEPT !.at = "run", !.pc = ctx[c].epc, !.ctx = None]
  <2>1. c \in Context /\ ctx[c] \in CtxRec
    BY <1>1, <1>4 DEF psplinkResumeFromException, Owners, Stopped, ThrRec
  <2>2. /\ thr[t].at = "woken" /\ ctx' = [ctx EXCEPT ![c].valid = FALSE]
        /\ thr' = [thr EXCEPT ![t] = r]
        /\ UNCHANGED <<mem, g_bps, g_stepbp, g_currex, faults, stepped>>
    BY <1>1, <1>4 DEF psplinkResumeFromException, Owners
  <2>3. r \in ThrRec /\ r.ctx = None /\ r.at = "run"
    BY <1>1, <2>1 DEF ThrRec, At, CtxRec
  <2> HIDE DEF r
  <2>4. thr' \in [All -> ThrRec] /\ thr'[t] = r /\ \A u \in All : u # t => thr'[u] = thr[u]
    BY <1>1, <2>2, <2>3 DEF Owners
  <2>5. /\ ctx' \in [Context -> CtxRec] /\ ~ctx'[c].valid
        /\ \A d \in Context : d # c => ctx'[d] = ctx[d]
    BY <1>1, <2>1, <2>2 DEF Owners, CtxRec
  <2>6. \A u \in All : u # t => thr[u].ctx # c
    BY <1>1, <2>1, <2>2 DEF Owners, ContextsOwned, Stopped
  <2>7. ContextsOwned'
    BY <1>1, <2>1, <2>3, <2>4, <2>5, <2>6 DEF Owners, ContextsOwned, Stopped
  <2>8. Owners'
    BY <1>1, <2>3, <2>4, <2>5, <2>7 DEF Owners, Stopped
  <2>9. QED BY <1>1, <2>2, <2>8 DEF CInv, Others
<1>5. QED BY <1>2, <1>3, <1>4

\* step_generic puts at least one break, in its slots and at addresses.
LEMMA StepPlacesIn ==
  ASSUME DebuggerAssumption, NEW epc \in Addr, NEW skip \in BOOLEAN
  PROVE  /\ DOMAIN StepPlaces(epc, skip) \subseteq Slot
         /\ DOMAIN StepPlaces(epc, skip) # {}
         /\ \A s \in DOMAIN StepPlaces(epc, skip) : StepPlaces(epc, skip)[s] \in Addr
<1>1. Target(epc) \in Addr /\ After(epc, 2) \in Addr
  BY TargetIn, AfterIn
<1>2. QED BY <1>1 DEF StepPlaces, Slot

\* step_generic.
LEMMA StepIs ==
  ASSUME DebuggerAssumption, Others, NEW epc \in Addr, NEW skip \in BOOLEAN,
         step_generic(epc, skip)
  PROVE  LET at == StepPlaces(epc, skip)
         IN  /\ mem' \in [Word -> {"own", "brk"}] /\ g_stepbp' \in [Slot -> Break]
             /\ \A s \in Slot : IF s \in DOMAIN at
                  THEN g_stepbp'[s].address = at[s] /\ g_stepbp'[s].oldinst = mem[Phys(at[s])]
                       /\ g_stepbp'[s].active
                  ELSE g_stepbp'[s] = g_stepbp[s]
             /\ \A w \in Word :
                  mem'[w] = IF \E s \in DOMAIN at : Phys(at[s]) = w THEN "brk" ELSE mem[w]
<1> DEFINE at == StepPlaces(epc, skip)
<1>1. DOMAIN at \subseteq Slot /\ \A s \in DOMAIN at : at[s] \in Addr /\ at[s] \in Int
  BY StepPlacesIn DEF Addr
<1>2. /\ g_stepbp' = [s \in Slot |-> IF s \in DOMAIN at
                        THEN [address |-> at[s], oldinst |-> mem[Phys(at[s])], active |-> TRUE]
                        ELSE g_stepbp[s]]
      /\ mem' = [w \in Word |-> IF \E s \in DOMAIN at : Phys(at[s]) = w THEN "brk" ELSE mem[w]]
  BY DEF step_generic
<1> HIDE DEF at
<1>3. \A s \in DOMAIN at : mem[Phys(at[s])] \in {"own", "brk"}
  BY <1>1, PhysIn DEF Others
<1>4. g_stepbp' \in [Slot -> Break]
  BY <1>1, <1>2, <1>3 DEF Others, Break
<1>5. mem' \in [Word -> {"own", "brk"}]
  BY <1>2 DEF Others
<1>6. QED BY <1>2, <1>4, <1>5 DEF at

\* The user steps, sets a breakpoint, resumes or chooses a context.
LEMMA UserC ==
  ASSUME DebuggerAssumption, CInv,
         \/ \E skip \in BOOLEAN : debugStep(skip)
         \/ \E a \in Addr : debugSetBP(a)
         \/ exresume_cmd
         \/ \E c \in Context : exceptionSetCtx(c)
  PROVE  CInv'
<1>1. Owners /\ Others
  BY DEF CInv
<1>2. ASSUME NEW skip \in BOOLEAN, debugStep(skip) PROVE CInv'
  <2>1. g_currex \in Context
    BY <1>1, <1>2 DEF debugStep, Others
  <2>2. ctx[g_currex].epc \in Addr /\ ctx[g_currex].thid \in All
    BY <1>1, <2>1 DEF Owners, CtxRec
  <2>3. /\ step_generic(ctx[g_currex].epc, skip) /\ exceptionResume(g_currex)
        /\ UNCHANGED <<g_bps, ctx, faults>>
    BY <1>2 DEF debugStep
  <2>4. Owners' /\ g_currex' = None
    BY <1>1, <2>1, <2>3, ResumeIs DEF Owners
  <2>5. mem' \in [Word -> {"own", "brk"}] /\ g_stepbp' \in [Slot -> Break]
    BY <1>1, <2>2, <2>3, StepIs
  <2>6. stepped' \in [All -> {None} \cup Nat]
    BY <1>1, <1>2, <2>2 DEF debugStep, Others
  <2>7. Others'
    BY <1>1, <2>3, <2>4, <2>5, <2>6 DEF Others
  <2>8. QED BY <2>4, <2>7 DEF CInv
<1>3. ASSUME NEW a \in Addr, debugSetBP(a) PROVE CInv'
  <2>1. PICK i \in Bp :
          /\ g_bps' = [g_bps EXCEPT ![i] = [address |-> a, oldinst |-> mem[Phys(a)], active |-> TRUE]]
          /\ mem' = [mem EXCEPT ![Phys(a)] = "brk"]
          /\ UNCHANGED <<g_stepbp, ctx, g_currex, thr, faults, stepped>>
    BY <1>3 DEF debugSetBP
  <2>2. mem[Phys(a)] \in {"own", "brk"}
    BY <1>1, PhysIn DEF Others, Addr
  <2>3. g_bps' \in [Bp -> Break] /\ mem' \in [Word -> {"own", "brk"}]
    BY <1>1, <2>1, <2>2 DEF Others, Break
  <2>4. Owners'
    BY <1>1, <2>1 DEF Owners, ContextsOwned
  <2>5. QED BY <1>1, <2>1, <2>3, <2>4 DEF CInv, Others
<1>4. CASE exresume_cmd
  <2>1. g_currex \in Context
    BY <1>1, <1>4 DEF exresume_cmd, Others
  <2>2. ctx[g_currex] \in CtxRec
    BY <1>1, <2>1 DEF Owners
  <2>3. PICK a \in Addr \cup {ctx[g_currex].epc} : ctx' = [ctx EXCEPT ![g_currex].epc = a]
    BY <1>4 DEF exresume_cmd
  <2>4. a \in Addr
    BY <2>2 DEF CtxRec
  <2>5. ctx' \in [Context -> CtxRec] /\ \A d \in Context : ctx'[d].valid = ctx[d].valid
    BY <1>1, <2>1, <2>2, <2>3, <2>4 DEF Owners, CtxRec
  <2>6. Owners' /\ g_currex' = None
    BY <1>4, <2>1, <2>5, ResumeIs DEF exresume_cmd
  <2>7. Others'
    BY <1>1, <1>4, <2>6 DEF exresume_cmd, Others
  <2>8. QED BY <2>6, <2>7 DEF CInv
<1>5. ASSUME NEW c \in Context, exceptionSetCtx(c) PROVE CInv'
  BY <1>1, <1>5 DEF exceptionSetCtx, CInv, Owners, ContextsOwned, Others
<1>6. QED BY <1>2, <1>3, <1>4, <1>5

\* Init.
LEMMA InitC ==
  ASSUME DebuggerAssumption, Init
  PROVE  CInv
<1>1. 0 \in Addr
  <2>1. Words * Mirrors \in Nat /\ Words * Mirrors > 0
    BY DEF DebuggerAssumption
  <2>2. QED BY <2>1 DEF Addr
<1>2. Clear \in Break
  BY <1>1 DEF Clear, Break
<1>3. Others
  BY <1>2 DEF Init, Others, DebuggerAssumption
<1>4. ctx \in [Context -> CtxRec] /\ \A c \in Context : ~ctx[c].valid
  BY <1>1 DEF Init, CtxRec, All
<1>5. /\ thr \in [All -> ThrRec]
      /\ \A t \in All : thr[t].at = "run" /\ thr[t].ctx = None
  BY <1>1 DEF Init, ThrRec, At, DebuggerAssumption
<1>6. ContextsOwned
  BY <1>4, <1>5 DEF ContextsOwned
<1>7. QED BY <1>3, <1>4, <1>5, <1>6 DEF CInv, Owners, Stopped

\* The invariant is inductive.
LEMMA NextC ==
  ASSUME DebuggerAssumption, CInv, [Next]_vars
  PROVE  CInv'
<1>1. CASE UNCHANGED vars
  BY <1>1 DEF vars, CInv, Owners, ContextsOwned, Others
<1>2. CASE Next
  <2>1. ASSUME NEW t \in All, Execute(t) \/ Fault(t) PROVE CInv'
    BY <2>1, ExecuteC
  <2>2. ASSUME NEW t \in All,
               psplinkHandleException(t) \/ Wake(t) \/ psplinkResumeFromException(t)
        PROVE  CInv'
    BY <2>2, TrapC
  <2>3. QED BY <1>2, <2>1, <2>2, UserC DEF Next
<1>3. QED BY <1>1, <1>2

\* A thread is deleted only when every context is in use, each by one thread.
LEMMA FullWhenGone ==
  ASSUME DebuggerAssumption, CInv, Next
  PROVE  GoneOnlyWhenFull
<1>1. Owners
  BY DEF CInv
<1> SUFFICES ASSUME NEW t \in All, thr[t].at # "gone", thr'[t].at = "gone"
             PROVE  Cardinality({u \in All : thr[u].at \in Stopped}) = MaxContext
  BY DEF GoneOnlyWhenFull, Stopped
<1>2. \A c \in Context : ctx[c].valid
  <2>1. ASSUME NEW u \in All, Execute(u) \/ Fault(u)
        PROVE  \A c \in Context : ctx[c].valid
    <3>1. CASE thr[u].at = "run" /\ psplinkExceptionHandler(u)
      <4>1. Only(u) /\ ((\E c \in Context : TakesContext(u, c)) \/ Deleted(u))
        BY <1>1, <3>1, HandlerIs
      <4>2. QED BY <4>1 DEF Only, TakesContext, Deleted
    <3>2. CASE ~psplinkExceptionHandler(u)
      <4>1. PICK n : thr' = [thr EXCEPT ![u].pc = n]
        BY <2>1, <3>2 DEF Execute, Fault
      <4>2. thr'[t].at = thr[t].at
        BY <1>1, <4>1 DEF Owners, ThrRec
      <4>3. QED BY <4>2
    <3>3. QED BY <2>1, <3>1, <3>2 DEF Execute, Fault
  <2>2. ASSUME NEW u \in All,
               psplinkHandleException(u) \/ Wake(u) \/ psplinkResumeFromException(u)
        PROVE  FALSE
    <3>1. PICK r : thr' = [thr EXCEPT ![u] = r] /\ r.at # "gone"
      <4>1. CASE psplinkHandleException(u)
        <5>1. thr' = [thr EXCEPT ![u] = [thr[u] EXCEPT !.at = IF u = Parse THEN "woken" ELSE "sleep"]]
          BY <1>1, <4>1 DEF psplinkHandleException, Owners
        <5>2. [thr[u] EXCEPT !.at = IF u = Parse THEN "woken" ELSE "sleep"].at # "gone"
          BY <1>1 DEF Owners, ThrRec
        <5>3. QED BY <5>1, <5>2
      <4>2. CASE Wake(u)
        <5>1. thr' = [thr EXCEPT ![u] = [thr[u] EXCEPT !.at = "woken", !.wake = thr[u].wake - 1]]
          BY <1>1, <4>2 DEF Wake, Owners
        <5>2. [thr[u] EXCEPT !.at = "woken", !.wake = thr[u].wake - 1].at # "gone"
          BY <1>1 DEF Owners, ThrRec
        <5>3. QED BY <5>1, <5>2
      <4>3. CASE psplinkResumeFromException(u)
        <5> DEFINE r == [thr[u] EXCEPT !.at = "run", !.pc = ctx[thr[u].ctx].epc, !.ctx = None]
        <5>1. thr' = [thr EXCEPT ![u] = r]
          BY <1>1, <4>3 DEF psplinkResumeFromException, Owners
        <5>2. r.at # "gone"
          BY <1>1 DEF Owners, ThrRec
        <5>3. QED BY <5>1, <5>2
      <4>4. QED BY <2>2, <4>1, <4>2, <4>3
    <3>2. QED BY <1>1, <3>1 DEF Owners
  <2>3. ASSUME \/ \E skip \in BOOLEAN : debugStep(skip)
               \/ \E a \in Addr : debugSetBP(a)
               \/ exresume_cmd
               \/ \E c \in Context : exceptionSetCtx(c)
        PROVE  FALSE
    <3>1. CASE UNCHANGED thr
      BY <3>1
    <3>2. CASE \E c : exceptionResume(c)
      <4>1. PICK u, n : thr' = [thr EXCEPT ![u].wake = n]
        BY <3>2 DEF exceptionResume
      <4>2. thr'[t].at = thr[t].at
        BY <1>1, <4>1 DEF Owners, ThrRec
      <4>3. QED BY <4>2
    <3>3. QED BY <2>3, <3>1, <3>2 DEF debugStep, debugSetBP, exresume_cmd, exceptionSetCtx
  <2>4. QED BY <2>1, <2>2, <2>3 DEF Next
<1> DEFINE S == {u \in All : thr[u].at \in Stopped}
           F == [u \in S |-> thr[u].ctx]
<1>3. F \in Bijection(S, Context)
  <2>1. F \in [S -> Context]
    BY <1>1 DEF Owners, Stopped, ThrRec
  <2>2. \A a, b \in S : F[a] = F[b] => a = b
    BY <1>1, <2>1 DEF Owners, ContextsOwned, Context, None
  <2>3. \A c \in Context : \E u \in S : F[u] = c
    BY <1>1, <1>2 DEF Owners, ContextsOwned, Stopped
  <2> HIDE DEF F, S
  <2>4. QED BY <2>1, <2>2, <2>3, Fun_IsBij
<1>4. IsFiniteSet(Context) /\ Cardinality(Context) = MaxContext
  <2>1. MaxContext \in Nat /\ MaxContext > 0 /\ 0 \in Int /\ MaxContext - 1 \in Int
    BY DEF DebuggerAssumption
  <2>2. /\ IsFiniteSet(0 .. (MaxContext - 1))
        /\ Cardinality(0 .. (MaxContext - 1)) =
             IF 0 > MaxContext - 1 THEN 0 ELSE (MaxContext - 1) - 0 + 1
    BY <2>1, FS_Interval, Zenon
  <2>3. QED BY <2>1, <2>2 DEF Context
<1>5. ExistsBijection(S, Context)
  <2> HIDE DEF F, S
  <2>1. QED BY <1>3 DEF ExistsBijection
<1>6. QED
  <2> HIDE DEF F, S
  <2>1. ExistsBijection(Context, S)
    BY <1>5, Fun_ExistsBijSymmetric
  <2>2. Cardinality(S) = MaxContext
    BY <1>4, <2>1, FS_Bijection
  <2>3. QED BY <2>2 DEF S

-----------------------------------------------------------------------------
\* psplinkTrap, psplinkExceptionHandler, psplinkResumeFromException: whatever the
\* user steps, resumes and switches to while threads trap, every context in use
\* is exactly one trapped thread's, and a thread is deleted for want of one only
\* when all of them are taken.
THEOREM ContextsAreOwned ==
  ASSUME DebuggerAssumption
  PROVE  Spec => [](TypeOK /\ ContextsOwned) /\ [][GoneOnlyWhenFull]_vars
<1>1. Init => CInv
  BY InitC
<1>2. CInv /\ [Next]_vars => CInv'
  BY NextC
<1>3. CInv => TypeOK /\ ContextsOwned
  BY CInvIs
<1>4. CInv /\ [Next]_vars => [GoneOnlyWhenFull]_vars
  BY FullWhenGone
<1>5. QED BY <1>1, <1>2, <1>3, <1>4, PTL DEF Spec

-----------------------------------------------------------------------------
(* Memory, for an orderly user. *)

\* Active breakpoints and steps by the word they are at.
BpAt(w) == \E i \in Bp : g_bps[i].active /\ Phys(g_bps[i].address) = w
StepOn(w) == \E s \in Slot : g_stepbp[s].active /\ Phys(g_stepbp[s].address) = w

\* A breakpoint keeps the instruction itself; a step on the same word keeps the
\* breakpoint's break instruction.
KeptInsts ==
  /\ \A i \in Bp : g_bps[i].active => g_bps[i].oldinst = "own"
  /\ \A s \in Slot : g_stepbp[s].active =>
       (g_stepbp[s].oldinst = "brk" <=> BpAt(Phys(g_stepbp[s].address)))
BrksAt == \A w \in Word : mem[w] = "brk" <=> BpAt(w) \/ StepOn(w)
MInv == Orderly => KeptInsts /\ BrksAt

\* The words that are planted.
LEMMA PlantedIs == \A w : w \in Planted <=> BpAt(w) \/ StepOn(w)
BY DEF Planted, BpAt, StepOn

\* Memory and tables alone decide.
LEMMA MemoryKept ==
  ASSUME MInv, UNCHANGED <<mem, g_bps, g_stepbp>>
  PROVE  MInv'
BY DEF MInv, KeptInsts, BrksAt, BpAt, StepOn

\* debugHandleException ends all steps and the breakpoint that was hit.
LEMMA HandleM ==
  ASSUME DebuggerAssumption, Others, MInv, NEW a \in Addr, debugHandleException(a)
  PROVE  MInv'
<1>1. CASE ~check_bp(a)
  BY <1>1, MemoryKept DEF debugHandleException
<1>2. CASE check_bp(a)
  <2> SUFFICES ASSUME Orderly PROVE KeptInsts' /\ BrksAt'
    BY DEF MInv
  <2>1. KeptInsts /\ BrksAt
    BY DEF MInv
  <2>2. /\ mem' = [w \in Word |-> Recovered(a, w)]
        /\ g_stepbp' = [s \in Slot |-> Clear]
        /\ g_bps' = [i \in Bp |-> IF i \in find_bp(a) THEN Clear ELSE g_bps[i]]
    BY <1>2 DEF debugHandleException
  <2>3. \A i \in Bp : g_bps'[i].active <=> g_bps[i].active /\ Phys(g_bps[i].address) # Phys(a)
    BY <2>2 DEF find_bp, Clear
  <2>4. \A i \in Bp : g_bps'[i].active => g_bps'[i] = g_bps[i]
    BY <2>2 DEF find_bp, Clear
  <2>5. \A s \in Slot : ~g_stepbp'[s].active
    BY <2>2 DEF Clear
  <2>6. KeptInsts'
    BY <2>1, <2>4, <2>5 DEF KeptInsts
  <2>7. \A w \in Word : ~StepOn(w)' /\ (BpAt(w)' <=> BpAt(w) /\ w # Phys(a))
    BY <2>3, <2>4, <2>5 DEF BpAt, StepOn
  <2>8. ASSUME NEW w \in Word
        PROVE  mem'[w] = "brk" <=> BpAt(w) /\ w # Phys(a)
    <3> DEFINE s == {x \in Slot : g_stepbp[x].active /\ Phys(g_stepbp[x].address) = w}
               b == {x \in find_bp(a) : Phys(g_bps[x].address) = w}
    <3>1. mem'[w] = Recovered(a, w)
      BY <2>2
    <3>2. CASE b # {}
      <4>1. w = Phys(a) /\ b \subseteq Bp /\ \A x \in b : g_bps[x].oldinst = "own"
        BY <2>1, <3>2 DEF find_bp, KeptInsts
      <4>2. PICK m \in b : \A y \in b : m <= y
        <5>1. b \subseteq Nat
          BY DEF find_bp, Bp, DebuggerAssumption
        <5> HIDE DEF b
        <5>2. QED BY <3>2, <5>1, LeastIn
      <4>3. Recovered(a, w) = g_bps[CHOOSE x \in b : \A y \in b : x <= y].oldinst
        BY <3>2 DEF Recovered
      <4> HIDE DEF b
      <4>4. QED BY <3>1, <4>1, <4>2, <4>3
    <3>3. CASE b = {}
      <4>1. BpAt(w) => w # Phys(a)
        BY <3>3 DEF BpAt, find_bp
      <4>2. CASE s = {}
        <5>1. Recovered(a, w) = mem[w]
          BY <3>3, <4>2 DEF Recovered
        <5>2. ~StepOn(w)
          BY <4>2 DEF StepOn
        <5>3. QED BY <2>1, <3>1, <4>1, <5>1, <5>2 DEF BrksAt
      <4>3. CASE s # {}
        <5>1. PICK x \in s : Recovered(a, w) = g_stepbp[x].oldinst
          <6>1. s \subseteq Slot
            OBVIOUS
          <6>2. Recovered(a, w) = IF 1 \in s THEN g_stepbp[1].oldinst
                                  ELSE IF 0 \in s THEN g_stepbp[0].oldinst ELSE mem[w]
            BY <3>3 DEF Recovered
          <6> HIDE DEF s
          <6>3. QED BY <4>3, <6>1, <6>2 DEF Slot
        <5>2. g_stepbp[x].oldinst = "brk" <=> BpAt(w)
          BY <2>1 DEF KeptInsts
        <5>3. QED BY <3>1, <4>1, <5>1, <5>2
      <4>4. QED BY <4>2, <4>3
    <3>4. QED BY <3>2, <3>3
  <2>9. BrksAt'
    BY <2>7, <2>8 DEF BrksAt
  <2>10. QED BY <2>6, <2>9
<1>3. QED BY <1>1, <1>2

\* debugStep, by an orderly user: no step was active.
LEMMA StepM ==
  ASSUME DebuggerAssumption, CInv, MInv, NEW skip \in BOOLEAN, debugStep(skip)
  PROVE  MInv'
<1> SUFFICES ASSUME Orderly PROVE KeptInsts' /\ BrksAt'
  BY DEF MInv
<1> DEFINE epc == ctx[g_currex].epc
           at == StepPlaces(epc, skip)
<1>1. KeptInsts /\ BrksAt /\ Owners /\ Others
  BY DEF MInv, CInv
<1>2. g_currex \in Context /\ ~Stepping /\ step_generic(epc, skip) /\ UNCHANGED g_bps
  BY <1>1 DEF debugStep, Others
<1>3. epc \in Addr
  BY <1>1, <1>2 DEF Owners, CtxRec
<1> HIDE DEF epc
<1>4. /\ \A s \in Slot : IF s \in DOMAIN at
            THEN g_stepbp'[s].address = at[s] /\ g_stepbp'[s].oldinst = mem[Phys(at[s])]
                 /\ g_stepbp'[s].active
            ELSE g_stepbp'[s] = g_stepbp[s]
      /\ \A w \in Word :
            mem'[w] = IF \E s \in DOMAIN at : Phys(at[s]) = w THEN "brk" ELSE mem[w]
  BY <1>1, <1>2, <1>3, StepIs
<1>5. DOMAIN at \subseteq Slot /\ \A s \in DOMAIN at : at[s] \in Int /\ Phys(at[s]) \in Word
  BY <1>3, StepPlacesIn, PhysIn DEF Addr
<1> HIDE DEF at
<1>6. \A s \in Slot : ~g_stepbp[s].active
  BY <1>2 DEF Stepping
<1>7. \A w \in Word : mem[w] = "brk" <=> BpAt(w)
  BY <1>1, <1>6 DEF BrksAt, StepOn
<1>8. \A w : (BpAt(w)' <=> BpAt(w)) /\ (StepOn(w)' <=> \E s \in DOMAIN at : Phys(at[s]) = w)
  BY <1>2, <1>4, <1>5, <1>6 DEF BpAt, StepOn
<1>9. KeptInsts'
  <2>1. \A i \in Bp : g_bps'[i].active => g_bps'[i].oldinst = "own"
    BY <1>1, <1>2 DEF KeptInsts
  <2>2. ASSUME NEW s \in Slot, g_stepbp'[s].active
        PROVE  g_stepbp'[s].oldinst = "brk" <=> BpAt(Phys(g_stepbp[s].address))'
    <3>1. s \in DOMAIN at /\ g_stepbp'[s].address = at[s]
          /\ g_stepbp'[s].oldinst = mem[Phys(at[s])]
      BY <1>4, <1>6, <2>2
    <3>2. mem[Phys(at[s])] = "brk" <=> BpAt(Phys(at[s]))
      BY <1>5, <1>7, <3>1
    <3>3. BpAt(Phys(g_stepbp[s].address))' <=> BpAt(Phys(at[s]))
      BY <1>2, <3>1 DEF BpAt
    <3>4. QED BY <3>1, <3>2, <3>3
  <2>3. QED BY <2>1, <2>2 DEF KeptInsts
<1>10. BrksAt'
  BY <1>4, <1>7, <1>8 DEF BrksAt
<1>11. QED BY <1>9, <1>10

\* debugSetBP, by an orderly user: on no step's word.
LEMMA SetBpM ==
  ASSUME DebuggerAssumption, CInv, MInv, NEW a \in Addr, debugSetBP(a)
  PROVE  MInv'
<1> SUFFICES ASSUME Orderly PROVE KeptInsts' /\ BrksAt'
  BY DEF MInv
<1>1. KeptInsts /\ BrksAt /\ Others
  BY DEF MInv, CInv
<1>2. PICK i \in Bp :
        /\ ~g_bps[i].active
        /\ g_bps' = [g_bps EXCEPT ![i] = [address |-> a, oldinst |-> mem[Phys(a)], active |-> TRUE]]
  BY DEF debugSetBP
<1>3. /\ mem' = [mem EXCEPT ![Phys(a)] = "brk"] /\ UNCHANGED g_stepbp
      /\ ~BpAt(Phys(a)) /\ ~StepOn(Phys(a))
  BY DEF debugSetBP, find_bp, BpAt, StepOn
<1>4. Phys(a) \in Word /\ mem[Phys(a)] = "own"
  <2>1. Phys(a) \in Word
    BY PhysIn DEF Addr
  <2>2. QED BY <1>1, <1>3, <2>1 DEF BrksAt, Others
<1>5. /\ g_bps'[i].active /\ g_bps'[i].address = a /\ g_bps'[i].oldinst = "own"
      /\ \A j \in Bp : j # i => g_bps'[j] = g_bps[j]
  BY <1>1, <1>2, <1>4 DEF Others
<1>6. \A w : (StepOn(w)' <=> StepOn(w)) /\ (BpAt(w)' <=> BpAt(w) \/ w = Phys(a))
  BY <1>2, <1>3, <1>5 DEF StepOn, BpAt
<1>7. KeptInsts'
  <2>1. \A j \in Bp : g_bps'[j].active => g_bps'[j].oldinst = "own"
    BY <1>1, <1>5 DEF KeptInsts
  <2>2. ASSUME NEW s \in Slot, g_stepbp[s].active
        PROVE  g_stepbp[s].oldinst = "brk" <=> BpAt(Phys(g_stepbp[s].address))'
    <3>1. Phys(g_stepbp[s].address) # Phys(a)
      BY <1>3, <2>2 DEF StepOn
    <3>2. BpAt(Phys(g_stepbp[s].address))' <=> BpAt(Phys(g_stepbp[s].address))
      BY <1>2, <1>3, <1>5, <3>1 DEF BpAt
    <3>3. QED BY <1>1, <2>2, <3>2 DEF KeptInsts
  <2>3. QED BY <1>3, <2>1, <2>2 DEF KeptInsts
<1>8. BrksAt'
  <2>1. mem'[Phys(a)] = "brk" /\ \A w \in Word : w # Phys(a) => mem'[w] = mem[w]
    BY <1>1, <1>3, <1>4 DEF Others
  <2>2. QED BY <1>1, <1>4, <1>6, <2>1 DEF BrksAt
<1>9. QED BY <1>7, <1>8

\* The invariant is inductive.
LEMMA NextM ==
  ASSUME DebuggerAssumption, CInv, MInv, [Next]_vars
  PROVE  MInv'
<1>1. ASSUME NEW t \in All, psplinkHandleException(t) PROVE MInv'
  <2>1. thr[t].ctx \in Context
    BY <1>1 DEF psplinkHandleException, CInv, Owners, Stopped, ThrRec
  <2>2. ctx[thr[t].ctx].epc \in Addr
    BY <2>1 DEF CInv, Owners, CtxRec
  <2>3. QED BY <1>1, <2>2, HandleM DEF psplinkHandleException, CInv
<1>2. CASE UNCHANGED <<mem, g_bps, g_stepbp>>
  BY <1>2, MemoryKept
<1>3. CASE Next
  <2>1. ASSUME NEW t \in All,
               Execute(t) \/ Fault(t) \/ Wake(t) \/ psplinkResumeFromException(t)
        PROVE  UNCHANGED <<mem, g_bps, g_stepbp>>
    BY <2>1 DEF Execute, Fault, Wake, psplinkResumeFromException
  <2>2. exresume_cmd => UNCHANGED <<mem, g_bps, g_stepbp>>
    BY DEF exresume_cmd
  <2>3. \A c \in Context : exceptionSetCtx(c) => UNCHANGED <<mem, g_bps, g_stepbp>>
    BY DEF exceptionSetCtx
  <2>4. QED BY <1>1, <1>2, <1>3, <2>1, <2>2, <2>3, StepM, SetBpM DEF Next
<1>4. QED BY <1>2, <1>3 DEF vars

\* Init.
LEMMA InitM ==
  ASSUME Init
  PROVE  MInv
BY DEF Init, MInv, KeptInsts, BrksAt, BpAt, StepOn, Clear

\* step_generic, debugSetBP, debugHandleException: in the hands of an orderly
\* user memory holds a break instruction exactly where a breakpoint or a step is
\* active: every instruction is given back, in whatever order steps, breakpoints
\* and traps of however many threads come on the same words.
THEOREM MemoryIsFaithful ==
  ASSUME DebuggerAssumption
  PROVE  Spec => []MemoryFaithful
<1>1. Init => CInv /\ MInv
  BY InitC, InitM
<1>2. CInv /\ MInv /\ [Next]_vars => (CInv /\ MInv)'
  BY NextC, NextM
<1>3. MInv => MemoryFaithful
  BY PlantedIs DEF MInv, BrksAt, MemoryFaithful
<1>4. QED BY <1>1, <1>2, <1>3, PTL DEF Spec

-----------------------------------------------------------------------------
(* Resuming and stepping, for an orderly user. *)

\* A thread that sleeps in its trap is the one its context names, and the parse
\* thread never sleeps there.
Named == /\ \A t \in All : thr[t].at \in {"sleep", "woken"} => ctx[thr[t].ctx].thid = t
         /\ thr[Parse].at # "sleep"

\* A wake-up is for a sleeping thread, one at a time; the current exception is
\* that of a thread which sleeps and has not been resumed.
Waked == \A t \in Thread : thr[t].wake > 0 => thr[t].at = "sleep" /\ thr[t].wake = 1
Current ==
  g_currex # None /\ ctx[g_currex].thid \in Thread =>
    /\ thr[ctx[g_currex].thid].at = "sleep" /\ thr[ctx[g_currex].thid].ctx = g_currex
    /\ thr[ctx[g_currex].thid].wake = 0
UInv == Named /\ (Orderly => Waked /\ Current)

\* What stays the same of a thread.
Same(t) == /\ thr'[t].at = thr[t].at /\ thr'[t].ctx = thr[t].ctx
           /\ thr'[t].wake = thr[t].wake /\ thr'[t].pc = thr[t].pc
Rest(t) == \A u \in All : u # t => Same(u)

\* A thread that runs on.
LEMMA RunIs ==
  ASSUME DebuggerAssumption, CInv, NEW t \in All, Execute(t), ~psplinkExceptionHandler(t)
  PROVE  /\ Rest(t) /\ thr[t].at = "run" /\ thr'[t].at = "run" /\ thr'[t].ctx = thr[t].ctx
         /\ thr'[t].wake = thr[t].wake
         /\ LET pc == thr[t].pc
            IN  /\ pc \in Addr /\ mem[Phys(pc)] = "own"
                /\ t # Parse => thr'[t].pc \in IF Inst(pc).cond THEN {Target(pc), After(pc, 2)}
                                              ELSE {Target(pc)}
         /\ stepped' = [stepped EXCEPT ![t] = IF @ = None THEN None ELSE @ + 1]
         /\ UNCHANGED <<mem, g_bps, g_stepbp, g_currex, ctx>>
<1> DEFINE pc == thr[t].pc
<1>1. /\ thr[t].at = "run" /\ pc # None /\ mem[Phys(pc)] = "own"
      /\ stepped' = [stepped EXCEPT ![t] = IF @ = None THEN None ELSE @ + 1]
      /\ UNCHANGED <<mem, g_bps, g_stepbp, g_currex, ctx>>
  BY DEF Execute
<1>2. PICK next \in IF Inst(pc).cond THEN {Target(pc), After(pc, 2)} ELSE {Target(pc)} :
        thr' = [thr EXCEPT ![t].pc = IF t = Parse /\ pc = After(LongJmp, 1) THEN None ELSE next]
  BY DEF Execute
<1>3. thr[t] \in ThrRec /\ pc \in Addr
  BY <1>1 DEF CInv, Owners, ThrRec
<1> HIDE DEF pc
<1>4. /\ thr'[t].at = thr[t].at /\ thr'[t].ctx = thr[t].ctx /\ thr'[t].wake = thr[t].wake
      /\ (t # Parse => thr'[t].pc = next) /\ Rest(t)
  BY <1>2, <1>3 DEF CInv, Owners, ThrRec, Rest, Same
<1>5. QED BY <1>1, <1>2, <1>3, <1>4 DEF pc

\* psplinkTrap and psplinkHandleException.
LEMMA TrapIs ==
  ASSUME DebuggerAssumption, CInv, NEW t \in All, psplinkHandleException(t)
  PROVE  LET c == thr[t].ctx
         IN  /\ c \in Context /\ thr[t].at = "trap" /\ g_currex' = c /\ ctx'[c].thid = t
             /\ \A d \in Context : d # c => ctx'[d] = ctx[d]
             /\ thr'[t].at = (IF t = Parse THEN "woken" ELSE "sleep") /\ thr'[t].ctx = c
             /\ thr'[t].wake = thr[t].wake /\ Rest(t)
             /\ \A u \in All : u # t => thr[u].ctx # c
<1> DEFINE c == thr[t].ctx
           e == IF t = Parse THEN LongJmp ELSE ctx[c].epc
           p == IF t = Parse THEN "woken" ELSE "sleep"
<1>1. /\ thr[t].at = "trap" /\ g_currex' = c /\ thr' = [thr EXCEPT ![t].at = p]
      /\ ctx' = [ctx EXCEPT ![c].thid = t, ![c].epc = e]
  BY DEF psplinkHandleException
<1>2. c \in Context /\ thr[t] \in ThrRec /\ ctx[c] \in CtxRec
  BY <1>1 DEF CInv, Owners, Stopped, ThrRec
<1> HIDE DEF e, p, c
<1>3. ctx'[c].thid = t /\ \A d \in Context : d # c => ctx'[d] = ctx[d]
  BY <1>1, <1>2 DEF CInv, Owners, CtxRec
<1>4. thr'[t].at = p /\ thr'[t].ctx = c /\ thr'[t].wake = thr[t].wake /\ Rest(t)
  BY <1>1, <1>2 DEF CInv, Owners, ThrRec, Rest, Same, c
<1>5. \A u \in All : u # t => thr[u].ctx # c
  BY <1>2 DEF CInv, Owners, ContextsOwned, Context, None, c
<1>6. QED BY <1>1, <1>2, <1>3, <1>4, <1>5 DEF c, p

\* A counted wake-up wakes the sleeper.
LEMMA WakeIs ==
  ASSUME CInv, NEW t \in All, Wake(t)
  PROVE  /\ thr[t].at = "sleep" /\ thr[t].wake > 0 /\ Rest(t)
         /\ thr'[t].at = "woken" /\ thr'[t].ctx = thr[t].ctx /\ thr'[t].wake = thr[t].wake - 1
         /\ UNCHANGED <<mem, g_bps, g_stepbp, ctx, g_currex, stepped>>
BY DEF Wake, CInv, Owners, ThrRec, Rest, Same

\* The thread goes on where its context says.
LEMMA ReturnIs ==
  ASSUME CInv, NEW t \in All, psplinkResumeFromException(t)
  PROVE  LET c == thr[t].ctx
         IN  /\ thr[t].at = "woken" /\ c \in Context /\ Rest(t)
             /\ thr'[t].at = "run" /\ thr'[t].ctx = None /\ thr'[t].wake = thr[t].wake
             /\ thr'[t].pc = ctx[c].epc /\ ctx[c].epc \in Addr
             /\ \A d \in Context : ctx'[d].thid = ctx[d].thid /\ ctx'[d].epc = ctx[d].epc
             /\ UNCHANGED <<mem, g_bps, g_stepbp, g_currex, stepped>>
<1> DEFINE c == thr[t].ctx
           e == ctx[c].epc
<1>1. /\ thr[t].at = "woken" /\ ctx' = [ctx EXCEPT ![c].valid = FALSE]
      /\ thr' = [thr EXCEPT ![t].at = "run", ![t].pc = e, ![t].ctx = None]
      /\ UNCHANGED <<mem, g_bps, g_stepbp, g_currex, stepped>>
  BY DEF psplinkResumeFromException
<1>2. c \in Context /\ thr[t] \in ThrRec /\ ctx[c] \in CtxRec /\ e \in Addr
  BY <1>1 DEF CInv, Owners, Stopped, ThrRec, CtxRec
<1> HIDE DEF c, e
<1>3. \A d \in Context : ctx'[d].thid = ctx[d].thid /\ ctx'[d].epc = ctx[d].epc
  BY <1>1, <1>2 DEF CInv, Owners, CtxRec
<1>4. /\ thr'[t].at = "run" /\ thr'[t].ctx = None /\ thr'[t].wake = thr[t].wake
      /\ thr'[t].pc = e /\ Rest(t)
  BY <1>1, <1>2 DEF CInv, Owners, ThrRec, Rest, Same
<1>5. QED BY <1>1, <1>2, <1>3, <1>4 DEF c, e

\* A thread goes into its trap.
LEMMA TrapU ==
  ASSUME DebuggerAssumption, CInv, UInv, NEW t \in All, thr[t].at = "run",
         psplinkExceptionHandler(t), UNCHANGED g_currex
  PROVE  UInv'
<1>1. Only(t) /\ ((\E c \in Context : TakesContext(t, c)) \/ Deleted(t)) /\ Owners
  BY HandlerIs DEF CInv
<1>2. /\ thr'[t].at \in {"trap", "gone"} /\ thr'[t].wake = thr[t].wake
      /\ \A u \in All : u # t => thr'[u] = thr[u]
      /\ \A d \in Context : ctx'[d].thid = ctx[d].thid
  BY <1>1 DEF Only, TakesContext, Deleted
<1>3. \A u \in All : thr[u].at \in Stopped => thr[u].ctx \in Context
  BY <1>1 DEF Owners, ThrRec
<1>4. Parse \in All /\ Thread \subseteq All /\ g_currex \in Context \cup {None}
  BY DEF All, CInv, Others
<1>5. Named'
  BY <1>2, <1>3, <1>4 DEF UInv, Named, Stopped
<1>6. ASSUME Orderly PROVE Waked' /\ Current'
  <2>1. Waked /\ Current
    BY <1>6 DEF UInv
  <2>2. Waked'
    BY <1>2, <1>4, <2>1 DEF Waked
  <2>3. Current'
    <3> SUFFICES ASSUME g_currex # None, ctx'[g_currex].thid \in Thread
                 PROVE  LET u == ctx'[g_currex].thid
                        IN  thr'[u].at = "sleep" /\ thr'[u].ctx = g_currex /\ thr'[u].wake = 0
      BY DEF Current
    <3>1. ctx'[g_currex].thid = ctx[g_currex].thid
      BY <1>2, <1>4
    <3>2. ctx[g_currex].thid # t
      BY <2>1, <3>1 DEF Current
    <3>3. QED BY <1>2, <1>4, <2>1, <3>1, <3>2 DEF Current
  <2>4. QED BY <2>2, <2>3
<1>7. QED BY <1>5, <1>6 DEF UInv

\* The other steps of threads.
LEMMA ThreadU ==
  ASSUME DebuggerAssumption, CInv, CInv', UInv, NEW t \in All,
         \/ Execute(t) \/ Fault(t) \/ psplinkHandleException(t)
         \/ Wake(t) \/ psplinkResumeFromException(t)
  PROVE  UInv'
<1>1. /\ Named /\ (Orderly => Waked /\ Current)
      /\ Parse \in All /\ Thread \subseteq All /\ g_currex \in Context \cup {None}
      /\ \A u \in All : thr[u].at \in Stopped => thr[u].ctx \in Context
      /\ \A u \in All : thr[u].wake \in Nat
  BY DEF All, CInv, Others, Owners, ThrRec, UInv, DebuggerAssumption
<1>2. CASE (Execute(t) \/ Fault(t)) /\ psplinkExceptionHandler(t)
  <2>1. thr[t].at = "run" /\ UNCHANGED g_currex
    BY <1>2 DEF Execute, Fault
  <2>2. QED BY <1>2, <2>1, TrapU
<1>3. CASE Execute(t) /\ ~psplinkExceptionHandler(t)
  <2>1. /\ Rest(t) /\ thr[t].at = "run" /\ thr'[t].at = "run" /\ thr'[t].ctx = thr[t].ctx
        /\ thr'[t].wake = thr[t].wake /\ UNCHANGED <<ctx, g_currex>>
    BY <1>3, RunIs
  <2>2. Named'
    BY <1>1, <2>1 DEF Named, Rest, Same
  <2>3. Orderly => Waked' /\ Current'
    BY <1>1, <2>1 DEF Waked, Current, Rest, Same
  <2>4. QED BY <2>2, <2>3 DEF UInv
<1>4. CASE psplinkHandleException(t)
  <2> DEFINE c == thr[t].ctx
  <2>1. /\ c \in Context /\ thr[t].at = "trap" /\ g_currex' = c /\ ctx'[c].thid = t
        /\ \A d \in Context : d # c => ctx'[d] = ctx[d]
        /\ thr'[t].at = (IF t = Parse THEN "woken" ELSE "sleep") /\ thr'[t].ctx = c
        /\ thr'[t].wake = thr[t].wake /\ Rest(t)
        /\ \A u \in All : u # t => thr[u].ctx # c
    BY <1>4, TrapIs
  <2> HIDE DEF c
  <2>2. Named'
    BY <1>1, <2>1 DEF Named, Rest, Same, Stopped
  <2>3. ASSUME Orderly PROVE Waked' /\ Current'
    <3>1. t \in Thread => thr[t].wake = 0
      BY <1>1, <2>1, <2>3 DEF Waked
    <3>2. Waked'
      BY <1>1, <2>1, <2>3, <3>1 DEF Waked, Rest, Same
    <3>3. t \in Thread => t # Parse
      BY DEF DebuggerAssumption
    <3>4. Current'
      BY <2>1, <3>1, <3>3 DEF Current
    <3>5. QED BY <3>2, <3>4
  <2>4. QED BY <2>2, <2>3 DEF UInv
<1>5. CASE Wake(t)
  <2>1. /\ thr[t].at = "sleep" /\ thr[t].wake > 0 /\ Rest(t)
        /\ thr'[t].at = "woken" /\ thr'[t].ctx = thr[t].ctx /\ thr'[t].wake = thr[t].wake - 1
        /\ UNCHANGED <<ctx, g_currex>>
    BY <1>5, WakeIs
  <2>2. Named'
    BY <1>1, <2>1 DEF Named, Rest, Same
  <2>3. Orderly => Waked' /\ Current'
    BY <1>1, <2>1 DEF Waked, Current, Rest, Same
  <2>4. QED BY <2>2, <2>3 DEF UInv
<1>6. CASE psplinkResumeFromException(t)
  <2>1. /\ thr[t].at = "woken" /\ Rest(t)
        /\ thr'[t].at = "run" /\ thr'[t].wake = thr[t].wake
        /\ \A d \in Context : ctx'[d].thid = ctx[d].thid
        /\ UNCHANGED g_currex
    BY <1>6, ReturnIs
  <2>2. Named'
    BY <1>1, <2>1 DEF Named, Rest, Same, Stopped
  <2>3. Orderly => Waked' /\ Current'
    BY <1>1, <2>1 DEF Waked, Current, Rest, Same
  <2>4. QED BY <2>2, <2>3 DEF UInv
<1>7. QED BY <1>2, <1>3, <1>4, <1>5, <1>6 DEF Fault

\* The user resumes the current exception.
LEMMA ResumeU ==
  ASSUME DebuggerAssumption, CInv, UInv, g_currex # None, exceptionResume(g_currex),
         ctx' \in [Context -> CtxRec],
         \A d \in Context : ctx'[d].valid = ctx[d].valid /\ ctx'[d].thid = ctx[d].thid
  PROVE  UInv'
<1> DEFINE t == ctx[g_currex].thid
<1>1. g_currex \in Context
  BY DEF CInv, Others
<1>2. /\ g_currex' = None /\ t \in All /\ thr'[t].wake = thr[t].wake + 1
      /\ thr'[t].at = thr[t].at /\ thr'[t].ctx = thr[t].ctx
      /\ \A u \in All : u # t => thr'[u] = thr[u]
  BY <1>1, ResumeIs
<1>3. /\ \A u \in All : thr[u].at \in Stopped => thr[u].ctx \in Context
      /\ Parse \in All /\ Thread \subseteq All
  BY DEF CInv, Owners, ThrRec, All
<1>4. Orderly => Waked'
  <2> SUFFICES ASSUME Orderly PROVE Waked'
    OBVIOUS
  <2>1. t \in Thread => thr[t].at = "sleep" /\ thr[t].wake = 0
    BY <1>1 DEF UInv, Current, Context, None
  <2> HIDE DEF t
  <2>2. QED BY <1>2, <1>3, <2>1 DEF UInv, Waked
<1> HIDE DEF t
<1>5. Named'
  BY <1>2, <1>3 DEF UInv, Named, Stopped
<1>6. Current'
  BY <1>2 DEF Current
<1>7. QED BY <1>4, <1>5, <1>6 DEF UInv

\* The invariant is inductive.
LEMMA NextU ==
  ASSUME DebuggerAssumption, CInv, CInv', UInv, [Next]_vars
  PROVE  UInv'
<1>1. /\ Named /\ (Orderly => Waked /\ Current) /\ Owners /\ Others /\ Thread \subseteq All
  BY DEF UInv, CInv, All
<1>2. ASSUME NEW t \in All,
             \/ Execute(t) \/ Fault(t) \/ psplinkHandleException(t)
             \/ Wake(t) \/ psplinkResumeFromException(t)
      PROVE  UInv'
  BY <1>2, ThreadU
<1>3. ASSUME NEW skip \in BOOLEAN, debugStep(skip) PROVE UInv'
  BY <1>1, <1>3, ResumeU DEF debugStep, Owners
<1>4. CASE exresume_cmd
  <2>1. g_currex \in Context /\ g_currex # None /\ exceptionResume(g_currex)
    BY <1>1, <1>4 DEF exresume_cmd, Others
  <2>2. PICK a : ctx' = [ctx EXCEPT ![g_currex].epc = a]
    BY <1>4 DEF exresume_cmd
  <2>3. \A d \in Context : ctx'[d].valid = ctx[d].valid /\ ctx'[d].thid = ctx[d].thid
    BY <1>1, <2>1, <2>2 DEF Owners, CtxRec
  <2>4. ctx' \in [Context -> CtxRec]
    BY DEF CInv, Owners
  <2>5. QED BY <2>1, <2>3, <2>4, ResumeU
<1>5. ASSUME NEW c \in Context, exceptionSetCtx(c) PROVE UInv'
  <2>1. UNCHANGED <<thr, ctx>> /\ g_currex' = c
    BY <1>5 DEF exceptionSetCtx
  <2>2. Named' /\ (Orderly => Waked')
    BY <1>1, <2>1 DEF Named, Waked
  <2>3. ASSUME Orderly PROVE Current'
    <3>1. PICK t \in Thread : thr[t].at = "sleep" /\ thr[t].ctx = c /\ thr[t].wake = 0
      BY <1>5, <2>3 DEF exceptionSetCtx
    <3>2. ctx[c].thid = t
      BY <1>1, <3>1 DEF Named
    <3>3. QED BY <2>1, <3>1, <3>2 DEF Current
  <2>4. QED BY <2>2, <2>3 DEF UInv
<1>6. CASE UNCHANGED <<thr, ctx, g_currex>>
  BY <1>1, <1>6 DEF UInv, Named, Waked, Current
<1>7. \A a \in Addr : debugSetBP(a) => UNCHANGED <<thr, ctx, g_currex>>
  BY DEF debugSetBP
<1>8. QED BY <1>2, <1>3, <1>4, <1>5, <1>6, <1>7 DEF Next, vars

\* Init.
LEMMA InitU ==
  ASSUME DebuggerAssumption, Init
  PROVE  UInv
<1>1. Parse \in All /\ Thread \subseteq All
  BY DEF All
<1>2. QED BY <1>1 DEF Init, UInv, Named, Waked, Current

\* The addresses the program itself goes to from a, and whether steps wait there.
GoesTo(a) ==
  LET i    == Code[Phys(a)]
      jump == IF ~i.branch THEN After(a, 1)
              ELSE IF i.reg # None THEN i.reg ELSE (a - Phys(a)) + i.to
  IN  IF i.cond THEN {jump, After(a, 2)} ELSE {jump}
Covered(a) == \E s \in Slot : g_stepbp[s].active /\ g_stepbp[s].address = a
Covers(a) == \A n \in GoesTo(a) : Covered(n)

\* A thread whose step has not begun will go on at an instruction all of whose
\* ways out have a step; one that has run it stands at one of these.
Begins(t) ==
  \/ thr[t].at = "run" /\ Covers(thr[t].pc)
  \/ thr[t].at = "sleep" /\ thr[t].wake > 0 /\ Covers(ctx[thr[t].ctx].epc)
  \/ thr[t].at = "woken" /\ Covers(ctx[thr[t].ctx].epc)
StepOf(t) ==
  stepped[t] # None =>
    /\ t \in Thread /\ stepped[t] \in {0, 1}
    /\ stepped[t] = 0 => Begins(t)
    /\ stepped[t] = 1 => thr[t].at = "run" /\ Covered(thr[t].pc)
SInv == Orderly => \A t \in All : StepOf(t)

\* The processor follows the program where its own instruction is in memory.
LEMMA GoesIs ==
  ASSUME NEW a, mem[Phys(a)] = "own"
  PROVE  GoesTo(a) = IF Inst(a).cond THEN {Target(a), After(a, 2)} ELSE {Target(a)}
BY DEF GoesTo, Inst, Target

\* step_generic covers every way out of the instruction.
LEMMA StepCovers ==
  ASSUME DebuggerAssumption, Others, NEW epc \in Addr, NEW skip \in BOOLEAN,
         step_generic(epc, skip), mem[Phys(epc)] = "own", ~(skip /\ Inst(epc).link)
  PROVE  Covers(epc)'
<1> DEFINE at == StepPlaces(epc, skip)
<1>1. \A s \in DOMAIN at : s \in Slot /\ g_stepbp'[s].address = at[s] /\ g_stepbp'[s].active
  BY StepIs, StepPlacesIn
<1>2. ASSUME NEW n \in GoesTo(epc) PROVE \E s \in DOMAIN at : at[s] = n
  <2>1. n \in IF Inst(epc).cond THEN {Target(epc), After(epc, 2)} ELSE {Target(epc)}
    BY <1>2, GoesIs
  <2>2. Inst(epc).cond => Inst(epc).branch
    <3>1. Phys(epc) \in Word /\ Inst(epc) = Code[Phys(epc)]
      BY PhysIn DEF Inst, Addr
    <3>2. QED BY <3>1 DEF DebuggerAssumption
  <2>3. CASE Inst(epc).branch /\ Inst(epc).cond /\ Target(epc) # After(epc, 2)
    <3>1. at = [s \in Slot |-> IF s = 0 THEN Target(epc) ELSE After(epc, 2)]
      BY <2>3 DEF StepPlaces
    <3>2. at[0] = Target(epc) /\ at[1] = After(epc, 2) /\ DOMAIN at = {0, 1}
      BY <3>1 DEF Slot
    <3> HIDE DEF at
    <3>3. QED BY <2>1, <3>2
  <2>4. CASE ~(Inst(epc).branch /\ Inst(epc).cond /\ Target(epc) # After(epc, 2))
    <3>1. at = [s \in {0} |-> Target(epc)]
      BY <2>4 DEF StepPlaces
    <3>2. at[0] = Target(epc) /\ DOMAIN at = {0}
      BY <3>1
    <3> HIDE DEF at
    <3>3. QED BY <2>1, <2>2, <2>4, <3>2
  <2>5. QED BY <2>3, <2>4
<1> HIDE DEF at
<1>3. GoesTo(epc)' = GoesTo(epc)
  BY DEF GoesTo
<1>4. QED BY <1>1, <1>2, <1>3 DEF Covers, Covered

\* A step that neither touches steps nor this thread leaves its step as it was.
LEMMA StepOfKept ==
  ASSUME NEW t \in All, StepOf(t), UNCHANGED g_stepbp, stepped'[t] = stepped[t],
         thr'[t].at = thr[t].at, thr'[t].pc = thr[t].pc, thr'[t].ctx = thr[t].ctx,
         thr'[t].wake = thr[t].wake,
         thr[t].at \in {"sleep", "woken"} => ctx'[thr[t].ctx].epc = ctx[thr[t].ctx].epc
  PROVE  StepOf(t)'
<1>1. \A a : (Covered(a)' <=> Covered(a)) /\ (Covers(a)' <=> Covers(a))
  BY DEF Covered, Covers, GoesTo
<1>2. Begins(t) => Begins(t)'
  BY <1>1 DEF Begins
<1>3. QED BY <1>1, <1>2 DEF StepOf

\* While a thread is stepped, steps are active.
LEMMA SteppedStepping ==
  ASSUME SInv, Orderly, ~Stepping, NEW t \in All
  PROVE  stepped[t] = None
<1>1. \A a : ~Covered(a)
  BY DEF Stepping, Covered
<1>2. \A a : ~Covers(a)
  BY <1>1 DEF Covers, GoesTo
<1>3. QED BY <1>1, <1>2 DEF SInv, StepOf, Begins

\* A step waits at an address: memory holds a break there.
LEMMA CoveredBreaks ==
  ASSUME DebuggerAssumption, MInv, Orderly, NEW a \in Addr, Covered(a)
  PROVE  mem[Phys(a)] = "brk"
<1>1. Phys(a) \in Word
  BY PhysIn DEF Addr
<1>2. StepOn(Phys(a))
  BY DEF Covered, StepOn
<1>3. QED BY <1>1, <1>2 DEF MInv, BrksAt

\* The steps of threads.
LEMMA ThreadS ==
  ASSUME DebuggerAssumption, CInv, MInv, UInv, SInv, Orderly, NEW t \in All,
         \/ Execute(t) \/ Fault(t) \/ psplinkHandleException(t)
         \/ Wake(t) \/ psplinkResumeFromException(t)
  PROVE  \A u \in All : StepOf(u)'
<1>1. /\ Owners /\ Others /\ Named /\ Waked /\ Current /\ \A u \in All : StepOf(u)
      /\ \A u \in All : thr[u].at \in Stopped => thr[u].ctx \in Context
      /\ Thread \subseteq All /\ Parse \notin Thread
  BY DEF CInv, UInv, SInv, Owners, ThrRec, All, DebuggerAssumption
<1>2. CASE (Execute(t) \/ Fault(t)) /\ psplinkExceptionHandler(t)
  <2>1. thr[t].at = "run" /\ UNCHANGED <<g_stepbp, mem, g_bps>>
    BY <1>2 DEF Execute, Fault
  <2>2. Only(t) /\ ((\E c \in Context : TakesContext(t, c)) \/ Deleted(t))
    BY <1>1, <1>2, <2>1, HandlerIs
  <2>3. UNCHANGED g_stepbp /\ stepped' = [stepped EXCEPT ![t] = None]
    <3>1. thr'[t].at # "run"
      BY <2>2 DEF TakesContext, Deleted
    <3>2. ASSUME NEW next, thr' = [thr EXCEPT ![t].pc = next] PROVE FALSE
      BY <1>1, <2>1, <3>1, <3>2 DEF Owners, ThrRec
    <3>3. QED BY <1>2, <2>1, <3>2 DEF Execute, Fault
  <2>4. stepped'[t] = None /\ \A u \in All : u # t => stepped'[u] = stepped[u]
    BY <1>1, <2>3 DEF Others
  <2>5. StepOf(t)'
    BY <2>4 DEF StepOf
  <2>6. ASSUME NEW u \in All, u # t PROVE StepOf(u)'
    <3>1. thr'[u] = thr[u]
      BY <2>2, <2>6 DEF Only
    <3>2. thr[u].at \in {"sleep", "woken"} => ctx'[thr[u].ctx].epc = ctx[thr[u].ctx].epc
      <4>1. ASSUME NEW c \in Context, TakesContext(t, c)
            PROVE  thr[u].ctx # c
        BY <1>1, <4>1, FreeIsNobodys DEF TakesContext
      <4>2. QED BY <1>1, <2>2, <4>1 DEF TakesContext, Deleted, Stopped
    <3>3. QED BY <1>1, <2>3, <2>4, <2>6, <3>1, <3>2, StepOfKept
  <2>7. QED BY <2>5, <2>6
<1>3. CASE Execute(t) /\ ~psplinkExceptionHandler(t)
  <2> DEFINE pc == thr[t].pc
  <2>1. /\ Rest(t) /\ thr[t].at = "run" /\ thr'[t].at = "run"
        /\ pc \in Addr /\ mem[Phys(pc)] = "own"
        /\ t # Parse => thr'[t].pc \in IF Inst(pc).cond THEN {Target(pc), After(pc, 2)}
                                      ELSE {Target(pc)}
        /\ stepped' = [stepped EXCEPT ![t] = IF @ = None THEN None ELSE @ + 1]
        /\ UNCHANGED <<mem, g_bps, g_stepbp, g_currex, ctx>>
    BY <1>3, RunIs
  <2>2. /\ stepped'[t] = (IF stepped[t] = None THEN None ELSE stepped[t] + 1)
        /\ \A u \in All : u # t => stepped'[u] = stepped[u]
    BY <1>1, <2>1 DEF Others
  <2>3. stepped[t] # 1
    <3> SUFFICES ASSUME stepped[t] = 1 PROVE FALSE
      OBVIOUS
    <3>1. Covered(pc)
      BY <1>1 DEF StepOf, None
    <3>2. QED BY <2>1, <3>1, CoveredBreaks
  <2>4. StepOf(t)'
    <3>1. CASE stepped[t] = None
      BY <2>2, <3>1 DEF StepOf
    <3>2. CASE stepped[t] # None
      <4>1. t \in Thread /\ stepped[t] = 0 /\ Covers(pc)
        BY <1>1, <2>1, <2>3, <3>2 DEF StepOf, Begins
      <4>2. t # Parse
        BY <1>1, <4>1
      <4>3. thr'[t].pc \in GoesTo(pc)
        BY <2>1, <4>2, GoesIs
      <4>4. Covered(thr'[t].pc)
        BY <4>1, <4>3 DEF Covers
      <4>5. Covered(thr[t].pc)'
        BY <2>1, <4>4 DEF Covered
      <4>6. stepped'[t] = 1
        BY <2>2, <4>1 DEF None
      <4>7. QED BY <2>1, <4>1, <4>5, <4>6 DEF StepOf
    <3>3. QED BY <3>1, <3>2
  <2>5. ASSUME NEW u \in All, u # t PROVE StepOf(u)'
    <3>1. /\ thr'[u].at = thr[u].at /\ thr'[u].pc = thr[u].pc /\ thr'[u].ctx = thr[u].ctx
          /\ thr'[u].wake = thr[u].wake
      BY <2>1, <2>5 DEF Rest, Same
    <3>2. QED BY <1>1, <2>1, <2>2, <2>5, <3>1, StepOfKept
  <2>6. QED BY <2>4, <2>5
<1>4. CASE psplinkHandleException(t)
  <2> DEFINE c == thr[t].ctx
  <2>1. /\ c \in Context /\ thr[t].at = "trap"
        /\ \A d \in Context : d # c => ctx'[d] = ctx[d]
        /\ Rest(t) /\ \A u \in All : u # t => thr[u].ctx # c
    BY <1>4, TrapIs
  <2>2. debugHandleException(ctx[c].epc)
    BY <1>4 DEF psplinkHandleException
  <2> HIDE DEF c
  <2>3. CASE \A u \in All : stepped'[u] = None
    BY <2>3 DEF StepOf
  <2>4. CASE UNCHANGED <<g_stepbp, stepped>>
    <3>1. stepped[t] = None
      BY <1>1, <2>1 DEF StepOf, Begins
    <3>2. StepOf(t)'
      BY <2>4, <3>1 DEF StepOf
    <3>3. ASSUME NEW u \in All, u # t PROVE StepOf(u)'
      <4>1. /\ thr'[u].at = thr[u].at /\ thr'[u].pc = thr[u].pc /\ thr'[u].ctx = thr[u].ctx
            /\ thr'[u].wake = thr[u].wake
        BY <2>1, <3>3 DEF Rest, Same
      <4>2. thr[u].at \in {"sleep", "woken"} => ctx'[thr[u].ctx].epc = ctx[thr[u].ctx].epc
        BY <1>1, <2>1, <3>3 DEF Stopped
      <4>3. QED BY <1>1, <2>4, <4>1, <4>2, StepOfKept
    <3>4. QED BY <3>2, <3>3
  <2>5. QED BY <2>2, <2>3, <2>4 DEF debugHandleException
<1>5. CASE Wake(t)
  <2>1. /\ thr[t].at = "sleep" /\ Rest(t)
        /\ thr'[t].at = "woken" /\ thr'[t].ctx = thr[t].ctx
        /\ UNCHANGED <<g_stepbp, ctx, stepped>>
    BY <1>5, WakeIs
  <2>2. StepOf(t)'
    <3>1. \A a : Covers(a)' <=> Covers(a)
      BY <2>1 DEF Covers, Covered, GoesTo
    <3>2. stepped[t] # 1
      BY <1>1, <2>1 DEF StepOf, None
    <3>3. Begins(t) => Begins(t)'
      BY <2>1, <3>1 DEF Begins
    <3>4. QED BY <1>1, <2>1, <3>2, <3>3 DEF StepOf
  <2>3. ASSUME NEW u \in All, u # t PROVE StepOf(u)'
    <3>1. /\ thr'[u].at = thr[u].at /\ thr'[u].pc = thr[u].pc /\ thr'[u].ctx = thr[u].ctx
          /\ thr'[u].wake = thr[u].wake
      BY <2>1, <2>3 DEF Rest, Same
    <3>2. QED BY <1>1, <2>1, <3>1, StepOfKept
  <2>4. QED BY <2>2, <2>3
<1>6. CASE psplinkResumeFromException(t)
  <2>1. /\ thr[t].at = "woken" /\ thr[t].ctx \in Context /\ Rest(t)
        /\ thr'[t].at = "run" /\ thr'[t].pc = ctx[thr[t].ctx].epc
        /\ \A d \in Context : ctx'[d].thid = ctx[d].thid /\ ctx'[d].epc = ctx[d].epc
        /\ UNCHANGED <<g_stepbp, stepped>>
    BY <1>6, ReturnIs
  <2>2. StepOf(t)'
    <3>1. \A a : Covers(a)' <=> Covers(a)
      BY <2>1 DEF Covers, Covered, GoesTo
    <3>2. stepped[t] # 1
      BY <1>1, <2>1 DEF StepOf, None
    <3>3. Begins(t) => Begins(t)'
      BY <2>1, <3>1 DEF Begins
    <3>4. QED BY <1>1, <2>1, <3>2, <3>3 DEF StepOf
  <2>3. ASSUME NEW u \in All, u # t PROVE StepOf(u)'
    <3>1. /\ thr'[u].at = thr[u].at /\ thr'[u].pc = thr[u].pc /\ thr'[u].ctx = thr[u].ctx
          /\ thr'[u].wake = thr[u].wake
      BY <2>1, <2>3 DEF Rest, Same
    <3>2. thr[u].at \in {"sleep", "woken"} => ctx'[thr[u].ctx].epc = ctx[thr[u].ctx].epc
      BY <1>1, <2>1 DEF Stopped
    <3>3. QED BY <1>1, <2>1, <3>1, <3>2, StepOfKept
  <2>4. QED BY <2>2, <2>3
<1>7. QED BY <1>2, <1>3, <1>4, <1>5, <1>6 DEF Fault

\* The invariant is inductive.
LEMMA NextS ==
  ASSUME DebuggerAssumption, CInv, MInv, UInv, SInv, [Next]_vars
  PROVE  SInv'
<1> SUFFICES ASSUME Orderly PROVE \A u \in All : StepOf(u)'
  BY DEF SInv
<1>1. /\ Owners /\ Others /\ Named /\ Waked /\ Current /\ \A u \in All : StepOf(u)
      /\ \A u \in All : thr[u].at \in Stopped => thr[u].ctx \in Context
      /\ Thread \subseteq All /\ Parse \notin Thread
  BY DEF CInv, UInv, SInv, Owners, ThrRec, All, DebuggerAssumption
<1>2. ASSUME NEW t \in All,
             \/ Execute(t) \/ Fault(t) \/ psplinkHandleException(t)
             \/ Wake(t) \/ psplinkResumeFromException(t)
      PROVE  \A u \in All : StepOf(u)'
  BY <1>2, ThreadS
<1>3. ASSUME NEW skip \in BOOLEAN, debugStep(skip), NEW c \in Context, c = g_currex,
             NEW t \in All, t = ctx[c].thid, NEW epc \in Addr, epc = ctx[c].epc
      PROVE  \A u \in All : StepOf(u)'
  <2>1. /\ c \in Context /\ ~Stepping /\ step_generic(epc, skip) /\ exceptionResume(c)
        /\ UNCHANGED ctx
    BY <1>3 DEF debugStep
  <2>2. stepped' = [stepped EXCEPT ![t] =
              IF /\ thr[t].at = "sleep" /\ thr[t].ctx = c
                 /\ mem[Phys(epc)] = "own" /\ ~(skip /\ Inst(epc).link)
              THEN 0 ELSE None]
    BY <1>3 DEF debugStep
  <2>3. /\ thr'[t].wake = thr[t].wake + 1 /\ thr'[t].at = thr[t].at /\ thr'[t].ctx = thr[t].ctx
    BY <1>1, <1>3, <2>1, ResumeIs DEF Owners
  <2>4. \A u \in All : stepped[u] = None
    BY <2>1, SteppedStepping
  <2>5. \A u \in All : u # t => stepped'[u] = None
    BY <1>1, <2>2, <2>4 DEF Others
  <2>6. StepOf(t)'
    <3>1. CASE stepped'[t] = None
      BY <3>1 DEF StepOf
    <3>2. CASE stepped'[t] # None
      <4>1. /\ thr[t].at = "sleep" /\ thr[t].ctx = c /\ stepped'[t] = 0
            /\ mem[Phys(epc)] = "own" /\ ~(skip /\ Inst(epc).link)
        BY <1>1, <2>2, <3>2 DEF Others
      <4>2. t # Parse /\ t \in Thread
        BY <1>1, <1>3, <4>1 DEF Named, All
      <4>3. Covers(epc)'
        BY <1>1, <2>1, <4>1, StepCovers
      <4>4. Covers(ctx[thr[t].ctx].epc)'
        <5>1. ctx'[thr'[t].ctx].epc = epc
          BY <1>3, <2>1, <2>3, <4>1
        <5>2. QED BY <2>1, <2>3, <4>1, <4>3, <5>1 DEF Covers, Covered, GoesTo
      <4>5. thr[t].wake \in Nat
        BY <1>1 DEF Owners, ThrRec, DebuggerAssumption
      <4>6. QED BY <2>3, <4>1, <4>2, <4>4, <4>5 DEF StepOf, Begins
    <3>3. QED BY <3>1, <3>2
  <2>7. ASSUME NEW u \in All PROVE StepOf(u)'
    BY <2>5, <2>6 DEF StepOf
  <2>8. QED BY <2>7
<1>4. ASSUME exresume_cmd, NEW c \in Context, c = g_currex, NEW t \in All, t = ctx[c].thid
      PROVE  \A u \in All : StepOf(u)'
  <2>1. /\ exceptionResume(c) /\ UNCHANGED g_stepbp
        /\ \A d \in Context : d # c => ctx'[d] = ctx[d]
        /\ stepped' = [stepped EXCEPT ![t] = None]
    BY <1>1, <1>4 DEF exresume_cmd, Owners
  <2>2. ctx' \in [Context -> CtxRec] /\ \A d \in Context : ctx'[d].valid = ctx[d].valid
    BY <1>1, <1>4 DEF exresume_cmd, Owners, CtxRec
  <2>3. stepped'[t] = None /\ \A u \in All : u # t => stepped'[u] = stepped[u]
    BY <1>1, <2>1 DEF Others
  <2>4. StepOf(t)'
    BY <2>3 DEF StepOf
  <2>5. ASSUME NEW u \in All, u # t PROVE StepOf(u)'
    <3>1. /\ thr'[u].at = thr[u].at /\ thr'[u].pc = thr[u].pc /\ thr'[u].ctx = thr[u].ctx
          /\ thr'[u].wake = thr[u].wake
      BY <1>1, <1>4, <2>1, <2>2, <2>5, ResumeIs DEF Owners
    <3>2. thr[u].at \in {"sleep", "woken"} => thr[u].ctx # c /\ thr[u].ctx \in Context
      BY <1>1, <1>4, <2>5 DEF Named, Stopped
    <3>3. thr[u].at \in {"sleep", "woken"} => ctx'[thr[u].ctx].epc = ctx[thr[u].ctx].epc
      BY <2>1, <3>2
    <3>4. QED BY <1>1, <2>1, <2>3, <2>5, <3>1, <3>3, StepOfKept
  <2>6. QED BY <2>4, <2>5
<1>5. ASSUME UNCHANGED <<g_stepbp, ctx, thr, stepped>>
      PROVE  \A u \in All : StepOf(u)'
  BY <1>1, <1>5, StepOfKept
<1>6. CASE \E a \in Addr : debugSetBP(a)
  BY <1>5, <1>6 DEF debugSetBP
<1>7. CASE \E d \in Context : exceptionSetCtx(d)
  BY <1>5, <1>7 DEF exceptionSetCtx
<1>8. CASE UNCHANGED vars
  BY <1>5, <1>8 DEF vars
<1>9. CASE (\E skip \in BOOLEAN : debugStep(skip)) \/ exresume_cmd
  <2>1. /\ g_currex \in Context /\ ctx[g_currex].thid \in All /\ ctx[g_currex].epc \in Addr
    BY <1>1, <1>9 DEF debugStep, exresume_cmd, Others, Owners, CtxRec
  <2>2. QED BY <1>3, <1>4, <1>9, <2>1
<1>10. QED BY <1>2, <1>6, <1>7, <1>8, <1>9 DEF Next

\* A program starts with no step under way.
LEMMA InitS ==
  ASSUME DebuggerAssumption, Init
  PROVE  SInv
BY DEF Init, SInv, StepOf

\* Every resume the user gives is used up by the thread it was meant for, while
\* it still sleeps in the trap it was given for (exceptionResume, psplinkTrap):
\* none is left to let a later trap run through.
THEOREM NoResumeIsLeftOver ==
  ASSUME DebuggerAssumption
  PROVE  Spec => []NoStrayWakeup
<1>1. Init => CInv /\ UInv
  BY InitC, InitU
<1>2. CInv /\ UInv /\ [Next]_vars => CInv' /\ UInv'
  BY NextC, NextU
<1>3. UInv => NoStrayWakeup
  BY DEF UInv, Waked, NoStrayWakeup
<1>4. QED BY <1>1, <1>2, <1>3, PTL DEF Spec

\* A stepped thread of an orderly user runs one instruction and then stands at a
\* break instruction: it never runs on, wherever the branch goes and whatever
\* other threads do meanwhile (step_generic, debugHandleException).
THEOREM StepsStop ==
  ASSUME DebuggerAssumption, Orderly
  PROVE  Spec => []StepStops
<1>1. Init => CInv /\ MInv /\ UInv /\ SInv
  BY InitC, InitM, InitU, InitS
<1>2. CInv /\ MInv /\ UInv /\ SInv /\ [Next]_vars => CInv' /\ MInv' /\ UInv' /\ SInv'
  BY NextC, NextM, NextU, NextS
<1>3. SInv => StepStops
  BY DEF SInv, StepOf, StepStops
<1>4. QED BY <1>1, <1>2, <1>3, PTL DEF Spec
-----------------------------------------------------------------------------
(* The gdb stub: GdbStub. *)

\* The types the argument needs.
GdbMemory == words \in [Stub!Word -> {"own", "brk"}] /\ wrote \subseteq Stub!Word
StepSlots ==
  /\ gstepbp \in [{0, 1} -> [addr : Stub!Word, oldinst : {"own", "brk"}, active : BOOLEAN]]
  /\ server = "packets" => ~gstepbp[0].active /\ ~gstepbp[1].active
GdbThreads == gthr \in [Thread -> [at : {"none", "run", "wait"}, pc : Stub!Word, val : Value]]
GdbContext ==
  /\ context \in [thid : Thread \cup {Stub!None}, pc : Stub!Word, val : Value]
  /\ told \in [thid : Thread \cup {Stub!None}, val : Value]
GdbServer ==
  /\ started \in BOOLEAN /\ firstrun \in BOOLEAN
  /\ evid \subseteq {"EXP", "CONTINUE"} /\ server \in {"handle", "packets", "wait"}

\* With the steps taken out, slot 0 first, memory is what gdb has made it.
Undone(w) ==
  IF gstepbp[1].active /\ gstepbp[1].addr = w THEN gstepbp[1].oldinst
  ELSE IF gstepbp[0].active /\ gstepbp[0].addr = w THEN gstepbp[0].oldinst
  ELSE words[w]
GdbMade == \A w \in Stub!Word : Undone(w) = IF w \in wrote THEN "brk" ELSE "own"

\* The debug registers are what the stub keeps of them.
HardwareNoted == env = [iba |-> iaddr, dba |-> daddr]

StubInv ==
  GdbMemory /\ StepSlots /\ GdbThreads /\ GdbContext /\ GdbServer /\ GdbMade /\ HardwareNoted

\* Thread and stub take turns, where one thread traps: it runs while the stub
\* waits and nothing is signalled; it waits with a trap signalled, then while
\* the stub works, then with a continue signalled and the registers gdb saw.
ThreadTurn(t) ==
  /\ gthr[t].at = "none" <=> ~started
  /\ gthr[t].at = "run" => server = "wait" /\ evid = {}
  /\ evid # {} => server = "wait" /\ gthr[t].at = "wait"
  /\ "CONTINUE" \in evid => evid = {"CONTINUE"} /\ context.val = told.val
  /\ server # "wait" /\ ~firstrun => gthr[t].at = "wait"
  /\ server = "packets" /\ started => context.val = told.val
Turns == \A t \in Thread : ThreadTurn(t)

\* The registers a thread or gdb takes are of these types, as is every step's place.
LEMMA GdbPlaces ==
  ASSUME NEW w \in Stub!Word, NEW k \in Nat
  PROVE  Stub!After(w, k) \in Stub!Word
BY DebuggingAssumption DEF Stub!After, Stub!Word, Stub!StubAssumption

\* The program is loaded and not started.
LEMMA StubStart == Stub!Init => StubInv /\ Turns
<1> SUFFICES ASSUME Stub!Init PROVE StubInv /\ Turns
  OBVIOUS
<1> USE DEF Stub!Init
<1>1. (CHOOSE v \in Value : TRUE) \in Value /\ 0 \in Stub!Word
  BY DebuggingAssumption DEF Stub!StubAssumption, Stub!Word
<1>2. GdbMemory /\ StepSlots /\ GdbMade
  BY <1>1 DEF GdbMemory, StepSlots, GdbMade, Undone, Stub!NoStep
<1>3. GdbThreads /\ GdbContext /\ GdbServer /\ HardwareNoted
  BY <1>1 DEF GdbThreads, GdbContext, GdbServer, HardwareNoted
<1>4. Turns
  BY DEF Turns, ThreadTurn
<1>5. QED BY <1>2, <1>3, <1>4 DEF StubInv

\* Memory, breaks and slots are as they were.
LEMMA MemoryStays ==
  ASSUME StubInv, UNCHANGED <<words, gstepbp, wrote>>, server' = "packets" => server = "packets"
  PROVE  GdbMemory' /\ StepSlots' /\ GdbMade'
BY DEF StubInv, GdbMemory, StepSlots, GdbMade, Undone

\* So are the debug registers.
LEMMA HardwareStays ==
  ASSUME StubInv, UNCHANGED Stub!hw
  PROVE  HardwareNoted' /\ Stub!HardwareKept
BY DEF StubInv, HardwareNoted, Stub!hw, Stub!HardwareKept

\* GdbTrapEntry hands over the registers of a thread.
LEMMA TrapTyped ==
  ASSUME StubInv, NEW t \in Thread, Stub!GdbTrapEntry(t), UNCHANGED <<started, firstrun, server, told>>
  PROVE  GdbThreads' /\ GdbContext' /\ GdbServer'
<1>1. gthr[t].pc \in Stub!Word /\ gthr[t].val \in Value
  BY DEF StubInv, GdbThreads
<1>2. GdbContext' /\ GdbServer'
  BY <1>1 DEF StubInv, GdbContext, GdbServer, Stub!GdbTrapEntry
<1>3. GdbThreads'
  BY DEF StubInv, GdbThreads, Stub!GdbTrapEntry
<1>4. QED BY <1>2, <1>3

\* A thread runs an instruction, traps, or goes on.
LEMMA ThreadTyped ==
  ASSUME StubInv, NEW t \in Thread, Stub!Execute(t) \/ Stub!Fault(t) \/ Stub!Resume(t)
  PROVE  GdbThreads' /\ GdbContext' /\ GdbServer' /\ UNCHANGED <<words, gstepbp, wrote, server, Stub!hw>>
<1>1. CASE Stub!Execute(t)
  <2>1. UNCHANGED <<started, firstrun, server, told, words, gstepbp, wrote, Stub!hw>>
    BY <1>1 DEF Stub!Execute
  <2>2. CASE Stub!GdbTrapEntry(t)
    BY <2>1, <2>2, TrapTyped
  <2>3. CASE ~Stub!GdbTrapEntry(t)
    <3> DEFINE pc == gthr[t].pc
               i == GdbCode[pc]
               places == (IF i.branch THEN {i.to} ELSE {Stub!After(pc, 1)})
                           \cup (IF i.cond THEN {Stub!After(pc, 2)} ELSE {})
    <3>1. PICK next \in places : gthr' = [gthr EXCEPT ![t].pc = next]
      BY <1>1, <2>3 DEF Stub!Execute
    <3>2. UNCHANGED <<context, evid>>
      BY <1>1, <2>3 DEF Stub!Execute
    <3>3. pc \in Stub!Word
      BY DEF StubInv, GdbThreads
    <3>4. next \in Stub!Word
      <4>1. i.to \in Stub!Word
        BY <3>3, DebuggingAssumption DEF Stub!StubAssumption
      <4>2. Stub!After(pc, 1) \in Stub!Word /\ Stub!After(pc, 2) \in Stub!Word
        BY <3>3, GdbPlaces
      <4> HIDE DEF i, pc
      <4>3. QED BY <3>1, <4>1, <4>2
    <3> HIDE DEF pc, i, places
    <3>5. GdbThreads'
      BY <3>1, <3>4 DEF StubInv, GdbThreads
    <3>6. QED BY <2>1, <3>2, <3>5 DEF StubInv, GdbContext, GdbServer
  <2>4. QED BY <2>2, <2>3
<1>2. CASE Stub!Fault(t)
  BY <1>2, TrapTyped DEF Stub!Fault
<1>3. CASE Stub!Resume(t)
  <2>1. context.pc \in Stub!Word /\ context.val \in Value
    BY DEF StubInv, GdbContext
  <2>2. GdbThreads'
    BY <1>3, <2>1 DEF StubInv, GdbThreads, Stub!Resume, Stub!TakeBack
  <2>3. QED BY <1>3, <2>2 DEF StubInv, GdbContext, GdbServer, Stub!Resume
<1>4. QED BY <1>1, <1>2, <1>3

\* GdbHandleException takes the steps out, slot 0 first.
LEMMA HandleMemory ==
  ASSUME StubInv, Stub!GdbHandleException
  PROVE  GdbMemory' /\ StepSlots' /\ GdbMade'
<1>1. ASSUME NEW w \in Stub!Word PROVE words'[w] = Undone(w)
  BY <1>1 DEF Stub!GdbHandleException, Stub!Unstepped, Undone
<1>2. words' = [w \in Stub!Word |-> Undone(w)]
  BY <1>1 DEF Stub!GdbHandleException, Stub!Unstepped
<1>3. GdbMemory'
  <2>1. \A w \in Stub!Word : Undone(w) \in {"own", "brk"}
    BY DEF StubInv, GdbMade
  <2>2. QED BY <1>2, <2>1 DEF StubInv, GdbMemory, Stub!GdbHandleException
<1>4. gstepbp' = [s \in {0, 1} |-> Stub!NoStep]
  BY DEF Stub!GdbHandleException, Stub!Unstepped
<1>5. StepSlots'
  BY <1>4, DebuggingAssumption DEF StepSlots, Stub!NoStep, Stub!Word, Stub!StubAssumption
<1>6. GdbMade'
  <2> SUFFICES ASSUME NEW w \in Stub!Word
               PROVE  Undone(w)' = IF w \in wrote THEN "brk" ELSE "own"
    BY DEF GdbMade, Stub!GdbHandleException
  <2>1. Undone(w)' = words'[w]
    BY <1>4 DEF Undone, Stub!NoStep
  <2>2. QED BY <1>2, <2>1 DEF StubInv, GdbMade
<1>7. QED BY <1>3, <1>5, <1>6

\* Where a step goes.
PlacesOf(pc) == IF words[pc] = "brk" THEN [s \in {0, 1} |-> IF s = 0 THEN Stub!After(pc, 1) ELSE Stub!None]
                ELSE Stub!StepPlaces(pc)

\* It goes to one place, or to two that differ.
LEMMA PlacesDiffer ==
  ASSUME NEW pc \in Stub!Word
  PROVE  /\ DOMAIN PlacesOf(pc) = {0, 1}
         /\ PlacesOf(pc)[0] \in Stub!Word /\ PlacesOf(pc)[0] # Stub!None
         /\ PlacesOf(pc)[1] \in Stub!Word \cup {Stub!None} /\ PlacesOf(pc)[0] # PlacesOf(pc)[1]
<1>1. /\ GdbCode[pc].to \in Stub!Word /\ (GdbCode[pc].cond => GdbCode[pc].branch)
      /\ Stub!None \notin Stub!Word
  BY DebuggingAssumption DEF Stub!StubAssumption, Stub!None, Stub!Word
<1>2. Stub!After(pc, 1) \in Stub!Word /\ Stub!After(pc, 2) \in Stub!Word
  BY GdbPlaces
<1>3. CASE words[pc] = "brk"
  BY <1>1, <1>2, <1>3 DEF PlacesOf
<1>4. CASE words[pc] # "brk"
  <2>1. /\ DOMAIN PlacesOf(pc) = {0, 1}
        /\ PlacesOf(pc)[0] = IF GdbCode[pc].branch THEN GdbCode[pc].to ELSE Stub!After(pc, 1)
        /\ PlacesOf(pc)[1] = IF GdbCode[pc].cond /\ GdbCode[pc].to # Stub!After(pc, 2)
                             THEN Stub!After(pc, 2) ELSE Stub!None
    BY <1>4 DEF PlacesOf, Stub!StepPlaces
  <2>2. QED BY <1>1, <1>2, <2>1
<1>5. QED BY <1>3, <1>4

\* s plants its breaks and keeps what is under them.
LEMMA StepMemory ==
  ASSUME StubInv, NEW addr \in Stub!Word \cup {Stub!None}, Stub!Step(addr)
  PROVE  GdbMemory' /\ StepSlots' /\ GdbMade' /\ context'.pc \in Stub!Word
<1> DEFINE pc == IF addr = Stub!None THEN context.pc ELSE addr
           at == PlacesOf(pc)
<1>1. pc \in Stub!Word
  BY DEF StubInv, GdbContext
<1>2. /\ words' = [w \in Stub!Word |-> IF w \in {at[0], at[1]} THEN "brk" ELSE words[w]]
      /\ gstepbp' = [s \in {0, 1} |->
                       IF at[s] = Stub!None THEN Stub!NoStep
                       ELSE [addr |-> at[s], active |-> TRUE,
                             oldinst |-> IF s = 1 /\ at[1] = at[0] THEN "brk" ELSE words[at[s]]]]
      /\ context' = [context EXCEPT !.pc = pc]
      /\ server = "packets" /\ server' = "wait" /\ UNCHANGED wrote
  BY DEF Stub!Step, Stub!Restart, PlacesOf
<1>3. /\ at[0] \in Stub!Word /\ at[0] # Stub!None
      /\ at[1] \in Stub!Word \cup {Stub!None} /\ at[0] # at[1]
  BY <1>1, PlacesDiffer
<1>4. context'.pc \in Stub!Word
  BY <1>1, <1>2 DEF StubInv, GdbContext
<1> HIDE DEF at, pc
<1>5. GdbMemory'
  BY <1>2 DEF StubInv, GdbMemory
<1>6. /\ gstepbp'[0] = [addr |-> at[0], active |-> TRUE, oldinst |-> words[at[0]]]
      /\ gstepbp'[1] = IF at[1] = Stub!None THEN Stub!NoStep
                       ELSE [addr |-> at[1], active |-> TRUE, oldinst |-> words[at[1]]]
      /\ gstepbp' = [s \in {0, 1} |-> gstepbp'[s]]
  BY <1>2, <1>3
<1>7. StepSlots'
  <2>1. Stub!NoStep \in [addr : Stub!Word, oldinst : {"own", "brk"}, active : BOOLEAN]
    BY DebuggingAssumption DEF Stub!NoStep, Stub!Word, Stub!StubAssumption
  <2>2. \A w \in Stub!Word : words[w] \in {"own", "brk"}
    BY DEF StubInv, GdbMemory
  <2>3. gstepbp'[0] \in [addr : Stub!Word, oldinst : {"own", "brk"}, active : BOOLEAN]
    BY <1>3, <1>6, <2>2
  <2>4. gstepbp'[1] \in [addr : Stub!Word, oldinst : {"own", "brk"}, active : BOOLEAN]
    <3>1. CASE at[1] = Stub!None
      BY <1>6, <2>1, <3>1
    <3>2. CASE at[1] # Stub!None
      BY <1>3, <1>6, <2>2, <3>2
    <3>3. QED BY <3>1, <3>2
  <2>5. QED BY <1>2, <1>6, <2>3, <2>4 DEF StepSlots
<1>8. GdbMade'
  <2> SUFFICES ASSUME NEW w \in Stub!Word
               PROVE  Undone(w)' = IF w \in wrote THEN "brk" ELSE "own"
    BY <1>2 DEF GdbMade
  <2>1. words[w] = IF w \in wrote THEN "brk" ELSE "own"
    BY <1>2 DEF StubInv, GdbMade, Undone, StepSlots
  <2>2. Undone(w)' = words[w]
    <3>1. words'[w] = IF w \in {at[0], at[1]} THEN "brk" ELSE words[w]
      BY <1>2
    <3>2. CASE w = at[1]
      <4>1. at[1] # Stub!None
        BY <3>2, DebuggingAssumption DEF Stub!None, Stub!Word, Stub!StubAssumption
      <4>2. gstepbp'[1] = [addr |-> w, active |-> TRUE, oldinst |-> words[w]]
        BY <1>6, <3>2, <4>1
      <4>3. QED BY <4>2 DEF Undone
    <3>3. CASE w = at[0]
      <4>1. ~(gstepbp'[1].active /\ gstepbp'[1].addr = w)
        <5>1. CASE at[1] = Stub!None
          BY <1>6, <5>1 DEF Stub!NoStep
        <5>2. CASE at[1] # Stub!None
          BY <1>3, <1>6, <5>2, <3>3
        <5>3. QED BY <5>1, <5>2
      <4>2. gstepbp'[0].active /\ gstepbp'[0].addr = w /\ gstepbp'[0].oldinst = words[w]
        BY <1>6, <3>3
      <4>3. QED BY <4>1, <4>2 DEF Undone
    <3>4. CASE w # at[0] /\ w # at[1]
      <4>1. ~(gstepbp'[1].active /\ gstepbp'[1].addr = w)
        <5>1. CASE at[1] = Stub!None
          BY <1>6, <5>1 DEF Stub!NoStep
        <5>2. CASE at[1] # Stub!None
          BY <1>6, <5>2, <3>4
        <5>3. QED BY <5>1, <5>2
      <4>2. ~(gstepbp'[0].active /\ gstepbp'[0].addr = w)
        BY <1>6, <3>4
      <4>3. QED BY <3>1, <3>4, <4>1, <4>2 DEF Undone
    <3>5. QED BY <3>2, <3>3, <3>4
  <2>3. QED BY <2>1, <2>2
<1>9. QED BY <1>4, <1>5, <1>7, <1>8

\* Commands of gdb that touch no memory.
LEMMA CommandTyped ==
  ASSUME StubInv,
         NEW addr \in Stub!Word \cup {Stub!None}, NEW v \in Value,
         Stub!WriteRegisters(v) \/ Stub!Continue(addr) \/ Stub!Detach \/ Stub!Reconnect \/ Stub!Wait
  PROVE  /\ GdbThreads' /\ GdbContext' /\ GdbServer'
         /\ UNCHANGED <<words, gstepbp, wrote, Stub!hw>>
         /\ server' = "packets" => server = "packets"
<1>1. CASE Stub!WriteRegisters(v)
  BY <1>1 DEF Stub!WriteRegisters, StubInv, GdbThreads, GdbContext, GdbServer
<1>2. CASE Stub!Continue(addr)
  <2>1. /\ UNCHANGED <<words, gstepbp, wrote, Stub!hw>>
        /\ evid' = (IF firstrun THEN evid ELSE evid \cup {"CONTINUE"})
        /\ firstrun' = FALSE /\ server' = "wait"
        /\ told' = [told EXCEPT !.thid = Stub!None]
    BY <1>2 DEF Stub!Continue, Stub!Restart, Stub!Continued
  <2>2. CASE started
    BY <1>2, <2>1, <2>2 DEF Stub!Continue, StubInv, GdbThreads, GdbContext, GdbServer
  <2>3. CASE ~started
    <3>1. gthr' = [t \in Thread |-> [gthr[t] EXCEPT !.at = "run"]] /\ started' = TRUE
          /\ UNCHANGED context
      BY <1>2, <2>3 DEF Stub!Continue
    <3>2. GdbThreads'
      BY <3>1 DEF StubInv, GdbThreads
    <3>3. QED BY <2>1, <3>1, <3>2 DEF StubInv, GdbContext, GdbServer
  <2>4. QED BY <2>2, <2>3
<1>3. CASE Stub!Detach
  BY <1>3 DEF Stub!Detach, Stub!Restart, Stub!Continued, StubInv, GdbThreads, GdbContext, GdbServer
<1>4. CASE Stub!Reconnect
  BY <1>4 DEF Stub!Reconnect, StubInv, GdbThreads, GdbContext, GdbServer
<1>5. CASE Stub!Wait
  BY <1>5 DEF Stub!Wait, StubInv, GdbThreads, GdbContext, GdbServer
<1>6. QED BY <1>1, <1>2, <1>3, <1>4, <1>5
\* gdb writes a word, or sets the debug registers.
LEMMA WriteKept ==
  ASSUME StubInv, NEW w \in Stub!Word, Stub!WriteMemory(w)
  PROVE  StubInv' /\ Stub!HardwareKept
<1>1. /\ words' = [words EXCEPT ![w] = IF @ = "own" THEN "brk" ELSE "own"]
      /\ wrote' = (IF words[w] = "own" THEN wrote \cup {w} ELSE wrote \ {w})
      /\ server = "packets"
      /\ UNCHANGED <<gthr, context, started, evid, gstepbp, server, firstrun, told, Stub!hw>>
  BY DEF Stub!WriteMemory
<1>2. GdbMemory' /\ StepSlots' /\ GdbThreads' /\ GdbContext' /\ GdbServer'
  BY <1>1 DEF StubInv, GdbMemory, StepSlots, GdbThreads, GdbContext, GdbServer
<1>3. GdbMade'
  <2> SUFFICES ASSUME NEW x \in Stub!Word
               PROVE  Undone(x)' = IF x \in wrote' THEN "brk" ELSE "own"
    BY DEF GdbMade
  <2>1. Undone(x) = words[x] /\ Undone(x)' = words'[x]
    BY <1>1 DEF StubInv, StepSlots, Undone
  <2>2. words[x] = IF x \in wrote THEN "brk" ELSE "own"
    BY <2>1 DEF StubInv, GdbMade
  <2>3. words'[x] = IF x \in wrote' THEN "brk" ELSE "own"
    BY <1>1, <2>2 DEF StubInv, GdbMemory
  <2>4. QED BY <2>1, <2>3
<1>4. HardwareNoted' /\ Stub!HardwareKept
  BY <1>1, HardwareStays
<1>5. QED BY <1>2, <1>3, <1>4 DEF StubInv

\* handle_hwbp changes one debug register, and sets it only when it is free.
LEMMA HardwareStep ==
  ASSUME StubInv, NEW a \in HwAddr, NEW set \in BOOLEAN, NEW data \in BOOLEAN,
         Stub!handle_hwbp(a, set, data)
  PROVE  StubInv' /\ Stub!HardwareKept
<1>1. UNCHANGED Stub!core
  BY DEF Stub!handle_hwbp
<1>2. GdbMemory' /\ StepSlots' /\ GdbThreads' /\ GdbContext' /\ GdbServer' /\ GdbMade'
  BY <1>1 DEF Stub!core, StubInv, GdbMemory, StepSlots, GdbThreads, GdbContext, GdbServer, GdbMade, Undone
<1>3. HardwareNoted' /\ Stub!HardwareKept
  <2>1. CASE data
    BY <2>1 DEF StubInv, HardwareNoted, Stub!handle_hwbp, Stub!SetHw, Stub!HardwareKept
  <2>2. CASE ~data
    BY <2>2 DEF StubInv, HardwareNoted, Stub!handle_hwbp, Stub!SetHw, Stub!HardwareKept
  <2>3. QED BY <2>1, <2>2
<1>4. QED BY <1>2, <1>3 DEF StubInv

\* A step keeps what memory holds and what the debug registers hold.
LEMMA StubKept ==
  ASSUME StubInv, [Stub!Next]_stubVars
  PROVE  StubInv' /\ (Stub!HardwareKept \/ UNCHANGED stubVars)
<1>1. ASSUME NEW t \in Thread, Stub!Execute(t) \/ Stub!Fault(t) \/ Stub!Resume(t)
      PROVE  StubInv' /\ Stub!HardwareKept
  BY <1>1, ThreadTyped, MemoryStays, HardwareStays DEF StubInv
<1>2. CASE Stub!GdbHandleException
  <2>1. UNCHANGED <<gthr, context, started, evid, firstrun, Stub!hw>>
    BY <1>2 DEF Stub!GdbHandleException
  <2>2. GdbThreads' /\ GdbContext' /\ GdbServer'
    BY <1>2, <2>1 DEF StubInv, GdbThreads, GdbContext, GdbServer, Stub!GdbHandleException
  <2>3. QED BY <1>2, <2>1, <2>2, HandleMemory, HardwareStays DEF StubInv
<1>3. ASSUME NEW addr \in Stub!Word \cup {Stub!None}, NEW v \in Value,
             \/ Stub!WriteRegisters(v) \/ Stub!Continue(addr)
             \/ Stub!Detach \/ Stub!Reconnect \/ Stub!Wait
      PROVE  StubInv' /\ Stub!HardwareKept
  BY <1>3, CommandTyped, MemoryStays, HardwareStays DEF StubInv
<1>4. ASSUME NEW addr \in Stub!Word \cup {Stub!None}, Stub!Step(addr)
      PROVE  StubInv' /\ Stub!HardwareKept
  <2>1. GdbMemory' /\ StepSlots' /\ GdbMade' /\ context'.pc \in Stub!Word
    BY <1>4, StepMemory
  <2>2. /\ \E pc : context' = [context EXCEPT !.pc = pc]
        /\ UNCHANGED <<gthr, started, Stub!hw>>
        /\ evid' = (IF firstrun THEN evid ELSE evid \cup {"CONTINUE"})
        /\ firstrun' = FALSE /\ server' = "wait"
        /\ told' = [told EXCEPT !.thid = Stub!None]
    BY <1>4 DEF Stub!Step, Stub!Restart, Stub!Continued
  <2>3. GdbContext'
    <3>1. told' \in [thid : Thread \cup {Stub!None}, val : Value]
      BY <2>2 DEF StubInv, GdbContext
    <3>2. context' \in [thid : Thread \cup {Stub!None}, pc : Stub!Word, val : Value]
      BY <2>1, <2>2 DEF StubInv, GdbContext
    <3>3. QED BY <3>1, <3>2 DEF GdbContext
  <2>4. GdbThreads' /\ GdbServer'
    BY <2>2 DEF StubInv, GdbThreads, GdbServer
  <2>5. QED BY <2>1, <2>2, <2>3, <2>4, HardwareStays DEF StubInv
<1>5. CASE UNCHANGED stubVars
  BY <1>5, MemoryStays, HardwareStays
     DEF stubVars, Stub!hw, StubInv, GdbThreads, GdbContext, GdbServer
<1>6. Stub!None \in Stub!Word \cup {Stub!None} /\ (CHOOSE v \in Value : TRUE) \in Value
  BY DebuggingAssumption DEF Stub!StubAssumption
<1>7. QED
  BY <1>1, <1>2, <1>3, <1>4, <1>5, <1>6, WriteKept, HardwareStep DEF Stub!Next, Stub!Command
\* The one thread runs, traps or goes on.
LEMMA ThreadTurns ==
  ASSUME StubInv, Turns, NEW t \in Thread, Thread = {t},
         Stub!Execute(t) \/ Stub!Fault(t) \/ Stub!Resume(t)
  PROVE  Turns' /\ Stub!GetsItsRegisters
<1>1. ThreadTurn(t) /\ gthr \in [Thread -> [at : {"none", "run", "wait"}, pc : Stub!Word, val : Value]]
  BY DEF Turns, StubInv, GdbThreads
<1>2. ASSUME gthr[t].at = "run", Stub!GdbTrapEntry(t), UNCHANGED <<started, server, firstrun, told>>
      PROVE  Turns' /\ Stub!GetsItsRegisters
  <2>1. gthr'[t].at = "wait" /\ evid' = {"EXP"} /\ server' = "wait" /\ started' = TRUE
    BY <1>1, <1>2 DEF Stub!GdbTrapEntry, ThreadTurn, StubInv, GdbServer
  <2>2. QED BY <1>2, <2>1 DEF Turns, ThreadTurn, Stub!GetsItsRegisters
<1>3. CASE Stub!Execute(t)
  <2>1. gthr[t].at = "run" /\ UNCHANGED <<started, server, firstrun, told>>
    BY <1>3 DEF Stub!Execute
  <2>2. CASE ~Stub!GdbTrapEntry(t)
    <3>1. (\E next : gthr' = [gthr EXCEPT ![t].pc = next]) /\ UNCHANGED <<context, evid>>
      BY <1>3, <2>2 DEF Stub!Execute
    <3>2. gthr'[t].at = "run"
      BY <1>1, <2>1, <3>1
    <3>3. QED BY <1>1, <2>1, <3>1, <3>2 DEF Turns, ThreadTurn, Stub!GetsItsRegisters
  <2>3. QED BY <1>2, <2>1, <2>2
<1>4. CASE Stub!Fault(t)
  BY <1>2, <1>4 DEF Stub!Fault
<1>5. CASE Stub!Resume(t)
  <2>1. /\ gthr[t].at = "wait" /\ "CONTINUE" \in evid /\ evid' = evid \ {"CONTINUE"}
        /\ gthr' = [gthr EXCEPT ![t] = [at |-> "run", pc |-> context.pc, val |-> context.val]]
        /\ UNCHANGED <<context, started, server, firstrun, told>>
    BY <1>5 DEF Stub!Resume, Stub!TakeBack
  <2>2. gthr'[t].at = "run" /\ gthr'[t].val = context.val /\ evid' = {}
    BY <1>1, <2>1 DEF ThreadTurn
  <2>3. context.val = told.val /\ server = "wait" /\ started
    BY <1>1, <2>1 DEF ThreadTurn, StubInv, GdbServer
  <2>4. QED BY <2>1, <2>2, <2>3 DEF Turns, ThreadTurn, Stub!GetsItsRegisters
<1>6. QED BY <1>3, <1>4, <1>5

\* gdb lets the program go on: a thread that waits is told so, but by the first
\* resuming command of a connection.
LEMMA RestartTurns ==
  ASSUME StubInv, Turns, NEW t \in Thread, Thread = {t}, server = "packets", Stub!Restart,
         UNCHANGED <<gthr, started>>, context'.val = context.val
  PROVE  Turns' /\ Stub!GetsItsRegisters
<1>1. /\ evid' = (IF firstrun THEN evid ELSE evid \cup {"CONTINUE"})
      /\ firstrun' = FALSE /\ server' = "wait" /\ told' = [told EXCEPT !.thid = Stub!None]
  BY DEF Stub!Restart, Stub!Continued
<1>2. ThreadTurn(t) /\ evid = {} /\ gthr[t].at # "run"
  BY DEF Turns, ThreadTurn
<1>3. told'.val = told.val
  BY <1>1 DEF StubInv, GdbContext
<1>4. CASE firstrun
  BY <1>1, <1>2, <1>4 DEF Turns, ThreadTurn, Stub!GetsItsRegisters
<1>5. CASE ~firstrun
  <2>1. gthr[t].at = "wait" /\ started /\ context.val = told.val
    BY <1>2, <1>5 DEF ThreadTurn, StubInv, GdbServer
  <2>2. QED BY <1>1, <1>2, <1>3, <1>5, <2>1 DEF Turns, ThreadTurn, Stub!GetsItsRegisters
<1>6. QED BY <1>4, <1>5

\* The stub's steps.
LEMMA ServerTurns ==
  ASSUME StubInv, Turns, NEW t \in Thread, Thread = {t},
         NEW addr \in Stub!Word \cup {Stub!None}, NEW v \in Value, NEW w \in Stub!Word,
         \/ Stub!GdbHandleException \/ Stub!Wait \/ Stub!WriteRegisters(v) \/ Stub!WriteMemory(w)
         \/ Stub!Continue(addr) \/ Stub!Step(addr) \/ Stub!Detach \/ Stub!Reconnect
  PROVE  Turns' /\ Stub!GetsItsRegisters
<1>1. /\ ThreadTurn(t)
      /\ gthr \in [Thread -> [at : {"none", "run", "wait"}, pc : Stub!Word, val : Value]]
      /\ context \in [thid : Thread \cup {Stub!None}, pc : Stub!Word, val : Value]
      /\ told \in [thid : Thread \cup {Stub!None}, val : Value]
      /\ started \in BOOLEAN
  BY DEF Turns, StubInv, GdbThreads, GdbContext, GdbServer
<1>2. CASE Stub!GdbHandleException
  BY <1>1, <1>2 DEF Stub!GdbHandleException, Turns, ThreadTurn, Stub!GetsItsRegisters
<1>3. CASE Stub!Wait
  <2>1. evid' = evid \ {"EXP"} /\ "EXP" \in evid /\ server' = "handle"
        /\ UNCHANGED <<gthr, context, started, firstrun, told>>
    BY <1>3 DEF Stub!Wait
  <2>2. gthr[t].at = "wait" /\ evid' = {} /\ started
    BY <1>1, <2>1 DEF ThreadTurn, StubInv, GdbServer
  <2>3. QED BY <2>1, <2>2 DEF Turns, ThreadTurn, Stub!GetsItsRegisters
<1>4. CASE Stub!WriteRegisters(v)
  <2>1. context'.val = v /\ told'.val = v
    BY <1>1, <1>4 DEF Stub!WriteRegisters
  <2>2. QED BY <1>1, <1>4, <2>1 DEF Stub!WriteRegisters, Turns, ThreadTurn, Stub!GetsItsRegisters
<1>5. CASE Stub!WriteMemory(w)
  BY <1>1, <1>5 DEF Stub!WriteMemory, Turns, ThreadTurn, Stub!GetsItsRegisters
<1>6. CASE Stub!Continue(addr)
  <2>1. CASE started
    <3>1. server = "packets" /\ Stub!Restart /\ UNCHANGED <<gthr, started>>
          /\ context' = IF addr = Stub!None THEN context ELSE [context EXCEPT !.pc = addr]
      BY <1>6, <2>1 DEF Stub!Continue
    <3>2. context'.val = context.val
      BY <1>1, <3>1
    <3>3. QED BY <3>1, <3>2, RestartTurns
  <2>2. CASE ~started
    <3>1. /\ started' = TRUE /\ server = "packets" /\ server' = "wait" /\ firstrun' = FALSE
          /\ evid' = IF firstrun THEN evid ELSE evid \cup {"CONTINUE"}
          /\ gthr' = [u \in Thread |-> [gthr[u] EXCEPT !.at = "run"]]
      BY <1>6, <2>2 DEF Stub!Continue, Stub!Restart, Stub!Continued
    <3>2. firstrun /\ evid = {} /\ gthr[t].at = "none"
      BY <1>1, <2>2, <3>1 DEF ThreadTurn, StubInv, GdbServer
    <3>3. gthr'[t].at = "run"
      BY <1>1, <3>1
    <3>4. QED BY <3>1, <3>2, <3>3 DEF Turns, ThreadTurn, Stub!GetsItsRegisters
  <2>3. QED BY <2>1, <2>2
<1>7. CASE Stub!Step(addr)
  <2>1. server = "packets" /\ Stub!Restart /\ UNCHANGED <<gthr, started>>
        /\ \E pc : context' = [context EXCEPT !.pc = pc]
    BY <1>7 DEF Stub!Step
  <2>2. context'.val = context.val
    BY <1>1, <2>1
  <2>3. QED BY <2>1, <2>2, RestartTurns
<1>8. CASE Stub!Detach
  BY <1>8, RestartTurns DEF Stub!Detach
<1>9. CASE Stub!Reconnect
  BY <1>1, <1>9 DEF Stub!Reconnect, Turns, ThreadTurn, Stub!GetsItsRegisters
<1>10. QED BY <1>2, <1>3, <1>4, <1>5, <1>6, <1>7, <1>8, <1>9

\* Thread and stub keep taking turns.
LEMMA TurnsKept ==
  ASSUME OneTraps, StubInv, Turns, [Stub!Next]_stubVars
  PROVE  Turns' /\ (Stub!GetsItsRegisters \/ UNCHANGED stubVars)
<1>1. PICK t \in Thread : Thread = {t}
  BY DEF OneTraps
<1>2. CASE \E u \in Thread : Stub!Execute(u) \/ Stub!Fault(u) \/ Stub!Resume(u)
  BY <1>1, <1>2, ThreadTurns
<1>3. /\ Stub!None \in Stub!Word \cup {Stub!None} /\ (CHOOSE v \in Value : TRUE) \in Value
      /\ 0 \in Stub!Word
  BY DebuggingAssumption DEF Stub!StubAssumption, Stub!Word
<1>4. CASE Stub!GdbHandleException \/ Stub!Wait \/ Stub!Detach \/ Stub!Reconnect
  BY <1>1, <1>3, <1>4, ServerTurns
<1>5. ASSUME NEW v \in Value, Stub!WriteRegisters(v)
      PROVE  Turns' /\ Stub!GetsItsRegisters
  BY <1>1, <1>3, <1>5, ServerTurns
<1>6. ASSUME NEW w \in Stub!Word, Stub!WriteMemory(w)
      PROVE  Turns' /\ Stub!GetsItsRegisters
  BY <1>1, <1>3, <1>6, ServerTurns
<1>7. ASSUME NEW addr \in Stub!Word \cup {Stub!None}, Stub!Continue(addr) \/ Stub!Step(addr)
      PROVE  Turns' /\ Stub!GetsItsRegisters
  BY <1>1, <1>3, <1>7, ServerTurns
<1>8. ASSUME NEW a \in HwAddr, NEW set \in BOOLEAN, NEW data \in BOOLEAN,
             Stub!handle_hwbp(a, set, data)
      PROVE  Turns' /\ Stub!GetsItsRegisters
  BY <1>8 DEF Stub!handle_hwbp, Stub!core, Turns, ThreadTurn, Stub!GetsItsRegisters
<1>9. CASE UNCHANGED stubVars
  BY <1>9 DEF stubVars, Turns, ThreadTurn
<1>10. QED
  BY <1>2, <1>4, <1>5, <1>6, <1>7, <1>8, <1>9 DEF Stub!Next, Stub!Command

\* The parts that need no more than memory and slots.
LEMMA StubMemory ==
  ASSUME StubInv
  PROVE  Stub!TypeOK /\ Stub!MemoryAsGdbLeft
<1>1. Stub!TypeOK
  BY DEF StubInv, GdbMemory, StepSlots, GdbThreads, GdbContext, GdbServer, Stub!TypeOK
<1>2. Stub!MemoryAsGdbLeft
  BY DEF StubInv, StepSlots, GdbMade, Undone, Stub!MemoryAsGdbLeft
<1>3. QED BY <1>1, <1>2

\* GdbHandleException, step_generic, Z and z packets: for any number of threads, while
\* gdb looks at the program, memory is what the program and gdb have made it, and a
\* hardware breakpoint stays until gdb takes it out, over steps and lost connections.
THEOREM GdbLeavesMemory ==
  Stub!Spec => /\ [](Stub!TypeOK /\ Stub!MemoryAsGdbLeft)
               /\ [][Stub!HardwareKept]_stubVars
<1>1. Stub!Init => StubInv
  BY StubStart
<1>2. StubInv /\ [Stub!Next]_stubVars => StubInv' /\ [Stub!HardwareKept]_stubVars
  BY StubKept
<1>3. StubInv => Stub!TypeOK /\ Stub!MemoryAsGdbLeft
  BY StubMemory
<1>4. UNCHANGED Stub!vars => UNCHANGED stubVars
  BY DEF Stub!vars, Stub!core, Stub!hw, stubVars
<1>5. QED BY <1>1, <1>2, <1>3, <1>4, PTL DEF Stub!Spec

\* GdbTrapEntry, GdbMain: where one thread traps, it goes on with the registers gdb saw
\* or set, and no continue is left over for a later stop.
THEOREM GdbDebugsOneThread == ASSUME OneTraps PROVE Stub!Spec => AsGdbLeft
<1>1. Stub!Init => StubInv /\ Turns
  BY StubStart
<1>2. (StubInv /\ Turns) /\ [Stub!Next]_stubVars
        => (StubInv /\ Turns)' /\ [Stub!GetsItsRegisters /\ Stub!HardwareKept]_stubVars
  BY StubKept, TurnsKept
<1>3. StubInv /\ Turns => Stub!TypeOK /\ Stub!MemoryAsGdbLeft /\ Stub!NoStaleContinue
  <2>1. PICK t \in Thread : TRUE
    BY DEF OneTraps
  <2>2. QED BY <2>1, StubMemory DEF Turns, ThreadTurn, Stub!NoStaleContinue
<1>4. UNCHANGED Stub!vars => UNCHANGED stubVars
  BY DEF Stub!vars, Stub!core, Stub!hw, stubVars
<1>5. QED BY <1>1, <1>2, <1>3, <1>4, PTL DEF Stub!Spec, AsGdbLeft

-----------------------------------------------------------------------------
(* The packets between gdb and the stub: GdbPacket. *)

Byte == 0 .. Mod - 1

LEMMA PacketConstants ==
  /\ Mod \in Nat /\ Mod > 1 /\ Commands \subseteq Seq(Byte)
  /\ MaxBuf \in Nat /\ MaxBuf > 0 /\ 0 \in Byte /\ Byte \subseteq Nat
BY DebuggingAssumption DEF DebuggingAssumption, Line!PacketAssumption, Byte

\* Sums in a byte.
LEMMA SumInByte ==
  ASSUME NEW x \in Byte, NEW c \in Byte
  PROVE  (x + c) % Mod = IF x + c < Mod THEN x + c ELSE x + c - Mod
<1> USE PacketConstants DEF Byte
<1>1. CASE x + c < Mod
  <2>1. x + c \in 0 .. Mod - 1
    BY <1>1
  <2>2. QED BY <1>1, <2>1
<1>2. CASE ~(x + c < Mod)
  <2>1. x + c - Mod \in 0 .. Mod - 1 /\ x + c \in Int
    BY <1>2
  <2>2. x + c = Mod * 1 + (x + c - Mod)
    BY <2>1
  <2>3. QED BY <1>2, <2>1, <2>2
<1>3. QED BY <1>1, <1>2

LEMMA SumTyped == ASSUME NEW x \in Byte, NEW c \in Byte PROVE (x + c) % Mod \in Byte
BY SumInByte, PacketConstants DEF Byte

LEMMA SumDiffers ==
  ASSUME NEW x \in Byte, NEW y \in Byte, NEW c \in Byte, x # y
  PROVE  (x + c) % Mod # (y + c) % Mod
<1> DEFINE p == (x + c) % Mod
           q == (y + c) % Mod
<1>1. /\ p = IF x + c < Mod THEN x + c ELSE x + c - Mod
      /\ q = IF y + c < Mod THEN y + c ELSE y + c - Mod
  BY SumInByte
<1>2. /\ x \in Int /\ y \in Int /\ c \in Int /\ Mod \in Int
      /\ 0 <= x /\ x < Mod /\ 0 <= y /\ y < Mod
  BY PacketConstants DEF Byte
<1> HIDE DEF p, q
<1>3. p # q
  BY <1>1, <1>2
<1>4. QED BY <1>3 DEF p, q

LEMMA SumOther ==
  ASSUME NEW x \in Byte, NEW c \in Byte, NEW g \in Byte, c # g
  PROVE  (x + c) % Mod # (x + g) % Mod
<1>1. x + c = c + x /\ x + g = g + x
  BY PacketConstants DEF Byte
<1>2. QED BY <1>1, SumDiffers

\* The sums over the first characters: the function the checksum is defined by.
Recurs(f, data, n) ==
  f = [i \in 0 .. n |-> IF i = 0 THEN 0 ELSE (f[i - 1] + data[i]) % Mod]
Sums(data) == CHOOSE f : Recurs(f, data, Len(data))

LEMMA SumsGrow ==
  ASSUME NEW data, NEW n \in Nat, NEW f, Recurs(f, data, n)
  PROVE  \E g : Recurs(g, data, n + 1)
<1> DEFINE g == [i \in 0 .. n + 1 |-> IF i <= n THEN f[i] ELSE (f[n] + data[n + 1]) % Mod]
<1>1. ASSUME NEW i \in 0 .. n + 1
      PROVE  g[i] = IF i = 0 THEN 0 ELSE (g[i - 1] + data[i]) % Mod
  <2>1. CASE i <= n
    <3>1. i \in 0 .. n /\ g[i] = f[i] /\ (i # 0 => i - 1 \in 0 .. n + 1 /\ i - 1 <= n)
      BY <2>1
    <3>2. f[i] = IF i = 0 THEN 0 ELSE (f[i - 1] + data[i]) % Mod
      BY <3>1 DEF Recurs
    <3>3. QED BY <3>1, <3>2
  <2>2. CASE i = n + 1
    BY <2>2
  <2>3. QED BY <2>1, <2>2
<1>2. g = [i \in 0 .. n + 1 |-> g[i]]
  OBVIOUS
<1> HIDE DEF g
<1>3. [i \in 0 .. n + 1 |-> g[i]]
        = [i \in 0 .. n + 1 |-> IF i = 0 THEN 0 ELSE (g[i - 1] + data[i]) % Mod]
  BY <1>1
<1>4. QED BY <1>2, <1>3 DEF Recurs

LEMMA SumsBegin == ASSUME NEW data PROVE \E f : Recurs(f, data, 0)
<1> DEFINE f == [i \in 0 .. 0 |-> 0]
<1>1. f = [i \in 0 .. 0 |-> IF i = 0 THEN 0 ELSE (f[i - 1] + data[i]) % Mod]
  OBVIOUS
<1> HIDE DEF f
<1>2. QED BY <1>1 DEF Recurs

LEMMA SumsExist == ASSUME NEW data, NEW n \in Nat PROVE \E f : Recurs(f, data, n)
<1> DEFINE bad == {k \in Nat : ~ \E f : Recurs(f, data, k)}
<1>1. SUFFICES ASSUME bad # {} PROVE FALSE
  OBVIOUS
<1>2. PICK m \in bad : \A k \in bad : m <= k
  <2>1. bad \in SUBSET Nat
    OBVIOUS
  <2>2. QED BY <1>1, <2>1, LeastIn
<1>3. m # 0
  BY SumsBegin
<1>4. m - 1 \in Nat /\ m - 1 \notin bad /\ (m - 1) + 1 = m
  BY <1>2, <1>3
<1>5. PICK f : Recurs(f, data, m - 1)
  BY <1>4
<1>6. \E g : Recurs(g, data, (m - 1) + 1)
  BY <1>4, <1>5, SumsGrow
<1>7. QED BY <1>4, <1>6

LEMMA SumsAre ==
  ASSUME NEW data \in Seq(Byte)
  PROVE  /\ Line!Checksum(data) = Sums(data)[Len(data)]
         /\ Sums(data)[0] = 0
         /\ \A i \in 1 .. Len(data) : Sums(data)[i] = (Sums(data)[i - 1] + data[i]) % Mod
<1>1. Len(data) \in Nat
  BY LenProperties
<1>2. Recurs(Sums(data), data, Len(data))
  BY <1>1, SumsExist DEF Sums
<1>3. Line!Checksum(data) = Sums(data)[Len(data)]
  BY DEF Line!Checksum, Sums, Recurs
<1>4. \A i \in 0 .. Len(data) :
        Sums(data)[i] = IF i = 0 THEN 0 ELSE (Sums(data)[i - 1] + data[i]) % Mod
  <2> DEFINE f == Sums(data)
  <2>1. f = [i \in 0 .. Len(data) |-> IF i = 0 THEN 0 ELSE (f[i - 1] + data[i]) % Mod]
    BY <1>2 DEF Recurs
  <2> HIDE DEF f
  <2>2. \A i \in 0 .. Len(data) : f[i] = IF i = 0 THEN 0 ELSE (f[i - 1] + data[i]) % Mod
    BY <2>1
  <2>3. QED BY <2>2 DEF f
<1>5. QED BY <1>1, <1>3, <1>4

LEMMA SumsTyped ==
  ASSUME NEW data \in Seq(Byte)
  PROVE  \A i \in 0 .. Len(data) : Sums(data)[i] \in Byte
<1> DEFINE bad == {k \in 0 .. Len(data) : Sums(data)[k] \notin Byte}
<1>1. SUFFICES ASSUME bad # {} PROVE FALSE
  OBVIOUS
<1>2. PICK m \in bad : \A k \in bad : m <= k
  <2>1. bad \in SUBSET Nat
    OBVIOUS
  <2>2. QED BY <1>1, <2>1, LeastIn
<1>3. m # 0
  BY SumsAre, PacketConstants
<1>4. Len(data) \in Nat /\ m \in 1 .. Len(data) /\ m - 1 \in 0 .. Len(data) /\ ~(m <= m - 1)
  BY <1>2, <1>3, LenProperties
<1>5. Sums(data)[m - 1] \in Byte
  BY <1>2, <1>4
<1>6. data[m] \in Byte
  BY <1>4, ElementOfSeq
<1>7. Sums(data)[m] = (Sums(data)[m - 1] + data[m]) % Mod
  BY <1>4, SumsAre
<1>8. QED BY <1>5, <1>6, <1>7, SumTyped

\* The checksum tells data from the same data with one byte garbled.
LEMMA GarbledSum ==
  ASSUME NEW data \in Seq(Byte), NEW i \in 1 .. Len(data), NEW c \in Byte, c # data[i],
         NEW g, g = [data EXCEPT ![i] = c]
  PROVE  g \in Seq(Byte) /\ Len(g) = Len(data) /\ Line!Checksum(g) # Line!Checksum(data)
<1>1. data[i] \in Byte
  BY ElementOfSeq
<1>2. /\ g \in Seq(Byte) /\ Len(g) = Len(data) /\ Len(data) \in Nat
      /\ \A j \in 1 .. Len(data) : g[j] = IF j = i THEN c ELSE data[j]
  BY <1>1, ExceptSeq, LenProperties
<1> DEFINE sd == Sums(data)
           sg == Sums(g)
<1>3. /\ sd[0] = 0 /\ Line!Checksum(data) = sd[Len(data)]
      /\ \A j \in 1 .. Len(data) : sd[j] = (sd[j - 1] + data[j]) % Mod
      /\ \A j \in 0 .. Len(data) : sd[j] \in Byte
  BY SumsAre, SumsTyped
<1>4. /\ sg[0] = 0 /\ Line!Checksum(g) = sg[Len(data)]
      /\ \A j \in 1 .. Len(data) : sg[j] = (sg[j - 1] + g[j]) % Mod
      /\ \A j \in 0 .. Len(data) : sg[j] \in Byte
  BY <1>2, SumsAre, SumsTyped
<1>5. /\ \A j \in 1 .. Len(data) : data[j] \in Byte /\ g[j] \in Byte
      /\ i \in 1 .. Len(data) /\ i \in Nat
  BY <1>2, ElementOfSeq
<1> HIDE DEF sd, sg
<1> DEFINE Apart(k) == (k < i => sg[k] = sd[k]) /\ (k >= i => sg[k] # sd[k])
           bad == {k \in 0 .. Len(data) : ~Apart(k)}
<1>6. Apart(0)
  BY <1>3, <1>4, <1>5
<1>7. ASSUME NEW m \in 1 .. Len(data), Apart(m - 1) PROVE Apart(m)
  <2>1. /\ sg[m] = (sg[m - 1] + g[m]) % Mod /\ sd[m] = (sd[m - 1] + data[m]) % Mod
        /\ m - 1 \in 0 .. Len(data) /\ m \in Nat
    BY <1>2, <1>3, <1>4
  <2>2. sg[m - 1] \in Byte /\ sd[m - 1] \in Byte /\ g[m] \in Byte /\ data[m] \in Byte
    BY <1>3, <1>4, <1>5, <2>1
  <2>3. CASE m < i
    <3>1. sg[m - 1] = sd[m - 1] /\ g[m] = data[m]
      BY <1>2, <1>5, <1>7, <2>1, <2>3
    <3>2. sg[m] = sd[m]
      BY <2>1, <3>1
    <3>3. QED BY <1>5, <2>1, <2>3, <3>2
  <2>4. CASE m = i
    <3>1. sg[m - 1] = sd[m - 1] /\ g[m] # data[m]
      BY <1>1, <1>2, <1>5, <1>7, <2>1, <2>4
    <3>2. sg[m] # sd[m]
      BY <2>1, <2>2, <3>1, SumOther
    <3>3. QED BY <1>5, <2>1, <2>4, <3>2
  <2>5. CASE m > i
    <3>1. sg[m - 1] # sd[m - 1] /\ g[m] = data[m]
      BY <1>2, <1>5, <1>7, <2>1, <2>5
    <3>2. sg[m] # sd[m]
      BY <2>1, <2>2, <3>1, SumDiffers
    <3>3. QED BY <1>5, <2>1, <2>5, <3>2
  <2>6. QED BY <1>5, <2>1, <2>3, <2>4, <2>5
<1> HIDE DEF Apart
<1>8. bad = {}
  <2>1. SUFFICES ASSUME bad # {} PROVE FALSE
    OBVIOUS
  <2>2. PICK m \in bad : \A k \in bad : m <= k
    <3>1. bad \in SUBSET Nat
      OBVIOUS
    <3>2. QED BY <2>1, <3>1, LeastIn
  <2>3. m # 0
    BY <1>6
  <2>4. m \in 1 .. Len(data) /\ m - 1 \in 0 .. Len(data) /\ ~(m <= m - 1)
    BY <1>2, <2>2, <2>3
  <2>5. Apart(m - 1)
    BY <2>2, <2>4
  <2>6. QED BY <1>7, <2>2, <2>4, <2>5
<1>9. Apart(Len(data))
  BY <1>2, <1>8
<1>10. sg[Len(data)] # sd[Len(data)]
  BY <1>2, <1>5, <1>9 DEF Apart
<1>11. QED BY <1>2, <1>3, <1>4, <1>10

\* What data may arrive as, and the frames that may.
Variants(data) ==
  {data} \cup {g \in Seq(Byte) : \E i \in 1 .. Len(data), c \in Byte :
                                c # data[i] /\ g = [data EXCEPT ![i] = c]}
Frames(data) == {Line!Packet(v, Line!Checksum(data)) : v \in Variants(data)}

LEMMA VariantsAre ==
  ASSUME NEW data \in Seq(Byte), NEW v \in Variants(data)
  PROVE  /\ v \in Seq(Byte) /\ Len(v) = Len(data) /\ Len(data) \in Nat
         /\ v = data \/ Line!Checksum(v) # Line!Checksum(data)
BY GarbledSum, LenProperties DEF Variants

LEMMA ChecksumTyped == ASSUME NEW data \in Seq(Byte) PROVE Line!Checksum(data) \in Byte
BY SumsAre, SumsTyped, LenProperties

\* The characters of a frame.
Chars == [kind : {"data", "sum", "$", "#", "+", "-"}, val : Nat]

LEMMA PacketIs ==
  ASSUME NEW v \in Seq(Byte), NEW c \in Byte
  PROVE  /\ Line!Packet(v, c) \in Seq(Chars) /\ Len(Line!Packet(v, c)) = Len(v) + 3
         /\ Line!Packet(v, c)[1] = Line!Start
         /\ \A i \in 1 .. Len(v) : Line!Packet(v, c)[i + 1] = Line!Data(v[i])
         /\ Line!Packet(v, c)[Len(v) + 2] = Line!End
         /\ Line!Packet(v, c)[Len(v) + 3] = Line!Sum(c)
<1> DEFINE head == <<Line!Start>>
           body == [i \in 1 .. Len(v) |-> Line!Data(v[i])]
           tail == <<Line!End, Line!Sum(c)>>
<1>1. head \in Seq(Chars) /\ Len(head) = 1 /\ head[1] = Line!Start
  BY DEF Line!Start, Chars
<1>2. /\ tail \in Seq(Chars) /\ Len(tail) = 2
      /\ tail[1] = Line!End /\ tail[2] = Line!Sum(c)
  BY PacketConstants DEF Line!End, Line!Sum, Chars
<1>3. /\ body \in Seq(Chars) /\ Len(body) = Len(v) /\ Len(v) \in Nat
      /\ \A i \in 1 .. Len(v) : body[i] = Line!Data(v[i])
  <2>1. Len(v) \in Nat
    BY LenProperties
  <2>2. \A i \in 1 .. Len(v) : Line!Data(v[i]) \in Chars
    BY ElementOfSeq, PacketConstants DEF Line!Data, Chars
  <2>3. QED BY <2>1, <2>2
<1>4. Line!Packet(v, c) = (head \o body) \o tail
  BY DEF Line!Packet
<1> HIDE DEF head, body, tail
<1>5. /\ head \o body \in Seq(Chars) /\ Len(head \o body) = Len(v) + 1
      /\ \A i \in 1 .. Len(v) + 1 : (head \o body)[i] = IF i <= 1 THEN head[i] ELSE body[i - 1]
  <2>1. /\ head \o body \in Seq(Chars) /\ Len(head \o body) = Len(head) + Len(body)
        /\ \A i \in 1 .. Len(head) + Len(body) : (head \o body)[i] =
             IF i <= Len(head) THEN head[i] ELSE body[i - Len(head)]
    BY <1>1, <1>3, ConcatProperties
  <2>2. Len(head) + Len(body) = Len(v) + 1
    BY <1>1, <1>3
  <2>3. QED BY <1>1, <2>1, <2>2
<1>6. /\ Line!Packet(v, c) \in Seq(Chars) /\ Len(Line!Packet(v, c)) = Len(v) + 3
      /\ \A i \in 1 .. Len(v) + 3 : Line!Packet(v, c)[i] =
           IF i <= Len(v) + 1 THEN (head \o body)[i] ELSE tail[i - (Len(v) + 1)]
  <2> DEFINE most == head \o body
  <2>1. most \in Seq(Chars) /\ Len(most) = Len(v) + 1
    BY <1>5
  <2> HIDE DEF most
  <2>2. /\ most \o tail \in Seq(Chars) /\ Len(most \o tail) = Len(most) + Len(tail)
        /\ \A i \in 1 .. Len(most) + Len(tail) : (most \o tail)[i] =
             IF i <= Len(most) THEN most[i] ELSE tail[i - Len(most)]
    BY <1>2, <2>1, ConcatProperties
  <2>3. Len(most) + Len(tail) = Len(v) + 3
    BY <1>2, <1>3, <2>1
  <2>4. Line!Packet(v, c) = most \o tail
    BY <1>4 DEF most
  <2>5. QED BY <2>1, <2>2, <2>3, <2>4 DEF most
<1>7. Line!Packet(v, c)[1] = Line!Start
  BY <1>1, <1>3, <1>5, <1>6
<1>8. \A i \in 1 .. Len(v) : Line!Packet(v, c)[i + 1] = Line!Data(v[i])
  <2>1. SUFFICES ASSUME NEW i \in 1 .. Len(v) PROVE Line!Packet(v, c)[i + 1] = Line!Data(v[i])
    OBVIOUS
  <2>2. /\ i + 1 \in 1 .. Len(v) + 3 /\ i + 1 <= Len(v) + 1 /\ i + 1 \in 1 .. Len(v) + 1
        /\ ~(i + 1 <= 1) /\ (i + 1) - 1 = i
    BY <1>3
  <2>3. QED BY <1>3, <1>5, <1>6, <2>2
<1>9. Line!Packet(v, c)[Len(v) + 2] = Line!End /\ Line!Packet(v, c)[Len(v) + 3] = Line!Sum(c)
  <2>1. /\ Len(v) + 2 \in 1 .. Len(v) + 3 /\ ~(Len(v) + 2 <= Len(v) + 1)
        /\ (Len(v) + 2) - (Len(v) + 1) = 1
        /\ Len(v) + 3 \in 1 .. Len(v) + 3 /\ ~(Len(v) + 3 <= Len(v) + 1)
        /\ (Len(v) + 3) - (Len(v) + 1) = 2
    BY <1>3
  <2>2. QED BY <1>2, <1>6, <2>1
<1>10. QED BY <1>6, <1>7, <1>8, <1>9

-----------------------------------------------------------------------------
(* What is on its way to a stub that looks for a packet. *)

Pieces == Seq(Chars) \ {<<>>}
Stubs == [at : {"start", "data", "sum", "reply", "ack", "lost"}, buffer : Seq(Byte), checksum : Byte]
NoAck(s) == \A i \in 1 .. Len(s) : s[i].kind # "+"

\* Sequence s is what is left of f from character p on.
RestOf(s, f, p) ==
  /\ Len(s) = Len(f) + 1 - p
  /\ \A i \in 1 .. Len(s) : s[i] = f[p + i - 1]

\* What is left when a character has been read.
Remaining(ins) ==
  (IF Tail(Head(ins)) = <<>> THEN <<>> ELSE <<Tail(Head(ins))>>) \o Tail(ins)

\* The state of a stub that has read a frame with the data v up to character p.
ReadTo(st, v, p) ==
  /\ st.at = IF p = 1 THEN "start" ELSE IF p <= Len(v) + 2 THEN "data" ELSE "sum"
  /\ Len(st.buffer) = IF p = 1 THEN 0 ELSE IF p <= Len(v) + 2 THEN p - 2 ELSE Len(v)
  /\ \A i \in 1 .. Len(st.buffer) : st.buffer[i] = v[i]
  /\ st.checksum = Sums(v)[Len(st.buffer)]

\* From piece n on there are frames of the due packet only.
Follow(ins, n, due) == \A i \in n .. Len(ins) : ins[i] \in Frames(due)

\* The stub has read a part of such a frame.
FrameOf(v, due) == Line!Packet(v, Line!Checksum(due))
Hunts(ins, st, due) ==
  \/ ins = <<>> /\ st = Line!Scanning
  \/ /\ ins # <<>> /\ Follow(ins, 2, due)
     /\ \E v \in Variants(due) : \E p \in 1 .. Len(due) + 3 :
          RestOf(ins[1], FrameOf(v, due), p) /\ ReadTo(st, v, p)

\* What is left of a sequence without its head.
LEMMA TailIs ==
  ASSUME NEW S, NEW s \in Seq(S), s # <<>>
  PROVE  /\ Len(s) \in Nat /\ Len(s) >= 1 /\ Head(s) = s[1] /\ s[1] \in S
         /\ Tail(s) \in Seq(S) /\ Len(Tail(s)) = Len(s) - 1
         /\ \A i \in 1 .. Len(s) - 1 : Tail(s)[i] = s[i + 1]
         /\ Tail(s) = <<>> <=> Len(s) = 1
<1>1. Len(s) \in Nat /\ Len(s) >= 1
  BY EmptySeq
<1>2. /\ Tail(s) \in Seq(S) /\ Len(Tail(s)) = Len(s) - 1
      /\ \A i \in 1 .. Len(s) - 1 : Tail(s)[i] = s[i + 1]
  BY HeadTailProperties
<1>3. Tail(s) = <<>> <=> Len(s) = 1
  <2> DEFINE t == Tail(s)
  <2>1. t \in Seq(S) /\ Len(t) = Len(s) - 1
    BY <1>2
  <2> HIDE DEF t
  <2>2. t = <<>> => Len(t) = 0
    BY EmptySeq
  <2>3. t # <<>> => Len(t) \in Nat \ {0}
    BY <2>1, EmptySeq
  <2>4. t = <<>> <=> Len(t) = 0
    BY <2>2, <2>3
  <2>5. t = <<>> <=> Len(s) = 1
    BY <1>1, <2>1, <2>4
  <2>6. QED BY <2>5 DEF t
<1>4. Head(s) = s[1] /\ s[1] \in S
  BY <1>1, ElementOfSeq
<1>5. QED BY <1>1, <1>2, <1>3, <1>4

\* A piece and what is left of it.
LEMMA PieceIs ==
  ASSUME NEW s \in Pieces
  PROVE  /\ Len(s) \in Nat /\ Len(s) >= 1 /\ Head(s) = s[1]
         /\ Tail(s) \in Seq(Chars) /\ Len(Tail(s)) = Len(s) - 1
         /\ \A i \in 1 .. Len(s) - 1 : Tail(s)[i] = s[i + 1]
         /\ Tail(s) = <<>> <=> Len(s) = 1
<1>1. s \in Seq(Chars) /\ s # <<>>
  BY DEF Pieces
<1>2. QED BY <1>1, TailIs

\* A character is read off what is on its way.
LEMMA ReadsOne ==
  ASSUME NEW ins \in Seq(Pieces), ins # <<>>, NEW more,
         more = Remaining(ins)
  PROVE  /\ Len(ins) \in Nat /\ Len(ins) >= 1 /\ ins[1] \in Pieces
         /\ Len(ins[1]) \in Nat /\ Len(ins[1]) >= 1
         /\ Head(Head(ins)) = ins[1][1] /\ more \in Seq(Pieces)
         /\ \/ /\ Len(ins[1]) = 1 /\ Len(more) = Len(ins) - 1
               /\ \A i \in 1 .. Len(ins) - 1 : more[i] = ins[i + 1]
            \/ /\ Len(ins[1]) > 1 /\ Len(more) = Len(ins)
               /\ Len(more[1]) = Len(ins[1]) - 1
               /\ \A i \in 1 .. Len(ins[1]) - 1 : more[1][i] = ins[1][i + 1]
               /\ \A i \in 2 .. Len(ins) : more[i] = ins[i]
<1>1. /\ Len(ins) \in Nat /\ Len(ins) >= 1 /\ Head(ins) = ins[1] /\ ins[1] \in Pieces
      /\ Tail(ins) \in Seq(Pieces) /\ Len(Tail(ins)) = Len(ins) - 1
      /\ \A i \in 1 .. Len(ins) - 1 : Tail(ins)[i] = ins[i + 1]
  BY TailIs
<1> DEFINE s == ins[1]
<1>2. /\ Len(s) \in Nat /\ Len(s) >= 1 /\ Head(s) = s[1]
      /\ Tail(s) \in Seq(Chars) /\ Len(Tail(s)) = Len(s) - 1
      /\ \A i \in 1 .. Len(s) - 1 : Tail(s)[i] = s[i + 1]
      /\ Tail(s) = <<>> <=> Len(s) = 1
  <2>1. s \in Pieces
    BY <1>1
  <2> HIDE DEF s
  <2>2. QED BY <2>1, PieceIs
<1>3. more = (IF Tail(s) = <<>> THEN <<>> ELSE <<Tail(s)>>) \o Tail(ins) /\ Head(Head(ins)) = s[1]
  BY <1>1, <1>2 DEF Remaining
<1>4. CASE Len(s) = 1
  <2>1. more = Tail(ins)
    BY <1>1, <1>2, <1>3, <1>4, ConcatEmptySeq
  <2>2. QED BY <1>1, <1>2, <1>3, <1>4, <2>1
<1>5. CASE Len(s) # 1
  <2> DEFINE first == <<Tail(s)>>
             others  == Tail(ins)
  <2>1. first \in Seq(Pieces) /\ Len(first) = 1 /\ first[1] = Tail(s)
    BY <1>2, <1>5 DEF Pieces
  <2>2. /\ others \in Seq(Pieces) /\ Len(others) = Len(ins) - 1
        /\ \A i \in 1 .. Len(ins) - 1 : others[i] = ins[i + 1]
    BY <1>1
  <2>3. more = first \o others
    BY <1>2, <1>3, <1>5
  <2> HIDE DEF first, others
  <2>4. /\ more \in Seq(Pieces) /\ Len(more) = Len(first) + Len(others)
        /\ \A i \in 1 .. Len(first) + Len(others) :
             more[i] = IF i <= Len(first) THEN first[i] ELSE others[i - Len(first)]
    BY <2>1, <2>2, <2>3, ConcatProperties
  <2>5. Len(first) + Len(others) = Len(ins)
    BY <1>1, <2>1, <2>2
  <2>6. more[1] = Tail(s)
    <3>1. 1 \in 1 .. Len(first) + Len(others) /\ 1 <= Len(first)
      BY <1>1, <2>1, <2>5
    <3>2. QED BY <2>1, <2>4, <3>1
  <2>7. ASSUME NEW i \in 2 .. Len(ins) PROVE more[i] = ins[i]
    <3>1. i \in 1 .. Len(first) + Len(others) /\ ~(i <= Len(first)) /\ i - 1 \in 1 .. Len(ins) - 1
          /\ (i - 1) + 1 = i /\ i - Len(first) = i - 1
      BY <1>1, <2>1, <2>5
    <3>2. QED BY <2>2, <2>4, <3>1
  <2>8. Len(s) > 1
    <3> HIDE DEF s
    <3>1. QED BY <1>2, <1>5
  <2>9. QED BY <1>1, <1>2, <1>3, <2>4, <2>5, <2>6, <2>7, <2>8
<1>6. QED BY <1>4, <1>5

\* Frames are pieces without an acknowledgement.
LEMMA FramesAre ==
  ASSUME NEW due \in Seq(Byte), NEW v \in Variants(due)
  PROVE  /\ FrameOf(v, due) \in Pieces /\ Len(FrameOf(v, due)) = Len(due) + 3 /\ NoAck(FrameOf(v, due))
         /\ Len(due) \in Nat /\ Len(v) = Len(due) /\ v \in Seq(Byte)
         /\ FrameOf(v, due)[1] = Line!Start
         /\ \A i \in 1 .. Len(due) : FrameOf(v, due)[i + 1] = Line!Data(v[i])
         /\ FrameOf(v, due)[Len(due) + 2] = Line!End
         /\ FrameOf(v, due)[Len(due) + 3] = Line!Sum(Line!Checksum(due))
<1>1. /\ v \in Seq(Byte) /\ Len(v) = Len(due) /\ Len(due) \in Nat
      /\ Line!Checksum(due) \in Byte
  BY VariantsAre, ChecksumTyped
<1> DEFINE f == FrameOf(v, due)
<1>2. /\ f \in Seq(Chars) /\ Len(f) = Len(due) + 3 /\ f[1] = Line!Start
      /\ \A i \in 1 .. Len(due) : f[i + 1] = Line!Data(v[i])
      /\ f[Len(due) + 2] = Line!End /\ f[Len(due) + 3] = Line!Sum(Line!Checksum(due))
  BY <1>1, PacketIs DEF FrameOf
<1> HIDE DEF f
<1>3. f # <<>>
  <2>1. SUFFICES ASSUME f = <<>> PROVE FALSE
    OBVIOUS
  <2>2. Len(f) = 0
    BY <2>1, EmptySeq
  <2>3. QED BY <1>1, <1>2, <2>2
<1>4. NoAck(f)
  <2>1. SUFFICES ASSUME NEW i \in 1 .. Len(f) PROVE f[i].kind # "+"
    BY DEF NoAck
  <2>2. i = 1 \/ (i - 1 \in 1 .. Len(due) /\ (i - 1) + 1 = i) \/ i = Len(due) + 2 \/ i = Len(due) + 3
    BY <1>1, <1>2
  <2>3. CASE i = 1
    BY <1>2, <2>3 DEF Line!Start
  <2>4. CASE i - 1 \in 1 .. Len(due) /\ (i - 1) + 1 = i
    <3>1. f[(i - 1) + 1] = Line!Data(v[i - 1])
      BY <1>2, <2>4
    <3>2. QED BY <2>4, <3>1 DEF Line!Data
  <2>5. CASE i = Len(due) + 2
    BY <1>2, <2>5 DEF Line!End
  <2>6. CASE i = Len(due) + 3
    BY <1>2, <2>6 DEF Line!Sum
  <2>7. QED BY <2>2, <2>3, <2>4, <2>5, <2>6
<1>5. f \in Pieces
  BY <1>2, <1>3 DEF Pieces
<1>6. QED BY <1>1, <1>2, <1>4, <1>5 DEF f

LEMMA FrameIs ==
  ASSUME NEW due \in Seq(Byte), NEW f \in Frames(due)
  PROVE  /\ f \in Pieces /\ NoAck(f)
         /\ \E v \in Variants(due) : RestOf(f, FrameOf(v, due), 1)
<1>1. PICK v \in Variants(due) : f = FrameOf(v, due)
  BY DEF Frames, FrameOf
<1>2. f \in Pieces /\ NoAck(f) /\ Len(f) = Len(due) + 3 /\ Len(due) \in Nat
  BY <1>1, FramesAre
<1>3. RestOf(f, FrameOf(v, due), 1)
  <2>1. Len(f) = Len(f) + 1 - 1 /\ \A i \in 1 .. Len(f) : 1 + i - 1 = i
    BY <1>2
  <2>2. QED BY <1>1, <2>1 DEF RestOf
<1>4. QED BY <1>2, <1>3

\* A stub that has read nothing of the first frame.
LEMMA HuntsBegin ==
  ASSUME NEW due \in Seq(Byte), NEW ins \in Seq(Pieces), Follow(ins, 1, due)
  PROVE  Hunts(ins, Line!Scanning, due)
<1>1. CASE ins = <<>>
  BY <1>1 DEF Hunts
<1>2. CASE ins # <<>>
  <2>1. Len(ins) \in Nat /\ Len(ins) >= 1
    BY <1>2, TailIs
  <2>2. Follow(ins, 2, due) /\ ins[1] \in Frames(due)
    BY <2>1 DEF Follow
  <2>3. PICK v \in Variants(due) : RestOf(ins[1], FrameOf(v, due), 1)
    BY <2>2, FrameIs
  <2>4. v \in Seq(Byte) /\ Len(due) \in Nat
    BY FramesAre
  <2>5. ReadTo(Line!Scanning, v, 1)
    <3>1. Sums(v)[0] = 0 /\ Len(<<>>) = 0
      BY <2>4, SumsAre, EmptySeq
    <3>2. QED BY <3>1 DEF ReadTo, Line!Scanning
  <2>6. 1 \in 1 .. Len(due) + 3
    BY <2>4
  <2>7. QED BY <1>2, <2>2, <2>3, <2>5, <2>6 DEF Hunts
<1>3. QED BY <1>1, <1>2

\* Another frame is sent.
LEMMA FollowMore ==
  ASSUME NEW due, NEW ins \in Seq(Pieces), NEW f \in Frames(due), f \in Pieces,
         NEW n \in Nat, n >= 1, Follow(ins, n, due)
  PROVE  Follow(Append(ins, f), n, due)
<1> DEFINE more == Append(ins, f)
<1>1. /\ Len(more) = Len(ins) + 1 /\ \A i \in 1 .. Len(ins) : more[i] = ins[i]
      /\ more[Len(ins) + 1] = f /\ Len(ins) \in Nat
  BY AppendProperties, LenProperties
<1> HIDE DEF more
<1>2. SUFFICES ASSUME NEW i \in n .. Len(more) PROVE more[i] \in Frames(due)
  BY DEF Follow, more
<1>3. (i \in n .. Len(ins) /\ i \in 1 .. Len(ins)) \/ i = Len(ins) + 1
  BY <1>1
<1>4. QED BY <1>1, <1>3 DEF Follow

LEMMA HuntsMore ==
  ASSUME NEW due \in Seq(Byte), NEW ins \in Seq(Pieces), NEW st, Hunts(ins, st, due),
         NEW f \in Frames(due)
  PROVE  Hunts(Append(ins, f), st, due)
<1> DEFINE more == Append(ins, f)
<1>1. f \in Pieces
  BY FrameIs
<1>2. /\ Len(more) = Len(ins) + 1 /\ \A i \in 1 .. Len(ins) : more[i] = ins[i]
      /\ more[Len(ins) + 1] = f /\ Len(ins) \in Nat /\ more # <<>> /\ more \in Seq(Pieces)
  BY <1>1, AppendProperties, LenProperties
<1>3. CASE ins = <<>> /\ st = Line!Scanning
  <2>1. Len(ins) = 0
    BY <1>3, EmptySeq
  <2> HIDE DEF more
  <2>2. Follow(more, 1, due)
    <3>1. SUFFICES ASSUME NEW i \in 1 .. Len(more) PROVE more[i] \in Frames(due)
      BY DEF Follow
    <3>2. i = Len(ins) + 1
      BY <1>2, <2>1
    <3>3. QED BY <1>2, <3>2
  <2>3. QED BY <1>2, <1>3, <2>2, HuntsBegin DEF more
<1>4. CASE /\ ins # <<>> /\ Follow(ins, 2, due)
           /\ \E v \in Variants(due) : \E p \in 1 .. Len(due) + 3 :
                RestOf(ins[1], FrameOf(v, due), p) /\ ReadTo(st, v, p)
  <2>1. more[1] = ins[1]
    <3>1. Len(ins) >= 1
      BY <1>4, TailIs
    <3> HIDE DEF more
    <3>2. QED BY <1>2, <3>1
  <2>2. Follow(more, 2, due)
    BY <1>1, <1>4, FollowMore
  <2> HIDE DEF more
  <2>3. Hunts(more, st, due)
    BY <1>2, <1>4, <2>1, <2>2 DEF Hunts
  <2>4. QED BY <2>3 DEF more
<1>5. QED BY <1>3, <1>4 DEF Hunts

\* It reads a character of such a frame.
LEMMA HuntsRead ==
  ASSUME NEW due \in Seq(Byte), NEW ins \in Seq(Pieces), ins # <<>>, NEW st,
         Hunts(ins, st, due), NEW more,
         more = Remaining(ins)
  PROVE  \E v \in Variants(due) : \E p \in 1 .. Len(due) + 3 :
           /\ ReadTo(st, v, p) /\ Head(Head(ins)) = FrameOf(v, due)[p]
           /\ \/ /\ p < Len(due) + 3 /\ Follow(more, 2, due)
                 /\ more # <<>> /\ RestOf(more[1], FrameOf(v, due), p + 1)
              \/ p = Len(due) + 3 /\ Follow(more, 1, due)
<1>1. /\ Len(ins) \in Nat /\ Len(ins) >= 1 /\ ins[1] \in Pieces
      /\ Len(ins[1]) \in Nat /\ Len(ins[1]) >= 1
      /\ Head(Head(ins)) = ins[1][1] /\ more \in Seq(Pieces)
      /\ \/ /\ Len(ins[1]) = 1 /\ Len(more) = Len(ins) - 1
            /\ \A i \in 1 .. Len(ins) - 1 : more[i] = ins[i + 1]
         \/ /\ Len(ins[1]) > 1 /\ Len(more) = Len(ins)
            /\ Len(more[1]) = Len(ins[1]) - 1
            /\ \A i \in 1 .. Len(ins[1]) - 1 : more[1][i] = ins[1][i + 1]
            /\ \A i \in 2 .. Len(ins) : more[i] = ins[i]
  BY ReadsOne
<1>2. PICK v \in Variants(due), p \in 1 .. Len(due) + 3 :
        RestOf(ins[1], FrameOf(v, due), p) /\ ReadTo(st, v, p)
  BY DEF Hunts
<1>3. Follow(ins, 2, due)
  BY DEF Hunts
<1> DEFINE f == FrameOf(v, due)
<1>4. Len(f) = Len(due) + 3 /\ Len(due) \in Nat
  BY FramesAre
<1> HIDE DEF f
<1>5. Len(ins[1]) = Len(f) + 1 - p /\ \A i \in 1 .. Len(ins[1]) : ins[1][i] = f[p + i - 1]
  BY <1>2 DEF RestOf, f
<1>6. Head(Head(ins)) = f[p]
  <2>1. 1 \in 1 .. Len(ins[1]) /\ p + 1 - 1 = p
    BY <1>1, <1>4
  <2>2. QED BY <1>1, <1>5, <2>1
<1>7. CASE /\ Len(ins[1]) = 1 /\ Len(more) = Len(ins) - 1
           /\ \A i \in 1 .. Len(ins) - 1 : more[i] = ins[i + 1]
  <2>1. p = Len(due) + 3
    <3>1. Len(ins[1]) = 1 /\ Len(ins[1]) = Len(f) + 1 - p /\ Len(f) = Len(due) + 3
      BY <1>4, <1>5, <1>7
    <3> DEFINE k == Len(ins[1])
               m == Len(f)
    <3>2. k = 1 /\ k = m + 1 - p /\ m = Len(due) + 3 /\ Len(due) \in Nat
      BY <1>4, <3>1
    <3> HIDE DEF k, m
    <3>3. QED BY <3>2
  <2>2. Follow(more, 1, due)
    <3>1. SUFFICES ASSUME NEW i \in 1 .. Len(more) PROVE more[i] \in Frames(due)
      BY DEF Follow
    <3>2. i \in 1 .. Len(ins) - 1 /\ i + 1 \in 2 .. Len(ins)
      BY <1>1, <1>7
    <3>3. QED BY <1>3, <1>7, <3>2 DEF Follow
  <2>3. QED BY <1>2, <1>6, <2>1, <2>2 DEF f
<1>8. CASE /\ Len(ins[1]) > 1 /\ Len(more) = Len(ins)
           /\ Len(more[1]) = Len(ins[1]) - 1
           /\ \A i \in 1 .. Len(ins[1]) - 1 : more[1][i] = ins[1][i + 1]
           /\ \A i \in 2 .. Len(ins) : more[i] = ins[i]
  <2>1. p < Len(due) + 3
    BY <1>1, <1>4, <1>5, <1>8
  <2>2. Follow(more, 2, due)
    BY <1>3, <1>8 DEF Follow
  <2>3. more # <<>>
    <3>1. SUFFICES ASSUME more = <<>> PROVE FALSE
      OBVIOUS
    <3>2. Len(more) = 0
      BY <3>1, EmptySeq
    <3>3. QED BY <1>1, <1>8, <3>2
  <2>4. RestOf(more[1], f, p + 1)
    <3>1. Len(more[1]) = Len(f) + 1 - (p + 1)
      BY <1>1, <1>4, <1>5, <1>8
    <3>2. ASSUME NEW i \in 1 .. Len(more[1]) PROVE more[1][i] = f[(p + 1) + i - 1]
      <4>1. i \in 1 .. Len(ins[1]) - 1 /\ i + 1 \in 1 .. Len(ins[1])
            /\ p + (i + 1) - 1 = (p + 1) + i - 1
        BY <1>1, <1>4, <1>8
      <4>2. more[1][i] = ins[1][i + 1] /\ ins[1][i + 1] = f[p + (i + 1) - 1]
        BY <1>5, <1>8, <4>1
      <4>3. QED BY <4>1, <4>2
    <3>3. QED BY <3>1, <3>2 DEF RestOf
  <2>5. QED BY <1>2, <1>6, <2>1, <2>2, <2>3, <2>4 DEF f
<1>9. QED BY <1>1, <1>7, <1>8

LEMMA HuntsOn ==
  ASSUME NEW due \in Seq(Byte), NEW more \in Seq(Pieces), more # <<>>, NEW st,
         NEW v \in Variants(due), NEW p \in 1 .. Len(due) + 3, p < Len(due) + 3,
         RestOf(more[1], FrameOf(v, due), p + 1), ReadTo(st, v, p + 1), Follow(more, 2, due)
  PROVE  Hunts(more, st, due)
<1>1. p + 1 \in 1 .. Len(due) + 3
  BY LenProperties
<1>2. QED BY <1>1 DEF Hunts

\* What the stub makes of a character of the packet's data, of the end, and of the
\* checksum.
LEMMA ReadsData ==
  ASSUME NEW due \in Seq(Byte), NEW v \in Variants(due), NEW p \in Nat, 2 <= p, p <= Len(due) + 1,
         NEW st \in Stubs, ReadTo(st, v, p), NEW now,
         now = [at |-> "data", buffer |-> Append(st.buffer, v[p - 1]),
                checksum |-> (st.checksum + v[p - 1]) % Mod]
  PROVE  /\ ReadTo(now, v, p + 1) /\ now \in Stubs
         /\ Append(st.buffer, v[p - 1]) \in Seq(Byte) /\ Len(Append(st.buffer, v[p - 1])) = p - 1
<1>1. v \in Seq(Byte) /\ Len(v) = Len(due) /\ Len(due) \in Nat
  BY VariantsAre
<1>2. p - 1 \in 1 .. Len(v) /\ v[p - 1] \in Byte /\ (p - 1) - 1 = p - 2 /\ p - 2 \in 0 .. Len(v)
  BY <1>1, ElementOfSeq
<1>3. st.buffer \in Seq(Byte) /\ st.checksum \in Byte
  BY DEF Stubs
<1>4. /\ Len(st.buffer) = p - 2 /\ \A i \in 1 .. p - 2 : st.buffer[i] = v[i]
      /\ st.checksum = Sums(v)[p - 2]
  BY <1>1 DEF ReadTo
<1> DEFINE b == Append(st.buffer, v[p - 1])
           c == (st.checksum + v[p - 1]) % Mod
<1>5. /\ b \in Seq(Byte) /\ Len(b) = (p - 2) + 1 /\ \A i \in 1 .. p - 2 : b[i] = st.buffer[i]
      /\ b[(p - 2) + 1] = v[p - 1]
  BY <1>2, <1>3, <1>4, AppendProperties
<1>6. c = Sums(v)[p - 1] /\ c \in Byte
  <2>1. Sums(v)[p - 1] = (Sums(v)[(p - 1) - 1] + v[p - 1]) % Mod
    BY <1>1, <1>2, SumsAre
  <2>2. c = Sums(v)[p - 1]
    BY <1>2, <1>4, <2>1
  <2>3. Sums(v)[p - 1] \in Byte
    BY <1>1, <1>2, SumsTyped
  <2>4. QED BY <2>2, <2>3
<1> HIDE DEF b, c
<1>7. Len(b) = p - 1 /\ \A i \in 1 .. p - 1 : b[i] = v[i]
  <2>1. ASSUME NEW i \in 1 .. p - 1 PROVE b[i] = v[i]
    <3>1. i \in 1 .. p - 2 \/ (i = p - 1 /\ i = (p - 2) + 1)
      OBVIOUS
    <3>2. QED BY <1>4, <1>5, <3>1
  <2>2. QED BY <1>5, <2>1
<1>8. now.at = "data" /\ now.buffer = b /\ now.checksum = c
  BY DEF b, c
<1>9. ReadTo(now, v, p + 1)
  <2>1. p + 1 # 1 /\ p + 1 <= Len(v) + 2 /\ (p + 1) - 2 = p - 1
    BY <1>1
  <2>2. QED BY <1>6, <1>7, <1>8, <2>1 DEF ReadTo
<1>10. now \in Stubs
  BY <1>5, <1>6 DEF Stubs, b, c
<1>11. QED BY <1>5, <1>7, <1>9, <1>10 DEF b

LEMMA ReadsEnd ==
  ASSUME NEW due \in Seq(Byte), NEW v \in Variants(due), NEW st \in Stubs,
         ReadTo(st, v, Len(due) + 2)
  PROVE  ReadTo([st EXCEPT !.at = "sum"], v, Len(due) + 3)
<1>1. Len(v) = Len(due) /\ Len(due) \in Nat
  BY VariantsAre
<1> DEFINE now == [st EXCEPT !.at = "sum"]
<1>2. now.at = "sum" /\ now.buffer = st.buffer /\ now.checksum = st.checksum
  BY DEF Stubs
<1> HIDE DEF now
<1>3. /\ Len(st.buffer) = Len(v) /\ \A i \in 1 .. Len(st.buffer) : st.buffer[i] = v[i]
      /\ st.checksum = Sums(v)[Len(st.buffer)]
  <2>1. Len(due) + 2 # 1 /\ Len(due) + 2 <= Len(v) + 2 /\ (Len(due) + 2) - 2 = Len(v)
    BY <1>1
  <2>2. QED BY <2>1 DEF ReadTo
<1>4. ReadTo(now, v, Len(due) + 3)
  <2>1. Len(due) + 3 # 1 /\ ~(Len(due) + 3 <= Len(v) + 2)
    BY <1>1
  <2>2. QED BY <1>2, <1>3, <2>1 DEF ReadTo
<1>5. QED BY <1>4 DEF now

LEMMA ReadsSum ==
  ASSUME NEW due \in Seq(Byte), NEW v \in Variants(due), NEW st \in Stubs,
         ReadTo(st, v, Len(due) + 3)
  PROVE  st.buffer = v /\ st.checksum = Line!Checksum(v)
<1>1. v \in Seq(Byte) /\ Len(v) = Len(due) /\ Len(due) \in Nat
  BY VariantsAre
<1>2. st.buffer \in Seq(Byte)
  BY DEF Stubs
<1>3. Len(st.buffer) = Len(v) /\ st.checksum = Sums(v)[Len(v)]
      /\ \A i \in 1 .. Len(v) : st.buffer[i] = v[i]
  <2>1. Len(due) + 3 # 1 /\ ~(Len(due) + 3 <= Len(v) + 2)
    BY <1>1
  <2>2. QED BY <2>1 DEF ReadTo
<1>4. QED BY <1>1, <1>2, <1>3, SeqEqual, SumsAre

-----------------------------------------------------------------------------
(* What is on its way to a stub that has executed a packet: no              *)
(* acknowledgement, or one that is the last, or one before frames of the    *)
(* next packet.                                                             *)

NoAcks(ins) == \A i \in 1 .. Len(ins) : NoAck(ins[i])
AckLast(ins) == /\ ins # <<>> /\ ins[Len(ins)] = <<Line!Ack>>
                /\ \A i \in 1 .. Len(ins) - 1 : NoAck(ins[i])
AckAt(ins, j, due) ==
  /\ ins[j] = <<Line!Ack>>
  /\ \A i \in 1 .. Len(ins) : /\ i < j => NoAck(ins[i])
                              /\ i > j => ins[i] \in Frames(due)
AckThen(ins, due) == \E j \in 1 .. Len(ins) : AckAt(ins, j, due)

LEMMA AckIs == /\ <<Line!Ack>> \in Pieces /\ Len(<<Line!Ack>>) = 1
               /\ <<Line!Ack>>[1].kind = "+" /\ <<Line!Nak>> \in Pieces /\ NoAck(<<Line!Nak>>)
<1>1. Line!Ack \in Chars /\ Line!Nak \in Chars
  BY DEF Line!Ack, Line!Nak, Chars
<1>2. <<Line!Ack>> \in Pieces /\ <<Line!Nak>> \in Pieces
  BY <1>1 DEF Pieces
<1>3. NoAck(<<Line!Nak>>)
  BY DEF NoAck, Line!Nak
<1>4. QED BY <1>2, <1>3 DEF Line!Ack

\* Something is sent behind.
LEMMA AcksMore ==
  ASSUME NEW ins \in Seq(Pieces), NEW f \in Pieces, NEW due
  PROVE  /\ Append(ins, f) \in Seq(Pieces) /\ Append(ins, f) # <<>>
         /\ NoAcks(ins) /\ NoAck(f) => NoAcks(Append(ins, f))
         /\ NoAcks(ins) /\ f = <<Line!Ack>> => AckLast(Append(ins, f))
         /\ AckLast(ins) /\ f \in Frames(due) => AckThen(Append(ins, f), due)
         /\ AckThen(ins, due) /\ f \in Frames(due) => AckThen(Append(ins, f), due)
<1> DEFINE more == Append(ins, f)
<1>1. /\ Len(more) = Len(ins) + 1 /\ \A i \in 1 .. Len(ins) : more[i] = ins[i]
      /\ more[Len(ins) + 1] = f /\ Len(ins) \in Nat /\ more # <<>> /\ more \in Seq(Pieces)
  BY AppendProperties, LenProperties
<1> HIDE DEF more
<1>2. \A i \in 1 .. Len(more) : i \in 1 .. Len(ins) \/ i = Len(ins) + 1
  BY <1>1
<1>3. ASSUME NoAcks(ins), NoAck(f) PROVE NoAcks(more)
  BY <1>1, <1>2, <1>3 DEF NoAcks
<1>4. ASSUME NoAcks(ins), f = <<Line!Ack>> PROVE AckLast(more)
  <2>1. Len(more) - 1 = Len(ins)
    BY <1>1
  <2>2. QED BY <1>1, <1>4, <2>1 DEF NoAcks, AckLast
<1>5. ASSUME AckLast(ins), f \in Frames(due) PROVE AckThen(more, due)
  <2>1. Len(ins) >= 1
    BY <1>5, TailIs DEF AckLast
  <2>2. AckAt(more, Len(ins), due)
    <3>1. more[Len(ins)] = <<Line!Ack>>
      BY <1>1, <1>5, <2>1 DEF AckLast
    <3>2. ASSUME NEW i \in 1 .. Len(more)
          PROVE  /\ i < Len(ins) => NoAck(more[i])
                 /\ i > Len(ins) => more[i] \in Frames(due)
      <4>1. CASE i < Len(ins)
        <5>1. i \in 1 .. Len(ins) - 1 /\ i \in 1 .. Len(ins) /\ ~(i > Len(ins))
          BY <1>1, <4>1
        <5>2. QED BY <1>1, <1>5, <5>1 DEF AckLast
      <4>2. CASE ~(i < Len(ins))
        <5>1. i > Len(ins) => i = Len(ins) + 1
          BY <1>1
        <5>2. QED BY <1>1, <1>5, <4>2, <5>1
      <4>3. QED BY <4>1, <4>2
    <3>3. QED BY <3>1, <3>2 DEF AckAt
  <2>3. Len(ins) \in 1 .. Len(more)
    BY <1>1, <2>1
  <2>4. QED BY <2>2, <2>3 DEF AckThen
<1>6. ASSUME AckThen(ins, due), f \in Frames(due) PROVE AckThen(more, due)
  <2>1. PICK j \in 1 .. Len(ins) : AckAt(ins, j, due)
    BY <1>6 DEF AckThen
  <2>2. j \in 1 .. Len(more) /\ Len(ins) + 1 > j /\ ~(Len(ins) + 1 < j)
    BY <1>1
  <2>3. AckAt(more, j, due)
    BY <1>1, <1>2, <1>6, <2>1, <2>2 DEF AckAt
  <2>4. QED BY <2>2, <2>3 DEF AckThen
<1>7. QED BY <1>1, <1>3, <1>4, <1>5, <1>6 DEF more

\* A character is read of it.
LEMMA AcksRead ==
  ASSUME NEW ins \in Seq(Pieces), ins # <<>>, NEW due, NEW more, NEW c, c = Head(Head(ins)),
         more = Remaining(ins)
  PROVE  /\ more \in Seq(Pieces)
         /\ NoAcks(ins) => c.kind # "+" /\ NoAcks(more)
         /\ AckLast(ins) => IF c.kind = "+" THEN more = <<>> ELSE AckLast(more)
         /\ AckThen(ins, due) => IF c.kind = "+" THEN Follow(more, 1, due) ELSE AckThen(more, due)
<1>1. /\ Len(ins) \in Nat /\ Len(ins) >= 1 /\ Len(ins[1]) \in Nat /\ Len(ins[1]) >= 1
      /\ c = ins[1][1] /\ more \in Seq(Pieces)
  <2>1. /\ Len(ins) \in Nat /\ Len(ins) >= 1 /\ Len(ins[1]) \in Nat /\ Len(ins[1]) >= 1
        /\ Head(Head(ins)) = ins[1][1] /\ more \in Seq(Pieces)
    BY ReadsOne
  <2>2. QED BY <2>1
\* Either the first piece is gone, or a part of it is left.
<1> DEFINE Gone == /\ Len(ins[1]) = 1 /\ Len(more) = Len(ins) - 1
                   /\ \A i \in 1 .. Len(ins) - 1 : more[i] = ins[i + 1]
           Left == /\ Len(ins[1]) > 1 /\ Len(more) = Len(ins)
                   /\ \A i \in 2 .. Len(ins) : more[i] = ins[i]
                   /\ NoAck(ins[1]) => NoAck(more[1])
<1>2. \/ Gone
      \/ /\ Len(ins[1]) > 1 /\ Len(more) = Len(ins)
         /\ Len(more[1]) = Len(ins[1]) - 1
         /\ \A i \in 1 .. Len(ins[1]) - 1 : more[1][i] = ins[1][i + 1]
         /\ \A i \in 2 .. Len(ins) : more[i] = ins[i]
  BY ReadsOne
<1>3. Gone \/ Left
  <2>1. ASSUME /\ Len(more[1]) = Len(ins[1]) - 1
               /\ \A i \in 1 .. Len(ins[1]) - 1 : more[1][i] = ins[1][i + 1],
               NoAck(ins[1])
        PROVE  NoAck(more[1])
    <3>1. SUFFICES ASSUME NEW i \in 1 .. Len(more[1]) PROVE more[1][i].kind # "+"
      BY DEF NoAck
    <3>2. i \in 1 .. Len(ins[1]) - 1 /\ i + 1 \in 1 .. Len(ins[1])
      BY <1>2, <2>1
    <3>3. QED BY <2>1, <3>2 DEF NoAck
  <2>2. QED BY <1>2, <2>1
<1>4. ASSUME NoAck(ins[1]) PROVE c.kind # "+"
  <2>1. 1 \in 1 .. Len(ins[1])
    BY <1>1
  <2>2. QED BY <1>1, <1>4, <2>1 DEF NoAck
<1>5. ASSUME ins[1] = <<Line!Ack>> PROVE c.kind = "+" /\ Gone
  BY <1>1, <1>3, <1>5, AckIs
<1>6. 1 \in 1 .. Len(ins)
  BY <1>1
<1>7. ASSUME NoAcks(ins) PROVE c.kind # "+" /\ NoAcks(more)
  <2>1. NoAck(ins[1])
    BY <1>6, <1>7 DEF NoAcks
  <2>2. ASSUME NEW i \in 1 .. Len(more) PROVE NoAck(more[i])
    <3>1. CASE Gone
      <4>1. i \in 1 .. Len(ins) - 1 /\ i + 1 \in 1 .. Len(ins)
        BY <1>1, <3>1
      <4>2. QED BY <1>7, <3>1, <4>1 DEF NoAcks
    <3>2. CASE Left
      <4>1. i = 1 \/ (i \in 2 .. Len(ins) /\ i \in 1 .. Len(ins))
        BY <1>1, <3>2
      <4>2. QED BY <1>7, <2>1, <3>2, <4>1 DEF NoAcks
    <3>3. QED BY <1>3, <3>1, <3>2
  <2>3. QED BY <1>4, <2>1, <2>2 DEF NoAcks
<1>8. ASSUME AckLast(ins) PROVE IF c.kind = "+" THEN more = <<>> ELSE AckLast(more)
  <2>1. CASE Len(ins) = 1
    <3>1. ins[1] = <<Line!Ack>>
      BY <1>8, <2>1 DEF AckLast
    <3>2. c.kind = "+" /\ Len(more) = 0
      BY <1>1, <1>5, <2>1, <3>1
    <3>3. more = <<>>
      BY <1>1, <3>2, EmptySeq
    <3>4. QED BY <3>2, <3>3
  <2>2. CASE Len(ins) # 1
    <3>1. 1 \in 1 .. Len(ins) - 1 /\ Len(ins) >= 2
      <4>1. Len(ins) \in Nat /\ Len(ins) >= 1 /\ Len(ins) # 1
        BY <1>1, <2>2
      <4> DEFINE n == Len(ins)
      <4>2. n \in Nat /\ n >= 1 /\ n # 1
        BY <4>1
      <4> HIDE DEF n
      <4>3. 1 \in 1 .. n - 1 /\ n >= 2
        BY <4>2
      <4>4. QED BY <4>3 DEF n
    <3>2. NoAck(ins[1]) /\ ins[Len(ins)] = <<Line!Ack>> /\ \A i \in 1 .. Len(ins) - 1 : NoAck(ins[i])
      BY <1>8, <3>1 DEF AckLast
    <3>3. c.kind # "+"
      BY <1>4, <3>2
    <3>4. CASE Gone
      <4>1. /\ Len(more) >= 1 /\ Len(more) \in 1 .. Len(ins) - 1 /\ Len(more) + 1 = Len(ins)
            /\ \A i \in 1 .. Len(more) - 1 : i \in 1 .. Len(ins) - 1 /\ i + 1 \in 1 .. Len(ins) - 1
        BY <1>1, <3>1, <3>4
      <4>2. more # <<>>
        BY <4>1, EmptySeq
      <4>3. more[Len(more)] = <<Line!Ack>> /\ \A i \in 1 .. Len(more) - 1 : NoAck(more[i])
        BY <3>2, <3>4, <4>1
      <4>4. QED BY <3>3, <4>2, <4>3 DEF AckLast
    <3>5. CASE Left
      <4>1. /\ Len(more) >= 1 /\ Len(more) \in 2 .. Len(ins)
            /\ \A i \in 1 .. Len(more) - 1 : i = 1 \/ (i \in 2 .. Len(ins) /\ i \in 1 .. Len(ins) - 1)
        BY <1>1, <3>1, <3>5
      <4>2. more # <<>>
        BY <4>1, EmptySeq
      <4>3. more[Len(more)] = <<Line!Ack>> /\ \A i \in 1 .. Len(more) - 1 : NoAck(more[i])
        BY <3>2, <3>5, <4>1
      <4>4. QED BY <3>3, <4>2, <4>3 DEF AckLast
    <3>6. QED BY <1>3, <3>4, <3>5
  <2>3. QED BY <2>1, <2>2
<1>9. ASSUME AckThen(ins, due)
      PROVE  IF c.kind = "+" THEN Follow(more, 1, due) ELSE AckThen(more, due)
  <2>1. PICK j \in 1 .. Len(ins) : AckAt(ins, j, due)
    BY <1>9 DEF AckThen
  <2>2. CASE j = 1
    <3>1. ins[1] = <<Line!Ack>>
      BY <2>1, <2>2 DEF AckAt
    <3>2. c.kind = "+" /\ Gone
      BY <1>5, <3>1
    <3>3. ASSUME NEW i \in 1 .. Len(more) PROVE more[i] \in Frames(due)
      <4>1. i \in 1 .. Len(ins) - 1 /\ i + 1 \in 1 .. Len(ins) /\ i + 1 > 1
        BY <1>1, <3>2
      <4>2. QED BY <2>1, <2>2, <3>2, <4>1 DEF AckAt
    <3>4. QED BY <3>2, <3>3 DEF Follow
  <2>3. CASE j # 1
    <3>1. NoAck(ins[1])
      <4>1. 1 < j
        BY <1>1, <2>3
      <4>2. QED BY <1>6, <2>1, <4>1 DEF AckAt
    <3>2. c.kind # "+"
      BY <1>4, <3>1
    <3>3. CASE Gone
      <4>1. j - 1 \in 1 .. Len(more) /\ j - 1 \in 1 .. Len(ins) - 1 /\ (j - 1) + 1 = j
        BY <1>1, <2>3, <3>3
      <4>2. \A i \in 1 .. Len(more) : /\ i \in 1 .. Len(ins) - 1 /\ i + 1 \in 1 .. Len(ins)
                                      /\ i < j - 1 => i + 1 < j
                                      /\ i > j - 1 => i + 1 > j
        BY <1>1, <3>3
      <4>3. AckAt(more, j - 1, due)
        <5>1. more[j - 1] = <<Line!Ack>>
          BY <2>1, <3>3, <4>1 DEF AckAt
        <5>2. ASSUME NEW i \in 1 .. Len(more)
              PROVE  /\ i < j - 1 => NoAck(more[i])
                     /\ i > j - 1 => more[i] \in Frames(due)
          <6>1. more[i] = ins[i + 1] /\ i + 1 \in 1 .. Len(ins)
            BY <3>3, <4>2
          <6>2. /\ i + 1 < j => NoAck(ins[i + 1])
                /\ i + 1 > j => ins[i + 1] \in Frames(due)
            BY <2>1, <6>1 DEF AckAt
          <6>3. QED BY <4>2, <6>1, <6>2
        <5>3. QED BY <5>1, <5>2 DEF AckAt
      <4>4. QED BY <3>2, <4>1, <4>3 DEF AckThen
    <3>4. CASE Left
      <4>1. j \in 1 .. Len(more) /\ j \in 2 .. Len(ins) /\ ~(1 > j)
        BY <1>1, <2>3, <3>4
      <4>2. \A i \in 1 .. Len(more) : i = 1 \/ (i \in 2 .. Len(ins) /\ i \in 1 .. Len(ins))
        BY <1>1, <3>4
      <4>3. AckAt(more, j, due)
        BY <2>1, <3>1, <3>4, <4>1, <4>2 DEF AckAt
      <4>4. QED BY <3>2, <4>1, <4>3 DEF AckThen
    <3>5. QED BY <1>3, <3>3, <3>4
  <2>4. QED BY <2>2, <2>3
<1>10. QED BY <1>1, <1>7, <1>8, <1>9

-----------------------------------------------------------------------------
(* What is on its way to gdb: replies to the last packet, no                *)
(* acknowledgement, or one with nothing but such replies behind it.         *)

Answers == [kind : {"+", "-", "reply"}, val : Nat]
Replies(outs, n) == \A i \in 1 .. Len(outs) : outs[i] = Line!Reply(n)
Unacked(outs) == \A i \in 1 .. Len(outs) : outs[i].kind # "+"
AckedAt(outs, j, n) ==
  /\ outs[j].kind = "+"
  /\ \A i \in 1 .. Len(outs) : /\ i < j => outs[i].kind # "+"
                               /\ i > j => outs[i] = Line!Reply(n)
Acked(outs, n) == \E j \in 1 .. Len(outs) : AckedAt(outs, j, n)

\* The stub acknowledges or asks again.
LEMMA OutAppend ==
  ASSUME NEW outs \in Seq(Answers), NEW n, Unacked(outs)
  PROVE  /\ Append(outs, Line!Ack) \in Seq(Answers) /\ Acked(Append(outs, Line!Ack), n)
         /\ Append(outs, Line!Nak) \in Seq(Answers) /\ Unacked(Append(outs, Line!Nak))
<1>1. /\ Line!Ack \in Answers /\ Line!Nak \in Answers /\ Len(outs) \in Nat
      /\ Line!Ack.kind = "+" /\ Line!Nak.kind # "+"
  BY LenProperties DEF Line!Ack, Line!Nak, Answers
<1> DEFINE a == Append(outs, Line!Ack)
           b == Append(outs, Line!Nak)
<1>2. /\ a \in Seq(Answers) /\ Len(a) = Len(outs) + 1 /\ \A i \in 1 .. Len(outs) : a[i] = outs[i]
      /\ a[Len(outs) + 1] = Line!Ack
      /\ b \in Seq(Answers) /\ Len(b) = Len(outs) + 1 /\ \A i \in 1 .. Len(outs) : b[i] = outs[i]
      /\ b[Len(outs) + 1] = Line!Nak
  BY <1>1, AppendProperties
<1> HIDE DEF a, b
<1>3. \A i \in 1 .. Len(outs) + 1 : i \in 1 .. Len(outs) \/ i = Len(outs) + 1
  BY <1>1
<1>4. Unacked(b)
  BY <1>1, <1>2, <1>3 DEF Unacked
<1>5. Acked(a, n)
  <2>1. /\ Len(outs) + 1 \in 1 .. Len(a)
        /\ \A i \in 1 .. Len(a) : /\ i < Len(outs) + 1 => i \in 1 .. Len(outs)
                                  /\ ~(i > Len(outs) + 1)
    BY <1>1, <1>2
  <2>2. AckedAt(a, Len(outs) + 1, n)
    BY <1>1, <1>2, <2>1 DEF AckedAt, Unacked
  <2>3. QED BY <2>1, <2>2 DEF Acked
<1>6. QED BY <1>2, <1>4, <1>5 DEF a, b

\* The stub writes replies.
LEMMA OutMore ==
  ASSUME NEW outs \in Seq(Answers), NEW more \in Seq(Answers), NEW n, Replies(more, n)
  PROVE  /\ outs \o more \in Seq(Answers)
         /\ Replies(outs, n) => Replies(outs \o more, n)
         /\ Unacked(outs) => Unacked(outs \o more)
         /\ Acked(outs, n) => Acked(outs \o more, n)
<1> DEFINE all == outs \o more
<1>1. /\ all \in Seq(Answers) /\ Len(all) = Len(outs) + Len(more)
      /\ Len(outs) \in Nat /\ Len(more) \in Nat
      /\ \A i \in 1 .. Len(outs) + Len(more) : all[i] = IF i <= Len(outs) THEN outs[i] ELSE more[i - Len(outs)]
  BY ConcatProperties, LenProperties
<1> HIDE DEF all
<1>2. ASSUME NEW i \in 1 .. Len(all)
      PROVE  (i \in 1 .. Len(outs) /\ all[i] = outs[i])
             \/ (i > Len(outs) /\ all[i] = Line!Reply(n))
  <2>1. CASE i <= Len(outs)
    BY <1>1, <2>1
  <2>2. CASE ~(i <= Len(outs))
    <3>1. i - Len(outs) \in 1 .. Len(more) /\ i > Len(outs) /\ all[i] = more[i - Len(outs)]
      BY <1>1, <2>2
    <3>2. QED BY <3>1 DEF Replies
  <2>3. QED BY <2>1, <2>2
<1>3. Line!Reply(n).kind # "+"
  BY DEF Line!Reply
<1>4. Replies(outs, n) => Replies(all, n)
  BY <1>2 DEF Replies
<1>5. Unacked(outs) => Unacked(all)
  BY <1>2, <1>3 DEF Unacked
<1>6. Acked(outs, n) => Acked(all, n)
  <2>1. SUFFICES ASSUME NEW j \in 1 .. Len(outs), AckedAt(outs, j, n) PROVE Acked(all, n)
    BY DEF Acked
  <2>2. j \in 1 .. Len(all) /\ all[j] = outs[j] /\ \A i \in 1 .. Len(all) : i > Len(outs) => ~(i < j)
    BY <1>1
  <2>3. AckedAt(all, j, n)
    BY <1>2, <2>1, <2>2 DEF AckedAt
  <2>4. QED BY <2>2, <2>3 DEF Acked
<1>7. QED BY <1>1, <1>4, <1>5, <1>6 DEF all

\* gdb takes what came first.
LEMMA OutTail ==
  ASSUME NEW outs \in Seq(Answers), outs # <<>>, NEW n
  PROVE  /\ Tail(outs) \in Seq(Answers) /\ Head(outs) = outs[1] /\ 1 \in 1 .. Len(outs)
         /\ Replies(outs, n) => Replies(Tail(outs), n) /\ Head(outs) = Line!Reply(n)
         /\ Unacked(outs) => Unacked(Tail(outs)) /\ Head(outs).kind # "+"
         /\ Acked(outs, n) => IF Head(outs).kind = "+" THEN Replies(Tail(outs), n)
                              ELSE Acked(Tail(outs), n)
<1> DEFINE more == Tail(outs)
<1>1. /\ Len(outs) \in Nat /\ Len(outs) >= 1 /\ Head(outs) = outs[1]
      /\ more \in Seq(Answers) /\ Len(more) = Len(outs) - 1
      /\ \A i \in 1 .. Len(outs) - 1 : more[i] = outs[i + 1]
  BY TailIs
<1> HIDE DEF more
<1>2. /\ 1 \in 1 .. Len(outs)
      /\ \A i \in 1 .. Len(more) : /\ i + 1 \in 1 .. Len(outs) /\ more[i] = outs[i + 1]
                                   /\ i + 1 > 1
  BY <1>1
<1>3. Replies(outs, n) => Replies(more, n) /\ Head(outs) = Line!Reply(n)
  BY <1>1, <1>2 DEF Replies
<1>4. Unacked(outs) => Unacked(more) /\ Head(outs).kind # "+"
  BY <1>1, <1>2 DEF Unacked
<1>5. ASSUME NEW j \in 1 .. Len(outs), AckedAt(outs, j, n)
      PROVE  IF Head(outs).kind = "+" THEN Replies(more, n) ELSE Acked(more, n)
  <2>1. CASE j = 1
    BY <1>1, <1>2, <1>5, <2>1 DEF AckedAt, Replies
  <2>2. CASE j # 1
    <3>1. Head(outs).kind # "+"
      <4>1. 1 < j
        BY <1>1, <2>2
      <4>2. QED BY <1>1, <1>2, <1>5, <4>1 DEF AckedAt
    <3>2. /\ j - 1 \in 1 .. Len(more) /\ (j - 1) + 1 = j
          /\ \A i \in 1 .. Len(more) : /\ i < j - 1 => i + 1 < j
                                       /\ i > j - 1 => i + 1 > j
      BY <1>1, <2>2
    <3>3. AckedAt(more, j - 1, n)
      <4>1. more[j - 1].kind = "+"
        BY <1>2, <1>5, <3>2 DEF AckedAt
      <4>2. ASSUME NEW i \in 1 .. Len(more)
            PROVE  /\ i < j - 1 => more[i].kind # "+"
                   /\ i > j - 1 => more[i] = Line!Reply(n)
        <5>1. more[i] = outs[i + 1] /\ i + 1 \in 1 .. Len(outs)
          BY <1>2
        <5>2. /\ i + 1 < j => outs[i + 1].kind # "+"
              /\ i + 1 > j => outs[i + 1] = Line!Reply(n)
          BY <1>5, <5>1 DEF AckedAt
        <5>3. QED BY <3>2, <5>1, <5>2
      <4>3. QED BY <4>1, <4>2 DEF AckedAt
    <3>4. QED BY <3>1, <3>2, <3>3 DEF Acked
  <2>3. QED BY <2>1, <2>2
<1>6. QED BY <1>1, <1>2, <1>3, <1>4, <1>5 DEF Acked, more

-----------------------------------------------------------------------------
(* The invariant. *)

PacketTyped ==
  /\ in \in Seq(Pieces) /\ out \in Seq(Answers) /\ stub \in Stubs
  /\ Len(stub.buffer) < MaxBuf /\ frames \in Nat
  /\ gdb \in [at : {"idle", "sent", "reply"}, sent : Seq(Commands)]
  /\ executed \in Seq(Seq(Byte)) /\ answers \in Seq(Nat)

Sent == Len(gdb.sent)
Done == Len(executed)
Due  == gdb.sent[Sent]

\* The stub is at most one packet behind, and all that was answered was in step.
Counts ==
  /\ Done = Sent \/ (gdb.at = "sent" /\ Done = Sent - 1)
  /\ gdb.at # "idle" => Sent >= 1
  /\ \A i \in 1 .. Done : executed[i] = gdb.sent[i]
  /\ Len(answers) = IF gdb.at = "idle" THEN Sent ELSE Sent - 1
  /\ \A i \in 1 .. Len(answers) : answers[i] = i

\* An acknowledgement is on its way when the packet was executed and gdb does not
\* know it.
Outward ==
  /\ gdb.at # "sent" => Replies(out, Sent)
  /\ (gdb.at = "sent" /\ Done = Sent - 1) => Unacked(out)
  /\ (gdb.at = "sent" /\ Done = Sent) => Acked(out, Sent)

\* While a reply is out, gdb's acknowledgement of it is the only one on its way,
\* before all frames of the next packet, and so it stays when the reply has run over
\* outputbuffer; otherwise the stub has read a part of a
\* frame of the packet gdb waits for, and only such frames follow.
Busy == stub.at \in {"reply", "ack", "lost"}
Inward ==
  /\ (Busy /\ gdb.at = "idle") => AckLast(in)
  /\ (Busy /\ Done = Sent - 1) => AckThen(in, Due)
  /\ (Busy /\ gdb.at # "idle" /\ Done = Sent) => NoAcks(in)
  /\ (~Busy /\ Done = Sent) => gdb.at = "idle" /\ in = <<>> /\ stub = Line!Scanning
  /\ (~Busy /\ Done = Sent - 1) => Hunts(in, stub, Due)

PacketInv == PacketTyped /\ Counts /\ Outward /\ Inward

\* Numbers of packets, and the one that is due.
LEMMA SentIs ==
  ASSUME PacketTyped
  PROVE  /\ Sent \in Nat /\ Done \in Nat /\ Len(answers) \in Nat
         /\ Sent >= 1 => Due \in Commands /\ Due \in Seq(Byte) /\ Len(Due) \in Nat
         /\ gdb.sent \in Seq(Commands)
<1>1. gdb.sent \in Seq(Commands)
  BY DEF PacketTyped
<1>2. Sent \in Nat /\ Done \in Nat /\ Len(answers) \in Nat
  BY <1>1, LenProperties DEF PacketTyped, Sent, Done
<1>3. ASSUME Sent >= 1 PROVE Due \in Commands /\ Due \in Seq(Byte) /\ Len(Due) \in Nat
  <2>1. Due \in Commands
    BY <1>1, <1>2, <1>3, ElementOfSeq DEF Due, Sent
  <2>2. QED BY <2>1, PacketConstants, LenProperties
<1>4. QED BY <1>1, <1>2, <1>3

\* gdb's packets stay.
LEMMA GdbStays == UNCHANGED gdb => Sent' = Sent /\ Due' = Due
BY DEF Sent, Due

LEMMA CountsStay == ASSUME Counts, UNCHANGED <<gdb, executed, answers>> PROVE Counts'
BY DEF Counts, Sent, Done

LEMMA OutwardStays == ASSUME Outward, UNCHANGED <<gdb, executed, out>> PROVE Outward'
BY DEF Outward, Sent, Done

\* A stub that reads a packet, and one that has executed it.
LEMMA StubReads ==
  ASSUME PacketInv, ~Busy, in # <<>>
  PROVE  /\ Done = Sent - 1 /\ gdb.at = "sent" /\ Sent >= 1 /\ Due \in Seq(Byte)
         /\ Due \in Commands /\ Hunts(in, stub, Due)
<1>1. Done = Sent - 1 /\ gdb.at = "sent"
  BY DEF PacketInv, Counts, Inward
<1>2. Sent >= 1
  BY <1>1 DEF PacketInv, Counts
<1>3. QED BY <1>1, <1>2, SentIs DEF PacketInv, Inward

\* getDebugChar, as the lemmas above have it.
LEMMA GetsChar ==
  ASSUME PacketTyped, Line!getDebugChar
  PROVE  /\ in \in Seq(Pieces) /\ in # <<>> /\ in' \in Seq(Pieces)
         /\ in' = Remaining(in)
         /\ Line!Char = Head(Head(in))
<1>1. /\ in \in Seq(Pieces) /\ in # <<>>
      /\ in' = Remaining(in)
  BY DEF PacketTyped, Line!getDebugChar, Remaining
<1>2. QED BY <1>1, AcksRead DEF Line!Char

\* What a stub that hunts reads next.
LEMMA StubGets ==
  ASSUME PacketInv, ~Busy, Line!getDebugChar
  PROVE  /\ Done = Sent - 1 /\ gdb.at = "sent" /\ Sent >= 1 /\ Due \in Seq(Byte)
         /\ Due \in Commands /\ in' \in Seq(Pieces) /\ stub \in Stubs /\ Len(Due) \in Nat
         /\ \E v \in Variants(Due) : \E p \in 1 .. Len(Due) + 3 :
              /\ ReadTo(stub, v, p) /\ Line!Char = FrameOf(v, Due)[p]
              /\ Len(v) = Len(Due) /\ v \in Seq(Byte)
              /\ \/ /\ p < Len(Due) + 3 /\ Follow(in', 2, Due)
                    /\ in' # <<>> /\ RestOf(in'[1], FrameOf(v, Due), p + 1)
                 \/ p = Len(Due) + 3 /\ Follow(in', 1, Due)
<1>1. /\ in \in Seq(Pieces) /\ in # <<>> /\ in' \in Seq(Pieces)
      /\ in' = Remaining(in)
      /\ Line!Char = Head(Head(in))
  BY GetsChar DEF PacketInv
<1>2. /\ Done = Sent - 1 /\ gdb.at = "sent" /\ Sent >= 1 /\ Due \in Seq(Byte)
      /\ Due \in Commands /\ Hunts(in, stub, Due)
  BY <1>1, StubReads
<1>3. PICK v \in Variants(Due), p \in 1 .. Len(Due) + 3 :
        /\ ReadTo(stub, v, p) /\ Head(Head(in)) = FrameOf(v, Due)[p]
        /\ \/ /\ p < Len(Due) + 3 /\ Follow(in', 2, Due)
              /\ in' # <<>> /\ RestOf(in'[1], FrameOf(v, Due), p + 1)
           \/ p = Len(Due) + 3 /\ Follow(in', 1, Due)
  BY <1>1, <1>2, HuntsRead
<1>4. Len(v) = Len(Due) /\ v \in Seq(Byte) /\ Len(Due) \in Nat
  BY <1>2, VariantsAre
<1>5. stub \in Stubs
  BY DEF PacketInv, PacketTyped
<1>6. QED BY <1>1, <1>2, <1>3, <1>4, <1>5

\* The stub goes on with what it reads: gdb, and what is on its way there, stay.
LEMMA StillHunts ==
  ASSUME PacketInv, Done = Sent - 1, gdb.at = "sent", UNCHANGED <<gdb, executed, answers>>,
         in' \in Seq(Pieces), stub' \in Stubs, stub'.at \in {"start", "data", "sum"},
         Len(stub'.buffer) < MaxBuf, frames' = frames,
         Hunts(in', stub', Due), out' \in Seq(Answers), Unacked(out')
  PROVE  PacketInv'
<1>1. Sent \in Nat /\ Done \in Nat
  BY SentIs DEF PacketInv
<1>2. Sent' = Sent /\ Due' = Due /\ Done' = Done
  BY GdbStays DEF Done
<1>3. PacketTyped'
  BY DEF PacketInv, PacketTyped
<1>4. Counts'
  BY CountsStay DEF PacketInv
<1>5. Outward'
  BY <1>1, <1>2 DEF Outward
<1>6. ~Busy'
  BY DEF Busy
<1>7. Inward'
  BY <1>1, <1>2, <1>6 DEF Inward
<1>8. QED BY <1>3, <1>4, <1>5, <1>7 DEF PacketInv

\* The stub starts again.
LEMMA ScanningIs == /\ Line!Scanning \in Stubs /\ Len(Line!Scanning.buffer) < MaxBuf
                    /\ Line!Scanning.at = "start"
<1>1. <<>> \in Seq(Byte) /\ Len(<<>>) = 0
  BY EmptySeq
<1>2. QED BY <1>1, PacketConstants DEF Line!Scanning, Stubs

LEMMA SeekKeeps == ASSUME PacketInv, Line!Seek PROVE PacketInv'
<1>1. /\ Line!getDebugChar /\ stub.at = "start" /\ ~Busy
      /\ stub' = IF Line!Char.kind = "$" THEN [Line!Scanning EXCEPT !.at = "data"] ELSE stub
      /\ UNCHANGED <<out, frames, executed, gdb, answers>>
  BY DEF Line!Seek, Busy
<1>2. /\ Done = Sent - 1 /\ gdb.at = "sent" /\ Sent >= 1 /\ Due \in Seq(Byte)
      /\ Due \in Commands /\ in' \in Seq(Pieces) /\ stub \in Stubs /\ Len(Due) \in Nat
  BY <1>1, StubGets
<1>3. PICK v \in Variants(Due), p \in 1 .. Len(Due) + 3 :
        /\ ReadTo(stub, v, p) /\ Line!Char = FrameOf(v, Due)[p]
        /\ Len(v) = Len(Due) /\ v \in Seq(Byte)
        /\ \/ /\ p < Len(Due) + 3 /\ Follow(in', 2, Due)
              /\ in' # <<>> /\ RestOf(in'[1], FrameOf(v, Due), p + 1)
           \/ p = Len(Due) + 3 /\ Follow(in', 1, Due)
  BY <1>1, StubGets
<1>4. p = 1
  BY <1>1, <1>3 DEF ReadTo
<1>5. Line!Char.kind = "$"
  BY <1>2, <1>3, <1>4, FramesAre DEF Line!Start
<1> DEFINE now == [Line!Scanning EXCEPT !.at = "data"]
<1>6. /\ now.at = "data" /\ now.buffer = <<>> /\ now.checksum = 0 /\ Len(now.buffer) = 0
      /\ now \in Stubs /\ Len(now.buffer) < MaxBuf
  BY ScanningIs, EmptySeq DEF Line!Scanning, Stubs
<1> HIDE DEF now
<1>7. stub' = now
  BY <1>1, <1>5 DEF now
<1>8. ReadTo(now, v, 1 + 1)
  <2>1. Sums(v)[0] = 0
    BY <1>3, SumsAre
  <2>2. 1 + 1 # 1 /\ 1 + 1 <= Len(v) + 2 /\ (1 + 1) - 2 = 0
    BY <1>2, <1>3
  <2>3. QED BY <1>6, <2>1, <2>2 DEF ReadTo
<1>9. Hunts(in', now, Due)
  <2>1. 1 \in 1 .. Len(Due) + 3 /\ 1 < Len(Due) + 3 /\ 1 # Len(Due) + 3
    BY <1>2
  <2>2. Follow(in', 2, Due) /\ in' # <<>> /\ RestOf(in'[1], FrameOf(v, Due), 1 + 1)
    BY <1>3, <1>4, <2>1
  <2>3. QED BY <1>2, <1>8, <2>1, <2>2, HuntsOn
<1>10. out' \in Seq(Answers) /\ Unacked(out')
  BY <1>1, <1>2 DEF PacketInv, PacketTyped, Outward
<1>11. QED BY <1>1, <1>2, <1>6, <1>7, <1>9, <1>10, StillHunts

LEMMA ReadDataKeeps == ASSUME PacketInv, Line!Fit, Line!ReadData PROVE PacketInv'
<1> DEFINE c == Line!Char
           b == Append(stub.buffer, c.val)
           s == (stub.checksum + c.val) % Mod
<1>1. /\ Line!getDebugChar /\ stub.at = "data" /\ ~Busy
      /\ UNCHANGED <<out, frames, gdb, answers>>
  BY DEF Line!ReadData, Busy
<1>2. IF c.kind = "#"
      THEN stub' = [stub EXCEPT !.at = "sum"] /\ UNCHANGED executed
      ELSE Len(b) < MaxBuf => /\ stub' = [at |-> "data", buffer |-> b, checksum |-> s]
                              /\ UNCHANGED executed
  BY DEF Line!ReadData, Line!Added
<1>3. /\ Done = Sent - 1 /\ gdb.at = "sent" /\ Sent >= 1 /\ Due \in Seq(Byte)
      /\ Due \in Commands /\ in' \in Seq(Pieces) /\ stub \in Stubs /\ Len(Due) \in Nat
  BY <1>1, StubGets
<1>4. PICK v \in Variants(Due), p \in 1 .. Len(Due) + 3 :
        /\ ReadTo(stub, v, p) /\ c = FrameOf(v, Due)[p]
        /\ Len(v) = Len(Due) /\ v \in Seq(Byte)
        /\ \/ /\ p < Len(Due) + 3 /\ Follow(in', 2, Due)
              /\ in' # <<>> /\ RestOf(in'[1], FrameOf(v, Due), p + 1)
           \/ p = Len(Due) + 3 /\ Follow(in', 1, Due)
  BY <1>1, StubGets
<1>5. Len(Due) < MaxBuf
  BY <1>3 DEF Line!Fit
<1>6. out' \in Seq(Answers) /\ Unacked(out')
  BY <1>1, <1>3 DEF PacketInv, PacketTyped, Outward
<1>7. p # 1 /\ p <= Len(Due) + 2
  BY <1>1, <1>4 DEF ReadTo
<1>8. p < Len(Due) + 3 /\ Follow(in', 2, Due) /\ in' # <<>> /\ RestOf(in'[1], FrameOf(v, Due), p + 1)
  BY <1>3, <1>4, <1>7
<1> HIDE DEF c, b, s
<1>9. CASE p = Len(Due) + 2
  <2>1. c.kind = "#"
    BY <1>3, <1>4, <1>9, FramesAre DEF Line!End
  <2>2. stub' = [stub EXCEPT !.at = "sum"] /\ UNCHANGED executed
    BY <1>2, <2>1
  <2>3. ReadTo(stub', v, Len(Due) + 3)
    BY <1>3, <1>4, <1>9, <2>2, ReadsEnd
  <2>4. p + 1 = Len(Due) + 3
    BY <1>3, <1>9
  <2>5. Hunts(in', stub', Due)
    BY <1>3, <1>8, <2>3, <2>4, HuntsOn
  <2>6. /\ stub' \in Stubs /\ stub'.at \in {"start", "data", "sum"} /\ stub'.buffer = stub.buffer
    BY <1>3, <2>2 DEF Stubs
  <2>7. Len(stub'.buffer) < MaxBuf
    BY <2>6 DEF PacketInv, PacketTyped
  <2>8. QED BY <1>1, <1>3, <1>6, <2>2, <2>5, <2>6, <2>7, StillHunts
<1>10. CASE p # Len(Due) + 2
  <2>1. p \in Nat /\ 2 <= p /\ p <= Len(Due) + 1 /\ p - 1 \in 1 .. Len(Due) /\ (p - 1) + 1 = p
    BY <1>3, <1>7, <1>10
  <2>2. c = Line!Data(v[p - 1])
    BY <1>3, <1>4, <2>1, FramesAre
  <2>3. c.kind # "#" /\ c.val = v[p - 1]
    BY <2>2 DEF Line!Data
  <2> DEFINE now == [at |-> "data", buffer |-> Append(stub.buffer, v[p - 1]),
                     checksum |-> (stub.checksum + v[p - 1]) % Mod]
  <2>4. /\ ReadTo(now, v, p + 1) /\ now \in Stubs
        /\ Append(stub.buffer, v[p - 1]) \in Seq(Byte) /\ Len(Append(stub.buffer, v[p - 1])) = p - 1
    BY <1>3, <1>4, <2>1, ReadsData
  <2>5. /\ b = Append(stub.buffer, v[p - 1]) /\ s = (stub.checksum + v[p - 1]) % Mod
        /\ now.buffer = b /\ now.at = "data"
    BY <2>3 DEF b, s
  <2>6. Len(b) < MaxBuf
    BY <1>3, <1>5, <2>1, <2>4, <2>5, PacketConstants
  <2>7. stub' = now /\ UNCHANGED executed
    BY <1>2, <2>3, <2>5, <2>6
  <2> HIDE DEF now
  <2>8. Hunts(in', now, Due)
    BY <1>3, <1>8, <2>4, HuntsOn
  <2>9. QED BY <1>1, <1>3, <1>6, <2>4, <2>5, <2>6, <2>7, <2>8, StillHunts
<1>11. QED BY <1>9, <1>10

LEMMA ReadSumKeeps == ASSUME PacketInv, Line!ReadSum PROVE PacketInv'
<1>1. /\ Line!getDebugChar /\ stub.at = "sum" /\ ~Busy
      /\ UNCHANGED <<frames, gdb, answers>>
      /\ IF Line!Char.val = stub.checksum
         THEN /\ out' = Append(out, Line!Ack) /\ executed' = Append(executed, stub.buffer)
              /\ stub' = [Line!Scanning EXCEPT !.at = "reply"]
         ELSE out' = Append(out, Line!Nak) /\ stub' = Line!Scanning /\ UNCHANGED executed
  BY DEF Line!ReadSum, Busy, Line!Matches, Line!Execute
<1>2. /\ Done = Sent - 1 /\ gdb.at = "sent" /\ Sent >= 1 /\ Due \in Seq(Byte)
      /\ Due \in Commands /\ in' \in Seq(Pieces) /\ stub \in Stubs /\ Len(Due) \in Nat
  BY <1>1, StubGets
<1>3. PICK v \in Variants(Due), p \in 1 .. Len(Due) + 3 :
        /\ ReadTo(stub, v, p) /\ Line!Char = FrameOf(v, Due)[p]
        /\ Len(v) = Len(Due) /\ v \in Seq(Byte)
        /\ \/ /\ p < Len(Due) + 3 /\ Follow(in', 2, Due)
              /\ in' # <<>> /\ RestOf(in'[1], FrameOf(v, Due), p + 1)
           \/ p = Len(Due) + 3 /\ Follow(in', 1, Due)
  BY <1>1, StubGets
<1>4. p = Len(Due) + 3 /\ ~(p < Len(Due) + 3)
  BY <1>1, <1>2, <1>3 DEF ReadTo
<1>5. stub.buffer = v /\ stub.checksum = Line!Checksum(v) /\ Follow(in', 1, Due)
  <2>1. ReadTo(stub, v, Len(Due) + 3) /\ Follow(in', 1, Due)
    BY <1>3, <1>4
  <2>2. QED BY <1>2, <2>1, ReadsSum
<1>6. Line!Char.val = Line!Checksum(Due)
  <2>1. FrameOf(v, Due)[Len(Due) + 3] = Line!Sum(Line!Checksum(Due))
    BY <1>2, FramesAre
  <2>2. Line!Char = Line!Sum(Line!Checksum(Due))
    BY <1>3, <1>4, <2>1
  <2>3. QED BY <2>2 DEF Line!Sum
<1>7. v = Due \/ Line!Checksum(v) # Line!Checksum(Due)
  BY <1>2, VariantsAre
<1>8. out \in Seq(Answers) /\ Unacked(out)
  BY <1>2 DEF PacketInv, PacketTyped, Outward
<1>9. CASE Line!Char.val # stub.checksum
  <2>1. Hunts(in', stub', Due)
    BY <1>1, <1>2, <1>5, <1>9, HuntsBegin
  <2>2. out' \in Seq(Answers) /\ Unacked(out')
    BY <1>1, <1>8, <1>9, OutAppend
  <2>3. QED BY <1>1, <1>2, <1>9, <2>1, <2>2, ScanningIs, StillHunts
<1>10. CASE Line!Char.val = stub.checksum
  <2>1. v = Due
    BY <1>5, <1>6, <1>7, <1>10
  <2>2. /\ executed' = Append(executed, Due) /\ out' = Append(out, Line!Ack)
        /\ stub' = [Line!Scanning EXCEPT !.at = "reply"]
    BY <1>1, <1>5, <1>10, <2>1
  <2>3. Sent \in Nat /\ Done \in Nat /\ executed \in Seq(Seq(Byte))
    BY SentIs DEF PacketInv, PacketTyped
  <2>4. /\ executed' \in Seq(Seq(Byte)) /\ Len(executed') = Done + 1
        /\ \A i \in 1 .. Done : executed'[i] = executed[i]
        /\ executed'[Done + 1] = Due
    BY <1>2, <2>2, <2>3, AppendProperties DEF Done
  <2>5. Sent' = Sent /\ Due' = Due /\ Done' = Sent /\ Done + 1 = Sent
    BY <1>1, <1>2, <2>3, <2>4, GdbStays DEF Done
  <2>6. stub'.at = "reply" /\ stub' \in Stubs /\ Len(stub'.buffer) < MaxBuf /\ Busy'
    BY <2>2, ScanningIs DEF Line!Scanning, Stubs, Busy
  <2>7. out' \in Seq(Answers) /\ Acked(out', Sent)
    BY <1>8, <2>2, OutAppend
  <2>8. NoAcks(in')
    <3>1. SUFFICES ASSUME NEW i \in 1 .. Len(in') PROVE NoAck(in'[i])
      BY DEF NoAcks
    <3>2. in'[i] \in Frames(Due)
      BY <1>5 DEF Follow
    <3>3. QED BY <1>2, <3>2, FrameIs
  <2>9. PacketTyped'
    BY <1>1, <1>2, <2>4, <2>6, <2>7 DEF PacketInv, PacketTyped
  <2>10. Counts'
    <3>1. \A i \in 1 .. Sent : executed'[i] = gdb.sent[i]
      <4>1. SUFFICES ASSUME NEW i \in 1 .. Sent PROVE executed'[i] = gdb.sent[i]
        OBVIOUS
      <4>2. i \in 1 .. Done \/ i = Done + 1
        BY <2>3, <2>5
      <4>3. CASE i \in 1 .. Done
        BY <2>4, <4>3 DEF PacketInv, Counts
      <4>4. CASE i = Done + 1
        BY <2>4, <2>5, <4>4 DEF Due
      <4>5. QED BY <4>2, <4>3, <4>4
    <3>2. QED BY <1>1, <1>2, <2>5, <3>1 DEF PacketInv, Counts
  <2>11. Outward'
    BY <1>1, <1>2, <2>3, <2>5, <2>7 DEF Outward
  <2>12. Inward'
    BY <1>1, <1>2, <2>3, <2>5, <2>6, <2>8 DEF Inward
  <2>13. QED BY <2>9, <2>10, <2>11, <2>12 DEF PacketInv
<1>11. QED BY <1>9, <1>10

LEMMA WriteReplyKeeps == ASSUME PacketInv, Line!WriteReply PROVE PacketInv'
<1>1. /\ stub.at = "reply" /\ frames' = frames + 1
      /\ out' = out \o [i \in 1 .. frames' |-> Line!Reply(Done)]
      /\ stub' \in {[Line!Scanning EXCEPT !.at = "ack"], [Line!Scanning EXCEPT !.at = "lost"]}
      /\ UNCHANGED <<in, executed, gdb, answers>>
  BY DEF Line!WriteReply, Line!Written, Done
<1>2. Sent \in Nat /\ Done \in Nat /\ frames' \in Nat
  BY <1>1, SentIs DEF PacketInv, PacketTyped
<1>3. Sent' = Sent /\ Due' = Due /\ Done' = Done
  BY <1>1, GdbStays DEF Done
<1>4. /\ stub' \in Stubs /\ Len(stub'.buffer) < MaxBuf /\ Busy /\ Busy'
  BY <1>1, ScanningIs DEF Line!Scanning, Stubs, Busy
<1> DEFINE k == frames'
           more == [i \in 1 .. k |-> Line!Reply(Done)]
<1>5. /\ more \in Seq(Answers) /\ Len(more) = k
      /\ \A i \in 1 .. k : more[i] = Line!Reply(Done)
  <2>1. Line!Reply(Done) \in Answers
    BY <1>2 DEF Line!Reply, Answers
  <2>2. k \in Nat
    BY <1>2
  <2> HIDE DEF k
  <2>3. QED BY <2>1, <2>2
<1>6. out' = out \o more
  BY <1>1
<1> HIDE DEF k, more
<1>7. Replies(more, Done)
  BY <1>5 DEF Replies
<1>8. out \in Seq(Answers)
  BY DEF PacketInv, PacketTyped
<1>9. /\ out' \in Seq(Answers)
      /\ Replies(out, Done) => Replies(out', Done)
      /\ Unacked(out) => Unacked(out')
      /\ Acked(out, Done) => Acked(out', Done)
  BY <1>5, <1>6, <1>7, <1>8, OutMore
<1>10. PacketTyped'
  BY <1>1, <1>2, <1>4, <1>9 DEF PacketInv, PacketTyped
<1>11. Counts'
  BY <1>1, CountsStay DEF PacketInv
<1>12. Outward'
  <2>1. gdb.at # "sent" => Done = Sent
    BY DEF PacketInv, Counts
  <2>2. QED BY <1>1, <1>3, <1>9, <2>1 DEF PacketInv, Outward
<1>13. Inward'
  BY <1>1, <1>3, <1>4 DEF PacketInv, Inward
<1>14. QED BY <1>10, <1>11, <1>12, <1>13 DEF PacketInv

LEMMA ReadAckKeeps == ASSUME PacketInv, Line!ReadAck PROVE PacketInv'
<1>1. /\ Line!getDebugChar /\ stub.at = "ack" /\ Busy
      /\ UNCHANGED <<out, executed, gdb, answers>>
      /\ IF Line!Char.kind = "+"
         THEN stub' = Line!Scanning /\ frames' = 0
         ELSE stub' = [Line!Scanning EXCEPT !.at = "reply"] /\ UNCHANGED frames
  BY DEF Line!ReadAck, Line!Accepted, Busy
<1>2. Sent \in Nat /\ Done \in Nat
  BY SentIs DEF PacketInv
<1>3. Sent' = Sent /\ Due' = Due /\ Done' = Done
  BY <1>1, GdbStays DEF Done
<1>4. /\ in \in Seq(Pieces) /\ in # <<>> /\ in' \in Seq(Pieces)
      /\ in' = Remaining(in)
      /\ Line!Char = Head(Head(in))
  BY <1>1, GetsChar DEF PacketInv
<1>5. /\ NoAcks(in) => Line!Char.kind # "+" /\ NoAcks(in')
      /\ AckLast(in) => IF Line!Char.kind = "+" THEN in' = <<>> ELSE AckLast(in')
      /\ AckThen(in, Due) => IF Line!Char.kind = "+" THEN Follow(in', 1, Due) ELSE AckThen(in', Due)
  BY <1>4, AcksRead
<1>6. /\ stub' \in Stubs /\ Len(stub'.buffer) < MaxBuf /\ frames' \in Nat
      /\ Busy' <=> Line!Char.kind # "+"
  <2>1. frames \in Nat
    BY DEF PacketInv, PacketTyped
  <2>2. CASE Line!Char.kind = "+"
    <3>1. stub' = Line!Scanning /\ frames' = 0
      BY <1>1, <2>2
    <3>2. QED BY <2>2, <3>1, ScanningIs DEF Busy
  <2>3. CASE Line!Char.kind # "+"
    <3>1. stub' = [Line!Scanning EXCEPT !.at = "reply"] /\ frames' = frames
      BY <1>1, <2>3
    <3>2. stub' \in Stubs /\ Len(stub'.buffer) < MaxBuf /\ stub'.at = "reply"
      BY <3>1, ScanningIs DEF Line!Scanning, Stubs
    <3>3. QED BY <2>1, <2>3, <3>1, <3>2 DEF Busy
  <2>4. QED BY <2>2, <2>3
<1>7. PacketTyped'
  <2>1. UNCHANGED <<out, executed, gdb, answers>> /\ in' \in Seq(Pieces)
    BY <1>1, <1>4
  <2>2. stub' \in Stubs /\ Len(stub'.buffer) < MaxBuf /\ frames' \in Nat
    BY <1>6
  <2>3. QED BY <2>1, <2>2 DEF PacketInv, PacketTyped
<1>8. Counts' /\ Outward'
  BY <1>1, CountsStay, OutwardStays DEF PacketInv
<1>9. /\ gdb.at = "idle" => AckLast(in) /\ Done = Sent
      /\ Done = Sent - 1 => AckThen(in, Due) /\ gdb.at = "sent"
      /\ (gdb.at # "idle" /\ Done = Sent) => NoAcks(in)
      /\ Done = Sent \/ Done = Sent - 1
  BY <1>1, <1>2 DEF PacketInv, Inward, Counts
<1>10. CASE Line!Char.kind = "+"
  <2>1. Done = Sent => gdb.at = "idle" /\ in' = <<>> /\ stub' = Line!Scanning
    BY <1>1, <1>5, <1>9, <1>10
  <2>2. ASSUME Done = Sent - 1 PROVE Hunts(in', stub', Due)
    <3>1. Sent >= 1
      BY <1>2, <2>2
    <3>2. Due \in Seq(Byte)
      BY <3>1, SentIs DEF PacketInv
    <3>3. QED BY <1>1, <1>4, <1>5, <1>9, <1>10, <2>2, <3>2, HuntsBegin
  <2>3. Inward'
    <3>1. ~Busy' /\ gdb' = gdb
      BY <1>1, <1>6, <1>10
    <3>2. QED BY <1>3, <2>1, <2>2, <3>1 DEF Inward
  <2>4. QED BY <1>7, <1>8, <2>3 DEF PacketInv
<1>11. CASE Line!Char.kind # "+"
  <2>1. Inward'
    BY <1>1, <1>3, <1>5, <1>6, <1>9, <1>11 DEF Inward
  <2>2. QED BY <1>7, <1>8, <2>1 DEF PacketInv
<1>12. QED BY <1>10, <1>11

\* A frame arrives, garbled or not.
LEMMA ArrivesIs ==
  ASSUME PacketTyped, NEW data \in Seq(Byte), Line!Arrives(data)
  PROVE  \E f \in Frames(data) : in' = Append(in, f)
<1>1. CASE in' = Append(in, Line!Frame(data))
  <2>1. Line!Frame(data) \in Frames(data)
    BY DEF Line!Frame, Frames, Variants
  <2>2. QED BY <1>1, <2>1
<1>2. ASSUME NEW i \in DOMAIN data, NEW c \in Byte, c # data[i],
             in' = Append(in, Line!Garbled(data, i, c))
      PROVE  \E f \in Frames(data) : in' = Append(in, f)
  <2>1. i \in 1 .. Len(data)
    BY LenProperties
  <2> DEFINE g == [data EXCEPT ![i] = c]
  <2>2. Line!Garbled(data, i, c) = Line!Packet(g, Line!Checksum(data))
    BY DEF Line!Garbled
  <2>3. g \in Variants(data)
    BY <1>2, <2>1, GarbledSum DEF Variants
  <2> HIDE DEF g
  <2>4. Line!Garbled(data, i, c) \in Frames(data)
    BY <2>2, <2>3 DEF Frames
  <2>5. QED BY <1>2, <2>4
<1>3. QED BY <1>1, <1>2 DEF Line!Arrives, Byte

\* gdb sends the packet again, or what it has not sent before.
LEMMA AgainComes ==
  ASSUME PacketInv, gdb.at = "sent", NEW f \in Frames(Due), in' = Append(in, f),
         UNCHANGED <<gdb, stub, executed>>
  PROVE  in' \in Seq(Pieces) /\ Inward'
<1>1. Sent \in Nat /\ Done \in Nat /\ Sent >= 1 /\ Due \in Seq(Byte)
  BY SentIs DEF PacketInv, Counts
<1>2. in \in Seq(Pieces) /\ f \in Pieces /\ NoAck(f)
  BY <1>1, FrameIs DEF PacketInv, PacketTyped
<1>3. /\ in' \in Seq(Pieces)
      /\ NoAcks(in) => NoAcks(in')
      /\ AckThen(in, Due) => AckThen(in', Due)
  BY <1>2, AcksMore
<1>4. Hunts(in, stub, Due) => Hunts(in', stub, Due)
  BY <1>1, <1>2, HuntsMore
<1>5. Sent' = Sent /\ Due' = Due /\ Done' = Done /\ Busy' = Busy
  BY GdbStays DEF Done, Busy
<1>6. Inward'
  BY <1>3, <1>4, <1>5 DEF PacketInv, Inward
<1>7. QED BY <1>3, <1>6

LEMMA SendKeeps == ASSUME PacketInv, Line!Send PROVE PacketInv'
<1>1. PICK data \in Commands :
        gdb' = [at |-> "sent", sent |-> Append(gdb.sent, data)] /\ Line!Arrives(data)
  BY DEF Line!Send
<1>2. gdb.at = "idle" /\ UNCHANGED <<out, stub, frames, executed, answers>>
  BY DEF Line!Send
<1>3. data \in Seq(Byte)
  BY PacketConstants
<1>4. PICK f \in Frames(data) : in' = Append(in, f)
  BY <1>1, <1>3, ArrivesIs DEF PacketInv
<1>5. /\ Sent \in Nat /\ Done \in Nat /\ gdb.sent \in Seq(Commands)
      /\ in \in Seq(Pieces) /\ f \in Pieces /\ Done = Sent /\ Len(answers) = Sent
  BY <1>2, <1>3, SentIs, FrameIs DEF PacketInv, PacketTyped, Counts
<1>6. /\ gdb'.at = "sent" /\ gdb'.sent \in Seq(Commands) /\ Sent' = Sent + 1 /\ Due' = data
      /\ \A i \in 1 .. Sent : gdb'.sent[i] = gdb.sent[i]
  <2>1. gdb'.at = "sent" /\ gdb'.sent = Append(gdb.sent, data)
    BY <1>1
  <2>2. /\ gdb'.sent \in Seq(Commands) /\ Len(gdb'.sent) = Sent + 1
        /\ gdb'.sent[Sent + 1] = data /\ \A i \in 1 .. Sent : gdb'.sent[i] = gdb.sent[i]
    BY <1>5, <2>1, AppendProperties DEF Sent
  <2>3. QED BY <2>1, <2>2 DEF Sent, Due
<1>7. Done' = Done /\ Done' = Sent' - 1 /\ Busy' = Busy
  BY <1>2, <1>5, <1>6 DEF Done, Busy
<1>8. /\ in' \in Seq(Pieces)
      /\ AckLast(in) => AckThen(in', data)
  BY <1>4, <1>5, AcksMore
<1>9. PacketTyped'
  <2>1. gdb' \in [at : {"idle", "sent", "reply"}, sent : Seq(Commands)]
    BY <1>1, <1>6
  <2>2. QED BY <1>2, <1>8, <2>1 DEF PacketInv, PacketTyped
<1>10. Counts'
  <2>1. \A i \in 1 .. Done : executed[i] = gdb'.sent[i]
    BY <1>5, <1>6 DEF PacketInv, Counts
  <2>2. /\ Done' = Sent' - 1 /\ gdb'.at = "sent" /\ Sent' >= 1
        /\ Len(answers') = Sent' - 1 /\ answers' = answers /\ executed' = executed /\ Done' = Done
    BY <1>2, <1>5, <1>6, <1>7
  <2>3. \A i \in 1 .. Len(answers) : answers[i] = i
    BY DEF PacketInv, Counts
  <2>4. QED BY <2>1, <2>2, <2>3 DEF Counts
<1>11. Outward'
  <2>1. Replies(out, Sent)
    BY <1>2 DEF PacketInv, Outward
  <2>2. Unacked(out)
    BY <2>1 DEF Replies, Unacked, Line!Reply
  <2>3. QED BY <1>2, <1>5, <1>6, <1>7, <2>2 DEF Outward
<1>12. Inward'
  <2>1. CASE Busy
    <3>1. AckThen(in', data)
      BY <1>2, <1>8, <2>1 DEF PacketInv, Inward
    <3>2. QED BY <1>5, <1>6, <1>7, <2>1, <3>1 DEF Inward
  <2>2. CASE ~Busy
    <3>1. in = <<>> /\ stub = Line!Scanning
      BY <1>5, <2>2 DEF PacketInv, Inward
    <3>2. Hunts(in, stub, data)
      BY <3>1 DEF Hunts
    <3>3. Hunts(in', stub', data)
      BY <1>2, <1>3, <1>4, <1>5, <3>2, HuntsMore
    <3>4. QED BY <1>5, <1>6, <1>7, <2>2, <3>3 DEF Inward
  <2>3. QED BY <2>1, <2>2
<1>13. QED BY <1>9, <1>10, <1>11, <1>12 DEF PacketInv

\* The last packet gdb sent.
LEMMA LastIsDue ==
  ASSUME PacketInv, gdb.at = "sent"
  PROVE  Line!Last(gdb.sent) = Due /\ Due \in Seq(Byte)
<1>1. Sent >= 1
  BY DEF PacketInv, Counts
<1>2. QED BY <1>1, SentIs DEF PacketInv, Line!Last, Due, Sent

LEMMA AgainKeeps == ASSUME PacketInv, Line!Again PROVE PacketInv'
<1>1. /\ gdb.at = "sent" /\ in' = Append(in, Line!Frame(Due)) /\ Due \in Seq(Byte)
      /\ UNCHANGED <<out, stub, frames, executed, gdb, answers>>
  BY LastIsDue DEF Line!Again
<1>2. Line!Frame(Due) \in Frames(Due)
  BY DEF Line!Frame, Frames, Variants
<1>3. in' \in Seq(Pieces) /\ Inward'
  BY <1>1, <1>2, AgainComes
<1>4. PacketTyped'
  BY <1>1, <1>3 DEF PacketInv, PacketTyped
<1>5. QED BY <1>1, <1>3, <1>4, CountsStay, OutwardStays DEF PacketInv

\* gdb ignores what it takes, or has the packet asked for again.
LEMMA OutwardTails ==
  ASSUME PacketInv, UNCHANGED <<gdb, executed>>, out # <<>>, out' = Tail(out),
         ~(gdb.at = "sent" /\ Head(out).kind = "+")
  PROVE  out' \in Seq(Answers) /\ Outward'
<1>1. out \in Seq(Answers)
  BY DEF PacketInv, PacketTyped
<1>2. /\ out' \in Seq(Answers)
      /\ Replies(out, Sent) => Replies(out', Sent)
      /\ Unacked(out) => Unacked(out')
      /\ Acked(out, Sent) => IF Head(out).kind = "+" THEN Replies(out', Sent) ELSE Acked(out', Sent)
  BY <1>1, OutTail
<1>3. Sent' = Sent /\ Done' = Done
  BY GdbStays DEF Done
<1>4. QED BY <1>2, <1>3 DEF PacketInv, Outward

LEMMA TakeKeeps == ASSUME PacketInv, Line!Take PROVE PacketInv'
<1> DEFINE c == Head(out)
<1>1. /\ out # <<>> /\ out' = Tail(out) /\ UNCHANGED <<stub, frames, executed>>
      /\ \/ /\ gdb.at = "sent" /\ c.kind = "+"
            /\ gdb' = [gdb EXCEPT !.at = "reply"] /\ UNCHANGED <<in, answers>>
         \/ /\ gdb.at = "sent" /\ c.kind = "-"
            /\ Line!Arrives(Line!Last(gdb.sent)) /\ UNCHANGED <<gdb, answers>>
         \/ /\ gdb.at = "reply" /\ c.kind = "reply"
            /\ in' = Append(in, <<Line!Ack>>)
            /\ gdb' = [gdb EXCEPT !.at = "idle"] /\ answers' = Append(answers, c.val)
         \/ /\ gdb.at = "reply" /\ c.kind = "reply"
            /\ in' = Append(in, <<Line!Nak>>) /\ UNCHANGED <<gdb, answers>>
         \/ ~(gdb.at = "sent" /\ c.kind = "+") /\ UNCHANGED <<in, gdb, answers>>
  BY DEF Line!Take
<1>2. Sent \in Nat /\ Done \in Nat /\ Len(answers) \in Nat
  BY SentIs DEF PacketInv
<1>3. /\ in \in Seq(Pieces) /\ out \in Seq(Answers) /\ answers \in Seq(Nat)
      /\ gdb \in [at : {"idle", "sent", "reply"}, sent : Seq(Commands)]
  BY DEF PacketInv, PacketTyped
<1>4. /\ Tail(out) \in Seq(Answers)
      /\ Replies(out, Sent) => Replies(Tail(out), Sent) /\ c = Line!Reply(Sent)
      /\ Unacked(out) => Unacked(Tail(out)) /\ c.kind # "+"
      /\ Acked(out, Sent) => IF c.kind = "+" THEN Replies(Tail(out), Sent) ELSE Acked(Tail(out), Sent)
  BY <1>1, <1>3, OutTail
<1>5. Done' = Done /\ Busy' = Busy
  BY <1>1 DEF Done, Busy
<1> HIDE DEF c
\* gdb has its packet acknowledged.
<1>6. CASE /\ gdb.at = "sent" /\ c.kind = "+"
           /\ gdb' = [gdb EXCEPT !.at = "reply"] /\ UNCHANGED <<in, answers>>
  <2>1. /\ gdb'.at = "reply" /\ gdb'.sent = gdb.sent
        /\ gdb' \in [at : {"idle", "sent", "reply"}, sent : Seq(Commands)]
    BY <1>3, <1>6
  <2>2. Sent' = Sent /\ Due' = Due
    BY <2>1 DEF Sent, Due
  <2>3. Done = Sent /\ Replies(out', Sent)
    BY <1>1, <1>2, <1>4, <1>6 DEF PacketInv, Counts, Outward
  <2>4. PacketTyped'
    BY <1>1, <1>4, <1>6, <2>1 DEF PacketInv, PacketTyped
  <2>5. Counts'
    BY <1>1, <1>5, <1>6, <2>1, <2>2, <2>3 DEF PacketInv, Counts
  <2>6. Outward'
    BY <2>1, <2>2, <2>3 DEF Outward
  <2>7. Inward'
    BY <1>1, <1>2, <1>5, <1>6, <2>1, <2>2, <2>3 DEF PacketInv, Inward
  <2>8. QED BY <2>4, <2>5, <2>6, <2>7 DEF PacketInv
\* It is asked to send again.
<1>7. CASE /\ gdb.at = "sent" /\ c.kind = "-"
           /\ Line!Arrives(Line!Last(gdb.sent)) /\ UNCHANGED <<gdb, answers>>
  <2>1. Line!Arrives(Due) /\ Due \in Seq(Byte)
    BY <1>7, LastIsDue
  <2>2. PICK f \in Frames(Due) : in' = Append(in, f)
    BY <2>1, ArrivesIs DEF PacketInv
  <2>3. in' \in Seq(Pieces) /\ Inward'
    BY <1>1, <1>7, <2>2, AgainComes
  <2>4. out' \in Seq(Answers) /\ Outward'
    BY <1>1, <1>7, OutwardTails DEF c
  <2>5. PacketTyped'
    BY <1>1, <1>7, <2>3, <2>4 DEF PacketInv, PacketTyped
  <2>6. QED BY <1>1, <1>7, <2>3, <2>4, <2>5, CountsStay DEF PacketInv
\* It takes the reply.
<1>8. ASSUME gdb.at = "reply" PROVE /\ Done = Sent /\ Sent >= 1 /\ Busy /\ NoAcks(in) /\ Len(answers) = Sent - 1
                                    /\ Replies(Tail(out), Sent) /\ c.val = Sent
  BY <1>4, <1>8 DEF PacketInv, Counts, Outward, Inward, Line!Reply
<1>9. CASE /\ gdb.at = "reply" /\ c.kind = "reply"
           /\ in' = Append(in, <<Line!Ack>>)
           /\ gdb' = [gdb EXCEPT !.at = "idle"] /\ answers' = Append(answers, c.val)
  <2>1. /\ gdb'.at = "idle" /\ gdb'.sent = gdb.sent
        /\ gdb' \in [at : {"idle", "sent", "reply"}, sent : Seq(Commands)]
    BY <1>3, <1>9
  <2>2. Sent' = Sent /\ Due' = Due
    BY <2>1 DEF Sent, Due
  <2>3. in' \in Seq(Pieces) /\ AckLast(in')
    BY <1>3, <1>8, <1>9, AckIs, AcksMore
  <2>4. /\ answers' \in Seq(Nat) /\ Len(answers') = Sent
        /\ \A i \in 1 .. Sent - 1 : answers'[i] = answers[i]
        /\ answers'[Sent] = Sent
    <3>1. answers' = Append(answers, Sent) /\ (Sent - 1) + 1 = Sent /\ Len(answers) = Sent - 1
      BY <1>2, <1>8, <1>9
    <3>2. QED BY <1>2, <1>3, <3>1, AppendProperties
  <2>5. \A i \in 1 .. Sent : answers'[i] = i
    <3>1. SUFFICES ASSUME NEW i \in 1 .. Sent PROVE answers'[i] = i
      OBVIOUS
    <3>2. i \in 1 .. Sent - 1 \/ i = Sent
      BY <1>2
    <3>3. i \in 1 .. Sent - 1 => answers[i] = i
      BY <1>8, <1>9 DEF PacketInv, Counts
    <3>4. QED BY <2>4, <3>2, <3>3
  <2>6. PacketTyped'
    BY <1>1, <1>4, <2>1, <2>3, <2>4 DEF PacketInv, PacketTyped
  <2>7. Counts'
    BY <1>1, <1>5, <1>8, <1>9, <2>1, <2>2, <2>4, <2>5 DEF PacketInv, Counts
  <2>8. Outward'
    BY <1>1, <1>8, <1>9, <2>1, <2>2 DEF Outward
  <2>9. Inward'
    BY <1>2, <1>5, <1>8, <1>9, <2>1, <2>2, <2>3 DEF Inward
  <2>10. QED BY <2>6, <2>7, <2>8, <2>9 DEF PacketInv
\* It rejects it.
<1>10. CASE /\ gdb.at = "reply" /\ c.kind = "reply"
            /\ in' = Append(in, <<Line!Nak>>) /\ UNCHANGED <<gdb, answers>>
  <2>1. in' \in Seq(Pieces) /\ NoAcks(in')
    BY <1>3, <1>8, <1>10, AckIs, AcksMore
  <2>2. Sent' = Sent /\ Due' = Due
    BY <1>10, GdbStays
  <2>3. out' \in Seq(Answers) /\ Outward'
    BY <1>1, <1>10, OutwardTails DEF c
  <2>4. PacketTyped'
    BY <1>1, <1>10, <2>1, <2>3 DEF PacketInv, PacketTyped
  <2>5. Inward'
    BY <1>2, <1>5, <1>8, <1>10, <2>1, <2>2 DEF Inward
  <2>6. QED BY <1>1, <1>10, <2>3, <2>4, <2>5, CountsStay DEF PacketInv
\* It takes something else.
<1>11. CASE ~(gdb.at = "sent" /\ c.kind = "+") /\ UNCHANGED <<in, gdb, answers>>
  <2>1. out' \in Seq(Answers) /\ Outward'
    BY <1>1, <1>11, OutwardTails DEF c
  <2>2. PacketTyped'
    BY <1>1, <1>11, <2>1 DEF PacketInv, PacketTyped
  <2>3. Sent' = Sent /\ Due' = Due
    BY <1>11, GdbStays
  <2>4. Inward'
    BY <1>1, <1>5, <1>11, <2>3 DEF PacketInv, Inward
  <2>5. QED BY <1>1, <1>11, <2>1, <2>2, <2>4, CountsStay DEF PacketInv
<1>12. QED BY <1>1, <1>6, <1>7, <1>9, <1>10, <1>11

LEMMA PacketsStep ==
  ASSUME Line!Fit, PacketInv, [Line!Next]_packetVars
  PROVE  PacketInv'
<1>1. CASE Line!Next
  BY <1>1, SeekKeeps, ReadDataKeeps, ReadSumKeeps, WriteReplyKeeps, ReadAckKeeps, SendKeeps,
     AgainKeeps, TakeKeeps DEF Line!Next
<1>2. CASE UNCHANGED packetVars
  <2>1. UNCHANGED <<in, out, stub, frames, executed, gdb, answers>>
    BY <1>2 DEF packetVars
  <2>2. Sent' = Sent /\ Due' = Due /\ Done' = Done /\ Busy' = Busy
    BY <2>1, GdbStays DEF Done, Busy
  <2>3. PacketTyped'
    BY <2>1 DEF PacketInv, PacketTyped
  <2>4. Inward'
    BY <2>1, <2>2 DEF PacketInv, Inward
  <2>5. QED BY <2>1, <2>3, <2>4, CountsStay, OutwardStays DEF PacketInv
<1>3. QED BY <1>1, <1>2

LEMMA PacketsStart == ASSUME Line!Init PROVE PacketInv
<1>1. /\ in = <<>> /\ out = <<>> /\ stub = Line!Scanning /\ frames = 0 /\ executed = <<>>
      /\ gdb = [at |-> "idle", sent |-> <<>>] /\ answers = <<>>
  BY DEF Line!Init
<1>2. /\ <<>> \in Seq(Pieces) /\ <<>> \in Seq(Answers) /\ <<>> \in Seq(Commands)
      /\ <<>> \in Seq(Seq(Byte)) /\ <<>> \in Seq(Nat) /\ Len(<<>>) = 0
  BY EmptySeq
<1>3. PacketTyped
  BY <1>1, <1>2, ScanningIs DEF PacketTyped
<1>4. Sent = 0 /\ Done = 0 /\ ~Busy
  BY <1>1, <1>2, ScanningIs DEF Sent, Done, Busy
<1>5. Counts
  BY <1>1, <1>2, <1>4 DEF Counts
<1>6. Outward
  BY <1>1, <1>2 DEF Outward, Replies
<1>7. Inward
  BY <1>1, <1>4 DEF Inward
<1>8. QED BY <1>3, <1>5, <1>6, <1>7 DEF PacketInv

LEMMA PacketsInOrder == ASSUME PacketInv PROVE PacketsOnce
<1>1. Line!TypeOK
  BY DEF PacketInv, PacketTyped, Stubs, Byte, Line!TypeOK
<1>2. Line!ExecutesWhatWasSent
  <2>1. Sent \in Nat /\ Done \in Nat /\ Done <= Sent
    BY SentIs DEF PacketInv, Counts
  <2>2. SubSeq(executed, 1, Done) = SubSeq(gdb.sent, 1, Done)
    <3>1. executed \in Seq(Seq(Byte)) /\ gdb.sent \in Seq(Seq(Byte))
      <4>1. gdb.sent \in Seq(Commands) /\ Commands \subseteq Seq(Byte)
        BY PacketConstants DEF PacketInv, PacketTyped
      <4>2. QED BY <4>1, SeqMonotonic DEF PacketInv, PacketTyped
    <3>2. /\ \A i \in 1 .. Done : executed[i] \in Seq(Byte) /\ gdb.sent[i] \in Seq(Byte)
          /\ 1 \in Int /\ Done \in Int
      <4>1. \A i \in 1 .. Done : executed[i] \in Seq(Byte)
        BY <3>1, ElementOfSeq DEF Done
      <4>2. QED BY <2>1, <4>1 DEF PacketInv, Counts
    <3> DEFINE s == SubSeq(executed, 1, Done)
               t == SubSeq(gdb.sent, 1, Done)
    <3>3. /\ s \in Seq(Seq(Byte)) /\ Len(s) = IF 1 <= Done THEN Done - 1 + 1 ELSE 0
          /\ \A i \in 1 .. Done - 1 + 1 : s[i] = executed[1 + i - 1]
      BY <3>2, SubSeqProperties
    <3>4. /\ t \in Seq(Seq(Byte)) /\ Len(t) = IF 1 <= Done THEN Done - 1 + 1 ELSE 0
          /\ \A i \in 1 .. Done - 1 + 1 : t[i] = gdb.sent[1 + i - 1]
      BY <3>2, SubSeqProperties
    <3> HIDE DEF s, t
    <3>5. Len(s) = Done /\ Len(t) = Done /\ \A i \in 1 .. Done : s[i] = executed[i] /\ t[i] = gdb.sent[i]
      BY <2>1, <3>3, <3>4
    <3>6. \A i \in 1 .. Len(s) : s[i] = t[i]
      BY <3>5 DEF PacketInv, Counts
    <3>7. s = t
      BY <3>3, <3>4, <3>5, <3>6, SeqEqual
    <3>8. QED BY <3>7 DEF s, t
  <2>3. QED BY <2>1, <2>2 DEF Line!ExecutesWhatWasSent, Line!IsPrefix, Done, Sent
<1>3. Line!RepliesInStep
  <2>1. DOMAIN answers = 1 .. Len(answers)
    BY LenProperties DEF PacketInv, PacketTyped
  <2>2. QED BY <2>1 DEF PacketInv, Counts, Line!RepliesInStep
<1>4. QED BY <1>1, <1>2, <1>3 DEF PacketsOnce

\* PacketsOnce: the stub executes each of gdb's packets once, unharmed and in order,
\* and gdb takes the reply to the packet it has just sent, for every set of packets
\* that fit the buffer and however often one is garbled, rejected or sent again, as
\* long as a reply's frames have room in outputbuffer.
THEOREM PacketsComeOnce ==
  ASSUME Line!Fit
  PROVE  Line!Spec => []PacketsOnce
<1>1. Line!Init => PacketInv
  BY PacketsStart
<1>2. UNCHANGED Line!vars => UNCHANGED packetVars
  BY DEF Line!vars, packetVars
<1>3. PacketInv /\ [Line!Next]_Line!vars => PacketInv'
  BY <1>2, PacketsStep
<1>4. PacketInv => PacketsOnce
  BY PacketsInOrder
<1>5. QED BY <1>1, <1>3, <1>4, PTL DEF Line!Spec
=============================================================================
