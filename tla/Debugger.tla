------------------------------ MODULE Debugger ------------------------------
(***************************************************************************)
(* Breakpoints, single steps and exception contexts: psplink/debug.c,       *)
(* psplink/exception.c, psplink_user/psplink_ex.c and exception_asm.S, with *)
(* the shell commands that drive them.                                      *)
(*                                                                          *)
(* A thread that traps takes a context from a fixed pool, makes it the      *)
(* current exception, gets breakpoint instructions removed if it hit one,   *)
(* and sleeps until the shell resumes it.  Steps and breakpoints of all     *)
(* threads share the instruction memory.  A word of memory is its own       *)
(* instruction or the break instruction; every word is visible at several   *)
(* addresses (cached, uncached, kernel).  The gdb stub is not loaded.       *)
(***************************************************************************)
EXTENDS Integers, FiniteSets

CONSTANTS Words,      \* number of instruction words
          Mirrors,    \* number of address ranges that show them
          Code,       \* what the instruction of a word does
          LongJmp,    \* the word longjmp starts at
          Thread,     \* threads of programs
          Parse,      \* the thread PspLinkParse
          MaxContext, \* PSPLINK_MAX_CONTEXT
          MaxBps,     \* MAX_BPS
          MaxFaults,  \* bound: exceptions that are no breakpoints
          MaxWake,    \* bound: wake-ups counted for a thread
          Orderly     \* TRUE: the user works on one step at a time, see Disciplined

None    == -1
Word    == 0 .. (Words - 1)
Addr    == 0 .. (Words * Mirrors - 1)
Context == 0 .. (MaxContext - 1)
Bp      == 0 .. (MaxBps - 1)
Slot    == {0, 1}
All     == Thread \cup {Parse}

\* The word at an address: find_bp's mask, and what the memory bus does.
Phys(a) == a % Words

\* k words after address a, in the same range.
After(a, k) == (a - Phys(a)) + ((Phys(a) + k) % Words)

\* What the constants are assumed to be.
DebuggerAssumption ==
  /\ Words \in Nat \ {0} /\ Mirrors \in Nat \ {0} /\ LongJmp \in Word
  /\ MaxContext \in Nat \ {0} /\ MaxBps \in Nat \ {0}
  /\ MaxFaults \in Nat /\ MaxWake \in Nat /\ Orderly \in BOOLEAN
  /\ Parse \notin Thread
  \* to: the word a branch or jump encodes; reg: the address a register jump takes, or None
  /\ Code \in [Word -> [branch : BOOLEAN, cond : BOOLEAN, link : BOOLEAN,
                        to : Word, reg : Addr \cup {None}]]
  /\ \A w \in Word : Code[w].cond => Code[w].branch

VARIABLES mem,       \* each word: "own" instruction or "brk"
          g_bps, g_stepbp,
          ctx,       \* g_psplinkContext: [valid, thid, epc]
          g_currex,
          thr,       \* each thread: [at, pc, ctx, wake]
          faults,    \* exceptions so far that are no breakpoints
          stepped    \* instructions run since the thread was stepped, or None

vars == <<mem, g_bps, g_stepbp, ctx, g_currex, thr, faults, stepped>>

Clear == [address |-> 0, oldinst |-> "own", active |-> FALSE]
Plain == [branch |-> FALSE, cond |-> FALSE, link |-> FALSE, to |-> 0, reg |-> None]

Init ==
  /\ mem = [w \in Word |-> "own"]
  /\ g_bps = [i \in Bp |-> Clear] /\ g_stepbp = [s \in Slot |-> Clear]
  /\ ctx = [c \in Context |-> [valid |-> FALSE, thid |-> Parse, epc |-> 0]]
  /\ g_currex = None
  /\ thr = [t \in All |-> [at |-> "run", pc |-> IF t = Parse THEN None ELSE 0,
                           ctx |-> None, wake |-> 0]]
  /\ faults = 0
  /\ stepped = [t \in All |-> None]

-----------------------------------------------------------------------------
(***************************************************************************)
(* The processor.                                                           *)
(***************************************************************************)
Inst(a) == IF mem[Phys(a)] = "brk" THEN Plain ELSE Code[Phys(a)]

\* Where the instruction at a goes when it does not fall through.
Target(a) ==
  LET i == Inst(a)
  IN  IF ~i.branch THEN After(a, 1)
      ELSE IF i.reg # None THEN i.reg
      ELSE (a - Phys(a)) + i.to

\* Mutant of OutOfContexts: psplinkTrap goes on without a context.
TrapAnyway(t) == [thr EXCEPT ![t].at = "trap"]

\* psplinkTrap with no context left deletes the thread.
OutOfContexts(t) == [thr EXCEPT ![t].at = "gone"]

\* Mutant of FreeContext: a context that is in use can be taken again.
AnyContext(c) == c = 0

\* Mutant of FreeContext: psplinkInitException leaves the last one unlinked.
ShortChain(c) == c < MaxContext - 1 /\ ~ctx[c].valid /\ \A d \in 0 .. (c - 1) : ctx[d].valid

\* The list psplinkInitException builds is searched from its start.
FreeContext(c) == ~ctx[c].valid /\ \A d \in 0 .. (c - 1) : ctx[d].valid

\* The exception handler takes the first free context and saves the registers.
psplinkExceptionHandler(t) ==
  \/ \E c \in Context :
       /\ FreeContext(c)
       /\ ctx' = [ctx EXCEPT ![c].valid = TRUE,
                             ![c].epc = IF thr[t].pc = None THEN LongJmp ELSE thr[t].pc]
       /\ thr' = [thr EXCEPT ![t].at = "trap", ![t].ctx = c]
  \/ /\ ~\E c \in Context : FreeContext(c)
     /\ thr' = OutOfContexts(t)
     /\ UNCHANGED ctx

\* One instruction, a branch together with its delay slot.  A break in a delay
\* slot traps at the branch.
Execute(t) ==
  LET pc == thr[t].pc
      i  == Inst(pc)
  IN  /\ thr[t].at = "run" /\ pc # None
      /\ \/ /\ mem[Phys(pc)] = "brk" \/ (i.branch /\ mem[Phys(After(pc, 1))] = "brk")
            /\ psplinkExceptionHandler(t)
            /\ stepped' = [stepped EXCEPT ![t] = None]
         \/ /\ mem[Phys(pc)] = "own" /\ (i.branch => mem[Phys(After(pc, 1))] = "own")
            /\ \E next \in IF i.cond THEN {Target(pc), After(pc, 2)} ELSE {Target(pc)} :
                 thr' = [thr EXCEPT ![t].pc =
                           IF t = Parse /\ pc = After(LongJmp, 1) THEN None ELSE next]
            /\ stepped' = [stepped EXCEPT ![t] = IF @ = None THEN None ELSE @ + 1]
            /\ UNCHANGED ctx
      /\ UNCHANGED <<mem, g_bps, g_stepbp, g_currex, faults>>

\* Any other exception of thread t where it is; for the parse thread, in a command.
Fault(t) ==
  /\ thr[t].at = "run" /\ faults < MaxFaults
  /\ faults' = faults + 1
  /\ psplinkExceptionHandler(t)
  /\ stepped' = [stepped EXCEPT ![t] = None]
  /\ UNCHANGED <<mem, g_bps, g_stepbp, g_currex>>

-----------------------------------------------------------------------------
(***************************************************************************)
(* The trap.                                                                *)
(***************************************************************************)

\* The active breakpoint at the word of address a, as a set.
find_bp(a) == {i \in Bp : g_bps[i].active /\ Phys(g_bps[i].address) = Phys(a)}

StepAt(a) == {s \in Slot : g_stepbp[s].active /\ g_stepbp[s].address = a}

check_bp(a) == StepAt(a) # {} \/ find_bp(a) # {}

\* Mutant of Recovered: the breakpoint's instruction first, the steps' after it.
RecoveredBpFirst(a, w) ==
  LET s == {x \in Slot : g_stepbp[x].active /\ Phys(g_stepbp[x].address) = w}
      b == {x \in find_bp(a) : Phys(g_bps[x].address) = w}
  IN  IF 1 \in s THEN g_stepbp[1].oldinst
      ELSE IF 0 \in s THEN g_stepbp[0].oldinst
      ELSE IF b # {} THEN g_bps[CHOOSE x \in b : TRUE].oldinst
      ELSE mem[w]

\* What word w holds after a trap at a: step slots are written back first, in
\* order, then the breakpoint that was hit.
Recovered(a, w) ==
  LET s == {x \in Slot : g_stepbp[x].active /\ Phys(g_stepbp[x].address) = w}
      b == {x \in find_bp(a) : Phys(g_bps[x].address) = w}
  IN  IF b # {} THEN g_bps[CHOOSE x \in b : \A y \in b : x <= y].oldinst
      ELSE IF 1 \in s THEN g_stepbp[1].oldinst
      ELSE IF 0 \in s THEN g_stepbp[0].oldinst
      ELSE mem[w]

\* A trap at a known breakpoint ends all steps and that breakpoint.  (An inactive
\* entry's other fields are never read; the model clears them.)
debugHandleException(a) ==
  IF check_bp(a)
  THEN /\ mem' = [w \in Word |-> Recovered(a, w)]
       /\ g_stepbp' = [s \in Slot |-> Clear]
       /\ g_bps' = [i \in Bp |-> IF i \in find_bp(a) THEN Clear ELSE g_bps[i]]
       /\ stepped' = [t \in All |-> None]
  ELSE UNCHANGED <<mem, g_stepbp, g_bps, stepped>>

\* psplinkTrap notes the thread; the exception becomes the current one.  The
\* parse thread does not sleep: it is sent to longjmp.
psplinkHandleException(t) ==
  LET c == thr[t].ctx
  IN  /\ thr[t].at = "trap"
      /\ g_currex' = c
      /\ debugHandleException(ctx[c].epc)
      /\ ctx' = [ctx EXCEPT ![c].thid = t,
                            ![c].epc = IF t = Parse THEN LongJmp ELSE @]
      /\ thr' = [thr EXCEPT ![t].at = IF t = Parse THEN "woken" ELSE "sleep"]
      /\ UNCHANGED faults

\* sceKernelSleepThread returns at once if a wake-up was counted.
Wake(t) ==
  /\ thr[t].at = "sleep" /\ thr[t].wake > 0
  /\ thr' = [thr EXCEPT ![t].at = "woken", ![t].wake = @ - 1]
  /\ UNCHANGED <<mem, g_bps, g_stepbp, ctx, g_currex, faults, stepped>>

\* The context is freed, its registers restored.
psplinkResumeFromException(t) ==
  LET c == thr[t].ctx
  IN  /\ thr[t].at = "woken"
      /\ ctx' = [ctx EXCEPT ![c].valid = FALSE]
      /\ thr' = [thr EXCEPT ![t].at = "run", ![t].pc = ctx[c].epc, ![t].ctx = None]
      /\ UNCHANGED <<mem, g_bps, g_stepbp, g_currex, faults, stepped>>

-----------------------------------------------------------------------------
(***************************************************************************)
(* The user, through commands (while the parse thread is free) and, for     *)
(* steps, also through control keys.  An orderly user waits for a step to   *)
(* end before the next step, leaves its words alone, and does not go back   *)
(* to a context that has been resumed.                                      *)
(***************************************************************************)
ParseFree == thr[Parse].at = "run" /\ thr[Parse].pc = None

Stepping == \E s \in Slot : g_stepbp[s].active

\* Mutant of Resumed: the current exception stays set.
StillCurrent(c) == c

\* The current exception after context c was resumed.
Resumed(c) == None

exceptionResume(c) ==
  /\ thr[ctx[c].thid].wake < MaxWake
  /\ thr' = [thr EXCEPT ![ctx[c].thid].wake = @ + 1]
  /\ g_currex' = Resumed(c)

\* Mutant of StepPlaces: a conditional branch is taken to be taken.
OnlyTarget(epc, skip) ==
  IF Inst(epc).link /\ skip THEN [s \in {1} |-> After(epc, 2)]
  ELSE [s \in {0} |-> Target(epc)]

\* Mutant of StepPlaces: counted from the instruction, not from the next one.
FromEpc(epc, skip) ==
  [s \in {0} |-> IF Inst(epc).branch THEN Target(epc) ELSE epc]

\* The addresses step_generic puts break instructions at, by slot.
StepPlaces(epc, skip) ==
  LET i == Inst(epc)
  IN  IF i.link /\ skip THEN [s \in {1} |-> After(epc, 2)]
      ELSE IF i.branch /\ i.cond /\ Target(epc) # After(epc, 2)
           THEN [s \in Slot |-> IF s = 0 THEN Target(epc) ELSE After(epc, 2)]
      ELSE [s \in {0} |-> Target(epc)]

step_generic(epc, skip) ==
  LET at == StepPlaces(epc, skip)
  IN  /\ g_stepbp' = [s \in Slot |-> IF s \in DOMAIN at
                        THEN [address |-> at[s], oldinst |-> mem[Phys(at[s])], active |-> TRUE]
                        ELSE g_stepbp[s]]
      /\ mem' = [w \in Word |-> IF \E s \in DOMAIN at : Phys(at[s]) = w THEN "brk" ELSE mem[w]]

debugStep(skip) ==
  /\ g_currex # None
  /\ Orderly => ~Stepping
  /\ LET epc == ctx[g_currex].epc
         t   == ctx[g_currex].thid
     IN  /\ step_generic(epc, skip)
         /\ stepped' = [stepped EXCEPT ![t] =
              IF /\ thr[t].at = "sleep" /\ thr[t].ctx = g_currex
                 /\ mem[Phys(epc)] = "own" /\ ~(skip /\ Inst(epc).link)
              THEN 0 ELSE None]
  /\ exceptionResume(g_currex)
  /\ UNCHANGED <<g_bps, ctx, faults>>

\* bpset: the first free entry, unless the word has a breakpoint already.
debugSetBP(a) ==
  /\ ParseFree /\ find_bp(a) = {}
  /\ Orderly => \A s \in Slot : g_stepbp[s].active => Phys(g_stepbp[s].address) # Phys(a)
  /\ \E i \in Bp :
       /\ ~g_bps[i].active /\ \A j \in 0 .. (i - 1) : g_bps[j].active
       /\ g_bps' = [g_bps EXCEPT ![i] = [address |-> a, oldinst |-> mem[Phys(a)], active |-> TRUE]]
  /\ mem' = [mem EXCEPT ![Phys(a)] = "brk"]
  /\ UNCHANGED <<g_stepbp, ctx, g_currex, thr, faults, stepped>>

\* exresume, at the address the thread stopped or at another one.
exresume_cmd ==
  /\ ParseFree /\ g_currex # None
  /\ \E a \in Addr \cup {ctx[g_currex].epc} : ctx' = [ctx EXCEPT ![g_currex].epc = a]
  /\ exceptionResume(g_currex)
  /\ stepped' = [stepped EXCEPT ![ctx[g_currex].thid] = None]
  /\ UNCHANGED <<mem, g_bps, g_stepbp, faults>>

exceptionSetCtx(c) ==
  /\ ParseFree /\ ctx[c].valid
  /\ Orderly => \E t \in Thread : /\ thr[t].at = "sleep" /\ thr[t].ctx = c /\ thr[t].wake = 0
  /\ g_currex' = c
  /\ UNCHANGED <<mem, g_bps, g_stepbp, ctx, thr, faults, stepped>>

Next ==
  \/ \E t \in All : \/ Execute(t) \/ Fault(t) \/ psplinkHandleException(t)
                    \/ Wake(t) \/ psplinkResumeFromException(t)
  \/ \E skip \in BOOLEAN : debugStep(skip)
  \/ \E a \in Addr : debugSetBP(a)
  \/ exresume_cmd
  \/ \E c \in Context : exceptionSetCtx(c)

Spec == Init /\ [][Next]_vars

-----------------------------------------------------------------------------
Break == [address : Addr, oldinst : {"own", "brk"}, active : BOOLEAN]

TypeOK ==
  /\ mem \in [Word -> {"own", "brk"}]
  /\ g_bps \in [Bp -> Break] /\ g_stepbp \in [Slot -> Break]
  /\ ctx \in [Context -> [valid : BOOLEAN, thid : All, epc : Addr]]
  /\ g_currex \in Context \cup {None}
  /\ thr \in [All -> [at : {"run", "trap", "sleep", "woken", "gone"},
                      pc : Addr \cup {None}, ctx : Context \cup {None}, wake : 0 .. MaxWake]]
  /\ \A t \in All : thr[t].at \in {"trap", "sleep", "woken"} <=> thr[t].ctx # None
  /\ faults \in 0 .. MaxFaults
  /\ stepped \in [All -> {None} \cup Nat]

\* Words that should hold the break instruction now.
Planted == {Phys(g_bps[i].address) : i \in {j \in Bp : g_bps[j].active}}
           \cup {Phys(g_stepbp[s].address) : s \in {x \in Slot : g_stepbp[x].active}}

\* Memory holds the break instruction exactly where a breakpoint or a step is
\* active, and its own instruction everywhere else: whatever overlaps of steps
\* and breakpoints at one word an orderly user makes, the program gets its
\* instructions back (step_generic, debugSetBP, debugHandleException).
MemoryFaithful == Orderly => \A w \in Word : (mem[w] = "brk") <=> (w \in Planted)

\* A stepped thread stops again after at most one instruction, a branch taken
\* or not: it never runs on, unless the trap of another thread collected the
\* step breakpoints (step_generic, debugHandleException).
StepStops == \A t \in All : stepped[t] # None => stepped[t] <= 1

\* A step runs the instruction the thread stopped at: it does not trap again at
\* once, unless a breakpoint is set at the instruction or its delay slot ("Step
\* the next instruction", the help of the step command).
StepRuns ==
  \A t \in Thread :
    stepped[t] = 0 /\ thr[t].at = "run" /\ thr'[t].at = "trap" /\ faults' = faults =>
      find_bp(thr[t].pc) # {} \/ find_bp(After(thr[t].pc, 1)) # {}

\* Every context in use belongs to exactly one thread inside its trap, and a
\* thread in its trap has one: contexts neither leak nor are shared, however
\* traps, resumes and switches of the current context interleave.
ContextsOwned ==
  /\ \A c \in Context :
       ctx[c].valid <=> \E t \in All : thr[t].at \in {"trap", "sleep", "woken"} /\ thr[t].ctx = c
  /\ \A t, u \in All : thr[t].ctx = thr[u].ctx /\ thr[t].ctx # None => t = u

\* A wake-up is counted only for a thread inside its trap: no resume is left
\* over that would let a later trap of the thread run through without stopping.
NoStrayWakeup ==
  Orderly => \A t \in Thread : thr[t].wake > 0 => thr[t].at = "sleep"

\* A thread is deleted for want of a context only when as many threads as there
\* are contexts are stopped in a trap (psplinkTrap).
GoneOnlyWhenFull ==
  \A t \in All : thr[t].at # "gone" /\ thr'[t].at = "gone" =>
    Cardinality({u \in All : thr[u].at \in {"trap", "sleep", "woken"}}) = MaxContext
=============================================================================
