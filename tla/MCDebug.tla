------------------------------ MODULE MCDebug -------------------------------
(***************************************************************************)
(* Debugging on the PSP, for TLC: psplink's own debugger (Debugger), and    *)
(* the gdb stub with its serial protocol (GdbStub, GdbPacket).              *)
(*                                                                          *)
(* A behaviour is one of one component, which part names: the others stay   *)
(* in an initial state.  Each component appears with several sets of        *)
(* constants.                                                               *)
(***************************************************************************)
EXTENDS Debugging

CONSTANTS Parts,         \* the instances the run looks at
          t1, t2         \* threads

VARIABLES part,
          dmem, dbps, dstepbp, dctx, dcurrex, dthr, dfaults, dstepped      \* Debugger, again

debugVars  == vars
otherVars  == <<dmem, dbps, dstepbp, dctx, dcurrex, dthr, dfaults, dstepped>>
allVars    == <<part, debugVars, otherVars, stubVars, packetVars>>

-----------------------------------------------------------------------------
(* Programs.                                                                *)

Op(b, c, l, to, r) == [branch |-> b, cond |-> c, link |-> l, to |-> to, reg |-> r]
NoReg == -1
Straight == Op(FALSE, FALSE, FALSE, 0, NoReg)

\* 0: branch to 4 or on to 2; 1: slot; 2: jump to 0; 3: slot; 4, 5: longjmp.
LoopCode == [w \in 0 .. 5 |->
  CASE w = 0 -> Op(TRUE, TRUE, FALSE, 4, NoReg)
    [] w = 2 -> Op(TRUE, FALSE, FALSE, 0, NoReg)
    [] OTHER -> Straight]

\* 0: call word 2 through a register, in the second range; 1: slot and longjmp;
\* 2: jump to 0; 3: slot.  The call returns to 2 as well.
CallCode == [w \in 0 .. 3 |->
  CASE w = 0 -> Op(TRUE, FALSE, TRUE, 0, 4 + 2)
    [] w = 2 -> Op(TRUE, FALSE, FALSE, 0, NoReg)
    [] OTHER -> Straight]

\* 1: branch to 0 or on to 3; 2: branch in its slot; 3: jump to 1; 4: slot.
TracedCode == [w \in 0 .. 4 |->
  [branch |-> w \in 1 .. 3, cond |-> w \in 1 .. 2, to |-> IF w = 2 THEN 4 ELSE IF w = 3 THEN 1 ELSE 0]]

\* The constants of Debugger itself are one thread in a loop with a conditional
\* branch (part "loop").  The others: two address ranges with a call through a
\* register; more threads than contexts and a user who steps and resumes as he
\* likes.
Call == INSTANCE Debugger WITH
          Words <- 4, Mirrors <- 2, Code <- CallCode, LongJmp <- 1,
          MaxContext <- 2, MaxBps <- 2, MaxFaults <- 0, MaxWake <- 1, Orderly <- TRUE,
          mem <- dmem, g_bps <- dbps, g_stepbp <- dstepbp, ctx <- dctx, g_currex <- dcurrex,
          thr <- dthr, faults <- dfaults, stepped <- dstepped
Pool == INSTANCE Debugger WITH
          Words <- 1, Mirrors <- 1, Code <- [w \in {0} |-> Straight], LongJmp <- 0,
          Thread <- {t1, t2},
          MaxContext <- 2, MaxBps <- 1, MaxFaults <- 2, MaxWake <- 1, Orderly <- FALSE,
          mem <- dmem, g_bps <- dbps, g_stepbp <- dstepbp, ctx <- dctx, g_currex <- dcurrex,
          thr <- dthr, faults <- dfaults, stepped <- dstepped

\* Packets, one of them able to pass for the data of the other.
LineCommands == {<<1>>, <<2, 1>>}

\* Replies of which outputbuffer holds nine, three and four.
LineReplies == <<1, 3, 2>>

ASSUME Instances == /\ DebuggerAssumption /\ Call!DebuggerAssumption
                    /\ Pool!DebuggerAssumption
                    /\ OneTraps /\ Line!Fit

-----------------------------------------------------------------------------
MCInit ==
  /\ part \in Parts
  /\ Init
  /\ IF part = "call" THEN Call!Init ELSE Pool!Init
  /\ Stub!Init
  /\ Line!Init

LoopStep ==
  /\ part = "loop" /\ Next
  /\ UNCHANGED <<part, otherVars, stubVars, packetVars>>

OtherStep ==
  /\ \/ part = "call" /\ Call!Next
     \/ part = "pool" /\ Pool!Next
  /\ UNCHANGED <<part, debugVars, stubVars, packetVars>>

StubStep ==
  /\ part = "stub" /\ Stub!Next
  /\ UNCHANGED <<part, debugVars, otherVars, packetVars>>

PacketStep ==
  /\ part = "line" /\ Line!Next
  /\ UNCHANGED <<part, debugVars, otherVars, stubVars>>

MCNext == LoopStep \/ OtherStep \/ StubStep \/ PacketStep

MCSpec == MCInit /\ [][MCNext]_allVars
-----------------------------------------------------------------------------
(* Each property is the conjunction of what its component promises;         *)
(* MemoryFaithful and ContextsOwned are Debugger's, PacketsOnce Debugging's. *)

\* "Step the next instruction": a step runs the instruction the thread stopped
\* at and the thread stops again after it, whichever way a branch goes, and no
\* resume is left over that would let a later trap run through (step_generic,
\* exceptionResume).  Memory gets its instructions back also where the program
\* calls through a second address range; with more threads than contexts, and
\* a user who steps and resumes as he likes, contexts are neither shared nor
\* lost, and a thread is deleted only when all are in use (psplinkTrap).
DebuggerObeys ==
  /\ [](TypeOK /\ StepStops /\ NoStrayWakeup)
  /\ [][StepRuns]_debugVars
  /\ [](/\ part = "call" => Call!TypeOK /\ Call!MemoryFaithful
        /\ part = "pool" => Pool!TypeOK /\ Pool!ContextsOwned)
  /\ [][part = "pool" => Pool!GoneOnlyWhenFull]_otherVars
=============================================================================
