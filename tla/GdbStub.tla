------------------------------ MODULE GdbStub -------------------------------
(***************************************************************************)
(* The gdb server (gdbcommon/): threads of the debugged program trap into   *)
(* GdbTrapEntry, hand their registers to the server thread through          *)
(* g_context.ctx and an event flag, and take them back when gdb lets them   *)
(* go on.  The server thread, GdbMain, executes gdb's commands while a      *)
(* thread is stopped; single steps are two temporary breakpoints.  The      *)
(* packets themselves are GdbPacket.                                        *)
(*                                                                          *)
(* A word of memory holds the program's instruction or a break.  Registers  *)
(* are the program counter and one value.                                   *)
(***************************************************************************)
EXTENDS Integers, FiniteSets

CONSTANTS Thread,     \* threads of the program
          Words,      \* words of its code
          Code,       \* what the instruction of a word does: [branch, cond, to]
          Value,      \* values of the register
          HwAddr,     \* addresses gdb sets hardware breakpoints on, none of them 0
          MaxTraps,   \* bound: exceptions that are not breakpoints
          MaxDrops,   \* bound: connections gdb drops (0 over USB)
          Patient     \* TRUE: gdb's first resuming command is continue

Word == 0 .. (Words - 1)
None == -1
After(w, k) == (w + k) % Words

\* What the constants are assumed to be.
StubAssumption ==
  /\ Words \in Nat \ {0} /\ MaxTraps \in Nat /\ MaxDrops \in Nat /\ Patient \in BOOLEAN
  /\ Code \in [Word -> [branch : BOOLEAN, cond : BOOLEAN, to : Word]]
  /\ \A w \in Word : Code[w].cond => Code[w].branch
  /\ Value # {}
  /\ 0 \notin HwAddr

VARIABLES mem,       \* each word: "own" or "brk"
          thr,       \* each thread: [at, pc, val]
          context,   \* g_context.ctx: [thid, pc, val]
          started, evid, iaddr, daddr,   \* of g_context
          env,       \* the debug registers: addresses that break, 0 for none
          g_stepbp,
          server,    \* where the server thread is
          firstrun,  \* of GdbMain
          traps, drops,
          wrote,     \* the words gdb has put a break on itself
          told       \* what gdb has been told and has set: [thid, val], thid None while running

core == <<mem, thr, context, started, evid, g_stepbp, server, firstrun, traps, drops, wrote, told>>
hw   == <<iaddr, daddr, env>>
vars == <<core, hw>>

NoStep == [addr |-> 0, oldinst |-> "own", active |-> FALSE]

\* main: the program is loaded, not started; a register block for its entry.
Init ==
  /\ mem = [w \in Word |-> "own"]
  /\ thr = [t \in Thread |-> [at |-> "none", pc |-> 0, val |-> CHOOSE v \in Value : TRUE]]
  /\ context = [thid |-> None, pc |-> 0, val |-> CHOOSE v \in Value : TRUE]
  /\ started = FALSE /\ evid = {}
  /\ iaddr = 0 /\ daddr = 0 /\ env = [iba |-> 0, dba |-> 0]
  /\ g_stepbp = [s \in {0, 1} |-> NoStep]
  /\ server = "handle" /\ firstrun = TRUE
  /\ traps = 0 /\ drops = 0
  /\ wrote = {}
  /\ told = [thid |-> None, val |-> CHOOSE v \in Value : TRUE]

-----------------------------------------------------------------------------
(***************************************************************************)
(* The program.                                                             *)
(***************************************************************************)

\* GdbTrapEntry, up to the wait: the registers are copied over whatever is there.
GdbTrapEntry(t) ==
  /\ context' = [thid |-> t, pc |-> thr[t].pc, val |-> thr[t].val]
  /\ evid' = evid \cup {"EXP"}
  /\ thr' = [thr EXCEPT ![t].at = "wait"]

\* One instruction of thread t, or a trap at a break.
Execute(t) ==
  /\ thr[t].at = "run"
  /\ LET pc == thr[t].pc
         i  == Code[pc]
     IN  \/ mem[pc] = "brk" /\ GdbTrapEntry(t)
         \/ /\ mem[pc] = "own"
            /\ \E next \in (IF i.branch THEN {i.to} ELSE {After(pc, 1)})
                             \cup (IF i.cond THEN {After(pc, 2)} ELSE {}) :
                 thr' = [thr EXCEPT ![t].pc = next]
            /\ UNCHANGED <<context, evid>>
  /\ UNCHANGED <<mem, started, g_stepbp, server, firstrun, traps, drops, wrote, told, hw>>

\* Any other exception; a hardware breakpoint or watchpoint among them.
Fault(t) ==
  /\ thr[t].at = "run" /\ traps < MaxTraps
  /\ traps' = traps + 1
  /\ GdbTrapEntry(t)
  /\ UNCHANGED <<mem, started, g_stepbp, server, firstrun, drops, wrote, told, hw>>

\* Mutant of TakeBack: the registers are not copied back.
TakeNothing(t) == [thr EXCEPT ![t].at = "run"]

\* The registers a thread goes on with.
TakeBack(t) == [thr EXCEPT ![t] = [at |-> "run", pc |-> context.pc, val |-> context.val]]

\* Mutant of Resume: the wait does not clear the event.
ResumeKeeps(t) ==
  /\ thr[t].at = "wait" /\ "CONTINUE" \in evid
  /\ thr' = TakeBack(t)
  /\ UNCHANGED <<mem, context, started, evid, g_stepbp, server, firstrun, traps, drops, wrote, told, hw>>

\* GdbTrapEntry after the wait, which clears the event: one thread is let through.
Resume(t) ==
  /\ thr[t].at = "wait" /\ "CONTINUE" \in evid
  /\ evid' = evid \ {"CONTINUE"}
  /\ thr' = TakeBack(t)
  /\ UNCHANGED <<mem, context, started, g_stepbp, server, firstrun, traps, drops, wrote, told, hw>>

-----------------------------------------------------------------------------
(***************************************************************************)
(* The server thread.                                                       *)
(***************************************************************************)

\* Memory and slots once the step breakpoints are taken out, slot 0 first.
Unstepped ==
  LET m0 == [w \in Word |-> IF g_stepbp[0].active /\ g_stepbp[0].addr = w
                            THEN g_stepbp[0].oldinst ELSE mem[w]]
  IN  [mem |-> [w \in Word |-> IF g_stepbp[1].active /\ g_stepbp[1].addr = w
                               THEN g_stepbp[1].oldinst ELSE m0[w]],
       bp |-> [s \in {0, 1} |-> NoStep]]

\* GdbHandleException begins: steps are taken out, gdb is told where the program is.
GdbHandleException ==
  /\ server = "handle"
  /\ mem' = Unstepped.mem /\ g_stepbp' = Unstepped.bp
  /\ told' = IF started THEN [thid |-> context.thid, val |-> context.val] ELSE told
  /\ server' = "packets"
  /\ UNCHANGED <<thr, context, started, evid, firstrun, traps, drops, wrote, hw>>

\* G: gdb writes the registers.
WriteRegisters(v) ==
  /\ server = "packets"
  /\ context' = [context EXCEPT !.val = v]
  /\ told' = [told EXCEPT !.val = v]
  /\ UNCHANGED <<mem, thr, started, evid, g_stepbp, server, firstrun, traps, drops, wrote, hw>>

\* M or X: gdb puts a break over an instruction, or the instruction back.
WriteMemory(w) ==
  /\ server = "packets"
  /\ mem' = [mem EXCEPT ![w] = IF @ = "own" THEN "brk" ELSE "own"]
  /\ wrote' = IF mem[w] = "own" THEN wrote \cup {w} ELSE wrote \ {w}
  /\ UNCHANGED <<thr, context, started, evid, g_stepbp, server, firstrun, traps, drops, told, hw>>

\* Mutant of SetHw: the second breakpoint replaces the first.
SetHwAgain(current) == TRUE

\* One hardware breakpoint at a time.
SetHw(current) == current = 0

\* Z1 and z1, Z2 to Z4 and their z.
handle_hwbp(addr, set, data) ==
  /\ server = "packets"
  /\ LET current == IF data THEN daddr ELSE iaddr
         new == IF set THEN addr ELSE 0
     IN  /\ IF set THEN SetHw(current) ELSE current # 0
         /\ IF data
            THEN daddr' = new /\ env' = [env EXCEPT !.dba = new] /\ UNCHANGED iaddr
            ELSE iaddr' = new /\ env' = [env EXCEPT !.iba = new] /\ UNCHANGED daddr
  /\ UNCHANGED core

\* Mutant of Continued: the event is never set.
ContinuedNever == evid

\* GdbMain after GdbHandleException: the first time nobody waits to be continued.
Continued == IF firstrun THEN evid ELSE evid \cup {"CONTINUE"}

Restart ==
  /\ evid' = Continued
  /\ firstrun' = FALSE /\ server' = "wait"
  /\ told' = [told EXCEPT !.thid = None]

\* c: starts the program the first time, and may set the program counter later.
Continue(addr) ==
  /\ server = "packets"
  /\ IF started
     THEN /\ context' = IF addr = None THEN context ELSE [context EXCEPT !.pc = addr]
          /\ UNCHANGED <<started, thr>>
     ELSE /\ started' = TRUE
          /\ thr' = [t \in Thread |-> [thr[t] EXCEPT !.at = "run"]]
          /\ UNCHANGED context
  /\ Restart
  /\ UNCHANGED <<mem, g_stepbp, traps, drops, wrote, hw>>

\* Mutant of StepPlaces: both slots, also when the branch goes where it falls through.
StepBoth(pc) ==
  LET i == Code[pc]
  IN  [s \in {0, 1} |-> IF s = 0 THEN (IF i.branch THEN i.to ELSE After(pc, 1))
                        ELSE IF i.cond THEN After(pc, 2) ELSE None]

\* step_generic: where slot 0 and slot 1 go.
StepPlaces(pc) ==
  LET i == Code[pc]
  IN  [s \in {0, 1} |-> IF s = 0 THEN (IF i.branch THEN i.to ELSE After(pc, 1))
                        ELSE IF i.cond /\ i.to # After(pc, 2) THEN After(pc, 2) ELSE None]

\* s: slot 0 is planted before slot 1 reads its instruction.  A break over the
\* instruction to be stepped is taken for an instruction that falls through.
Step(addr) ==
  /\ server = "packets" /\ (Patient => started)
  /\ LET pc == IF addr = None THEN context.pc ELSE addr
         at == IF mem[pc] = "brk" THEN [s \in {0, 1} |-> IF s = 0 THEN After(pc, 1) ELSE None]
               ELSE StepPlaces(pc)
     IN  /\ context' = [context EXCEPT !.pc = pc]
         /\ mem' = [w \in Word |-> IF w \in {at[0], at[1]} THEN "brk" ELSE mem[w]]
         /\ g_stepbp' =
              [s \in {0, 1} |->
                 IF at[s] = None THEN NoStep
                 ELSE [addr |-> at[s], active |-> TRUE,
                       oldinst |-> IF s = 1 /\ at[1] = at[0] THEN "brk" ELSE mem[at[s]]]]
  /\ Restart
  /\ UNCHANGED <<thr, started, traps, drops, wrote, hw>>

\* D: the program goes on; the server waits as before.
Detach ==
  /\ server = "packets" /\ (Patient => started)
  /\ Restart
  /\ UNCHANGED <<mem, thr, context, started, g_stepbp, traps, drops, wrote, hw>>

\* GdbMain waits for a trap.
Wait ==
  /\ server = "wait" /\ "EXP" \in evid
  /\ evid' = evid \ {"EXP"}
  /\ server' = "handle"
  /\ UNCHANGED <<mem, thr, context, started, g_stepbp, firstrun, traps, drops, wrote, told, hw>>

\* netgdb: the connection ends while the server reads a packet; start_server accepts
\* the next one and calls GdbMain again.
Reconnect ==
  /\ server = "packets" /\ drops < MaxDrops
  /\ drops' = drops + 1
  /\ server' = "handle" /\ firstrun' = TRUE
  /\ UNCHANGED <<mem, thr, context, started, evid, g_stepbp, traps, wrote, told, hw>>

Command ==
  \/ \E v \in Value : WriteRegisters(v)
  \/ \E w \in Word : WriteMemory(w)
  \/ \E a \in HwAddr, set, data \in BOOLEAN : handle_hwbp(a, set, data)
  \/ Detach \/ Reconnect
  \/ \E addr \in Word \cup {None} : Continue(addr) \/ Step(addr)

Next ==
  \/ \E t \in Thread : Execute(t) \/ Fault(t) \/ Resume(t)
  \/ GdbHandleException \/ Wait \/ Command

Spec == Init /\ [][Next]_vars

\* Threads and the server are scheduled; gdb does not leave a stopped program stopped.
Fairness ==
  /\ WF_vars(GdbHandleException) /\ WF_vars(Wait)
  /\ \A t \in Thread : WF_vars(Execute(t)) /\ WF_vars(Resume(t))
  /\ WF_vars(Continue(None))

FairSpec == Spec /\ Fairness

-----------------------------------------------------------------------------
(***************************************************************************)
(* Properties.                                                              *)
(***************************************************************************)

TypeOK ==
  /\ mem \in [Word -> {"own", "brk"}]
  /\ thr \in [Thread -> [at : {"none", "run", "wait"}, pc : Word, val : Value]]
  /\ context.pc \in Word /\ context.val \in Value
  /\ evid \subseteq {"EXP", "CONTINUE"}
  /\ server \in {"handle", "packets", "wait"}
  /\ \A s \in {0, 1} : g_stepbp[s].addr \in Word /\ (server = "packets" => ~g_stepbp[s].active)

\* GdbHandleException: while gdb looks at the program, memory holds exactly what the
\* program and gdb have put there; no temporary breakpoint is left, and none that
\* gdb set is lost, wherever branches lead.
MemoryAsGdbLeft ==
  server = "packets" => \A w \in Word : mem[w] = IF w \in wrote THEN "brk" ELSE "own"

\* handle_hwbp: a hardware breakpoint stays in the debug registers until gdb takes it
\* out, through stops, steps and lost connections; a second one is refused.
HardwareKept ==
  /\ env.iba # 0 => env'.iba \in {env.iba, 0}
  /\ env.dba # 0 => env'.dba \in {env.dba, 0}
  /\ env' = [iba |-> iaddr', dba |-> daddr']

\* GdbMain: a continue is used up by the thread it was meant for before that thread
\* traps again, so that no later stop is passed over.
NoStaleContinue ==
  server = "packets" => "CONTINUE" \notin evid

\* GdbTrapEntry: a thread that goes on has the value gdb last saw or set for it.
GetsItsRegisters ==
  \A t \in Thread : thr[t].at = "wait" /\ thr'[t].at = "run" => thr'[t].val = told.val

\* GdbTrapEntry, GdbMain: a thread that traps goes on once gdb has answered.
TrapsAreHandled == \A t \in Thread : thr[t].at = "wait" ~> thr[t].at = "run"
=============================================================================
