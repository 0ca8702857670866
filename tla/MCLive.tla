------------------------------- MODULE MCLive -------------------------------
(***************************************************************************)
(* What must come to an end, for TLC: a read of stdin (TtyInput), a line of *)
(* the shell (Shell), a trap under gdb (GdbStub), a packet of gdb           *)
(* (GdbPacket), a hooked system call (ApiHook), the kernel's output         *)
(* (Kprintf), the events of remotejoy (RemoteJoy), an address expression    *)
(* (AddressCalc).                                                           *)
(*                                                                          *)
(* A behaviour is one of one component, which part names: the others stay   *)
(* in an initial state.  Each component's fairness is its own, of the       *)
(* threads the kernel runs when they are ready, and is asked of it only in  *)
(* its part.                                                                *)
(***************************************************************************)
EXTENDS Integers, Sequences, TLC

CONSTANTS Parts,    \* the components the run looks at
          t1, t2,   \* threads
          usb,      \* the client of the shell
          NULL

VARIABLES part,
          stdinbuf, waitth, sema, readpc, len, wakeups, strays,               \* TtyInput
          at, sent, mbx, parser, armed, g_ttymode, open, typed, taken,        \* Shell
          stdin, overtaken, failed, faults,
          mem, thr, context, started, evid, iaddr, daddr, env, g_stepbp,      \* GdbStub
          server, firstrun, traps, drops, wrote, told,
          in, out, stub, frames, executed, gdb, answers, noise, naks, resends, \* GdbPacket
          table, hooks, shell, pc, slot, func, ran, result, stranded, made,   \* ApiHook
          g_buf, g_writepos, g_readpos, g_total, flag, printer, low, high,    \* Kprintf
          putout, count, lastput, ended,
          joying, held, stick, button_state, nsent, wire, ring, lost, reader, \* RemoteJoy
          Buttons, axis, applied,
          input, parsing, loads, done, answer                                 \* AddressCalc

ttyVars    == <<stdinbuf, waitth, sema, readpc, len, wakeups, strays>>
shellVars  == <<at, sent, mbx, parser, armed, g_ttymode, open, typed, taken, stdin, overtaken,
                failed, faults>>
stubVars   == <<mem, thr, context, started, evid, iaddr, daddr, env, g_stepbp, server, firstrun,
                traps, drops, wrote, told>>
packetVars == <<in, out, stub, frames, executed, gdb, answers, noise, naks, resends>>
hookVars   == <<table, hooks, shell, pc, slot, func, ran, result, stranded, made>>
printVars  == <<g_buf, g_writepos, g_readpos, g_total, flag, printer, low, high, putout, count,
                lastput, ended>>
joyVars    == <<joying, held, stick, button_state, nsent, wire, ring, lost, reader, Buttons, axis,
                applied>>
calcVars   == <<input, parsing, loads, done, answer>>
typedVars  == <<ttyVars, shellVars, calcVars>>
gdbVars    == <<stubVars, packetVars>>
outVars    == <<hookVars, printVars, joyVars>>
allVars    == <<part, typedVars, gdbVars, outVars>>

-----------------------------------------------------------------------------
Stdin == INSTANCE TtyInput WITH
  BufSize <- 2, Byte <- {0}, Reader <- {t1, t2}, Line <- {<<>>, <<0>>, <<0, 0>>}, MaxLen <- 2,
  MaxStray <- 1, ring <- stdinbuf, pc <- readpc

Entry(name, syn, does) == [name |-> name, syn |-> syn, does |-> does]
Parser == INSTANCE Shell WITH
  Client <- {usb}, Urgent <- {}, Custom <- "outer.sh", Startups <- {"inner.sh", "outer.sh"}, MaxLines <- 2,
  Table <- <<Entry("thlist", "tl", "ok"), Entry("thinfo", "ti", "error"),
             Entry("modlist", "ml", "wait"), Entry("peekw", "kw", "fault"),
             Entry("exit", "quit", "exit"), Entry("tty", "-", "tty"),
             Entry("custom", "cst", "custom")>>,
  Scripts <- "inner.sh" :> <<"tl", "modlist", "ti", "tl">> @@ "outer.sh" :> <<"inner.sh", "kw">>,
  Words <- {"tl", "ml", "kw", "tty", "~.", "cst"}

Stub == INSTANCE GdbStub WITH
  Thread <- {t1}, Words <- 2, Value <- {0, 1}, HwAddr <- {}, MaxTraps <- 2, MaxDrops <- 0,
  Patient <- TRUE, Code <- [w \in 0 .. 1 |-> [branch |-> FALSE, cond |-> FALSE, to |-> 0]]

Packets == INSTANCE GdbPacket WITH
  Commands <- {<<1>>, <<2, 1>>}, Mod <- 4, MaxBuf <- 3, OutSize <- 6, ReplyLens <- <<1, 2>>,
  MaxCommands <- 2, MaxNoise <- 2,
  MaxNaks <- 1, MaxResend <- 1

Hooking == INSTANCE ApiHook WITH
  Threads <- {t1}, Patched <- {}, APIHOOK_MAXIDS <- 1, MaxHooks <- 2,
  Libraries <- <<[libname |-> "io", stubcount |-> 2, vstubcount |-> 0,
                  entrytable |-> <<101, 102, 1, 2>>]>>,
  HookNames <- {[library |-> "io", nid |-> 101, byname |-> TRUE, means |-> 1],
                [library |-> "io", nid |-> 102, byname |-> FALSE, means |-> 2]}

Printing == INSTANCE Kprintf WITH
  Size <- 3, MaxChars <- 7, pc <- printer, done <- putout, printed <- lastput

Joystick == INSTANCE RemoteJoy WITH
  buttmap <- 0 :> "CROSS", analog <- FALSE, Positions <- {0},
  tol <- 0, Chunk <- 6, BufSize <- 7, MaxEvents <- 6,
  running <- joying, pc <- reader, last <- applied

\* Numbers and letters wherever they may stand.
Tok(k)   == [k |-> k]
Alphabet == {Tok(k) : k \in {"+", "*", "(", ")", "alpha"}} \cup {[k |-> "num", v |-> 4]}
Calc == INSTANCE AddressCalc WITH
  Width <- 4, Memory <- 4 :> 8, Modules <- "main" :> {}, Threads <- "main" :> {},
  Lines <- {[toks |-> s, ref |-> <<>>] : s \in UNION {[1 .. n -> Alphabet] : n \in 0 .. 3}},
  frames <- parsing

ASSUME Instances ==
  /\ Parser!ShellAssumption /\ Stub!StubAssumption /\ Packets!PacketAssumption
  /\ Hooking!HookAssumption
  /\ Printing!SizeAssumption /\ Joystick!JoyAssumption /\ Calc!WidthAssumption

-----------------------------------------------------------------------------
MCInit ==
  /\ part \in Parts
  /\ Stdin!Init
  /\ Parser!Init /\ (part # "shell" => parser = Parser!Idle)
  /\ Stub!Init
  /\ Packets!Init
  /\ Hooking!Init
  /\ Printing!Init
  /\ Joystick!Init
  /\ part # "address" => input = [toks |-> <<>>, ref |-> <<>>]
  /\ Calc!Init

\* What is typed.
TypedStep ==
  /\ \/ part = "stdin" /\ Stdin!Next /\ UNCHANGED <<shellVars, calcVars>>
     \/ part = "shell" /\ Parser!Next /\ UNCHANGED <<ttyVars, calcVars>>
     \/ part = "address" /\ Calc!Next /\ UNCHANGED <<ttyVars, shellVars>>
  /\ UNCHANGED <<part, gdbVars, outVars>>

\* gdb.
GdbStep ==
  /\ \/ part = "stub" /\ Stub!Next /\ UNCHANGED packetVars
     \/ part = "packets" /\ Packets!Next /\ UNCHANGED stubVars
  /\ UNCHANGED <<part, typedVars, outVars>>

\* The kernel and the joystick.
OutStep ==
  /\ \/ part = "hooks" /\ Hooking!Next /\ UNCHANGED <<printVars, joyVars>>
     \/ part = "printf" /\ Printing!Next /\ UNCHANGED <<hookVars, joyVars>>
     \/ part = "joystick" /\ Joystick!Next /\ UNCHANGED <<hookVars, printVars>>
  /\ UNCHANGED <<part, typedVars, gdbVars>>

MCNext == TypedStep \/ GdbStep \/ OutStep

(* The fairness of TtyInput, Shell, GdbStub, GdbPacket, ApiHook, Kprintf,   *)
(* RemoteJoy and AddressCalc, each in its part.                             *)
MCFairness ==
  /\ \A t \in {t1, t2} :
       WF_ttyVars(part = "stdin" /\ (Stdin!inputHandler(t) \/ Stdin!sceKernelSleepThread(t)))
  /\ WF_shellVars(part = "shell" /\ Parser!Parse)
  /\ WF_shellVars(part = "shell" /\ Parser!Return(usb))
  /\ WF_stubVars(part = "stub" /\ Stub!GdbHandleException)
  /\ WF_stubVars(part = "stub" /\ Stub!Wait)
  /\ WF_stubVars(part = "stub" /\ Stub!Execute(t1))
  /\ WF_stubVars(part = "stub" /\ Stub!Resume(t1))
  /\ WF_stubVars(part = "stub" /\ Stub!Continue(Stub!None))
  /\ WF_packetVars(part = "packets" /\ (\/ Packets!Seek \/ Packets!ReadData \/ Packets!ReadSum
                                        \/ Packets!WriteReply \/ Packets!ReadAck))
  /\ WF_packetVars(part = "packets" /\ Packets!Take)
  /\ WF_hookVars(part = "hooks" /\ Hooking!Thread(t1))
  /\ WF_hookVars(part = "hooks" /\ Hooking!Wake(t1))
  /\ WF_printVars(part = "printf" /\ (\/ Printing!Wait \/ Printing!Look
                                      \/ Printing!PutOut \/ Printing!Free))
  /\ WF_joyVars(part = "joystick" /\ Joystick!Forward)
  /\ WF_joyVars(part = "joystick" /\ Joystick!Read)
  /\ WF_joyVars(part = "joystick" /\ Joystick!Flush)
  /\ WF_calcVars(part = "address" /\ Calc!Next)

MCSpec == MCInit /\ [][MCNext]_allVars /\ MCFairness
-----------------------------------------------------------------------------
\* Whoever waits is answered.  inputHandler: a reader of at least one byte
\* returns once there is input.  exceptionCheckParseThread: whatever a line
\* does, an exception included, the parse thread takes the next; an exception in
\* the startup script, before any setjmp, is its end.  parse_line:
\* every expression is answered, also where strtoul makes no way.
\* _apiHookEntry: every call comes back, through hooks that come, go and put
\* its thread to sleep.
CallersAnswered == /\ Stdin!InputIsRead
                   /\ Parser!ParserReturns
                   /\ part = "address" => Calc!Answered
                   /\ Hooking!CallsReturn

\* GdbTrapEntry, GdbMain: a thread that traps goes on once gdb has answered.
\* getpacket, putpacket: gdb gets a reply to every packet over a line that
\* garbles characters, unless it rejects one more often than outputbuffer has room.
GdbAnswered == Stub!TrapsAreHandled /\ Packets!EveryPacketAnswered

\* PutCharDebug: the end of a string brings out all of it, even while the
\* thread is busy with what came before, and so does a full ring.  remotejoy's
\* read loop: every event is dealt with, and reading goes on after an overflow.
OutputComesOut == /\ Printing!StringComesOut
                  /\ Printing!FullComesOut
                  /\ part = "joystick" => Joystick!Drains
=============================================================================
