----------------------------- MODULE Debugging ------------------------------
(***************************************************************************)
(* The two debuggers of a PSP program, each over variables of its own:      *)
(* psplink's (Debugger) and the gdb stub (GdbStub), with the packets        *)
(* between gdb and the stub (GdbPacket).                                    *)
(***************************************************************************)
EXTENDS Debugger

CONSTANTS GdbWords, GdbCode, Value, HwAddr, MaxTraps, MaxDrops, Patient,  \* GdbStub
          Commands, Mod, MaxBuf, OutSize, ReplyLens, MaxCommands, MaxNoise, MaxNaks,
          MaxResend                                                       \* GdbPacket

VARIABLES words, gthr, context, started, evid, iaddr, daddr, env, gstepbp,
          server, firstrun, traps, drops, wrote, told,                    \* GdbStub
          in, out, stub, frames, executed, gdb, answers, noise, naks, resends \* GdbPacket

stubVars == <<words, gthr, context, started, evid, iaddr, daddr, env, gstepbp, server,
              firstrun, traps, drops, wrote, told>>
packetVars == <<in, out, stub, frames, executed, gdb, answers, noise, naks, resends>>

Stub == INSTANCE GdbStub WITH
          Words <- GdbWords, Code <- GdbCode, mem <- words, thr <- gthr, g_stepbp <- gstepbp
Line == INSTANCE GdbPacket

ASSUME DebuggingAssumption ==
  /\ DebuggerAssumption
  /\ Stub!StubAssumption
  /\ Line!PacketAssumption

\* One thread of the program traps: the stub has one context for all.
OneTraps == \E t \in Thread : Thread = {t}

-----------------------------------------------------------------------------
\* GdbHandleException, GdbTrapEntry, handle_hwbp: while gdb looks at the
\* program, memory is what the program and gdb have made it, with no temporary
\* breakpoint left; a thread that goes on has the value gdb saw or set.  Over
\* dropped connections a hardware breakpoint stays until gdb takes it out, and
\* no continue is left over for a later stop.
AsGdbLeft ==
  /\ [](Stub!TypeOK /\ Stub!MemoryAsGdbLeft /\ Stub!NoStaleContinue)
  /\ [][Stub!GetsItsRegisters /\ Stub!HardwareKept]_stubVars

\* getpacket, putpacket: the stub executes each of gdb's packets once, unharmed
\* and in order, and the reply gdb takes is the one to the packet it has just
\* sent, however often either was garbled, rejected or sent again, until a reply
\* was rejected so often that its frames ran over outputbuffer.
PacketsOnce ==
  /\ Line!TypeOK
  /\ stub.at # "lost" => Line!ExecutesWhatWasSent /\ Line!RepliesInStep
=============================================================================
