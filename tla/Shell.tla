------------------------------- MODULE Shell --------------------------------
(***************************************************************************)
(* The command shell of psplink (psplink/shell.c, script.c) and the threads *)
(* that give it lines: usbshell, netshell, conshell and the serial shell of *)
(* the main thread.  A client calls psplinkParseCommand, which puts a       *)
(* message that lies on its own stack, with a pointer to the line, in a     *)
(* message box and returns; shellParseThread takes it out and runs the line,*)
(* which may be a script of further lines.  Before the first message it     *)
(* runs the startup script.                                                 *)
(*                                                                          *)
(* The parse thread has a higher priority than the clients, except for the  *)
(* serial shell: a client goes on only when the parse thread waits.  Once a *)
(* client has gone on, the message on its stack may have been overwritten,  *)
(* and so may what links it to the next one in the box.                     *)
(* A line is a word; what parse_args makes of a line is CommandLine.        *)
(***************************************************************************)
EXTENDS Integers, Sequences, SequencesExt

CONSTANTS Client,
          Urgent,     \* the clients whose priority is above the parse thread's
          Table,      \* commands: a sequence of [name, syn, does]
          Scripts,    \* the script files: word -> its lines
          Words,      \* words users type
          Custom,     \* the word behind the button of a "custom" command
          Startups,   \* the scripts psplink.ini may name to be run first
          MaxLines    \* bound: lines entered

\* What a command does: end well or badly, ask to leave the shell, switch to tty mode,
\* run another line, wait for input or output, or raise an exception.
Effect == {"ok", "error", "exit", "tty", "custom", "wait", "fault", "none"}

\* What the constants are assumed to be.
ShellAssumption ==
  /\ Urgent \subseteq Client /\ Startups \subseteq DOMAIN Scripts /\ MaxLines \in Nat
  /\ \A i \in DOMAIN Table : Table[i].does \in Effect
  /\ \A s \in DOMAIN Scripts : Scripts[s] # <<>>

Garbage == "?"
Idle == [at |-> "receive", word |-> Garbage, stack |-> <<>>, ret |-> "ok"]

VARIABLES at,       \* each client: "typing", or "sent" in psplinkParseCommand
          sent,     \* the number of the line each client's message points at
          mbx,      \* g_command_msg: the clients whose messages are queued
          parser,   \* [at, word, stack, ret]; stack: the scripts being run, innermost first
          armed,    \* g_context.parseenv has been set
          g_ttymode,
          open,     \* script files open
          typed, taken, stdin,   \* history: lines entered, taken for execution, given to stdin
          overtaken,  \* history: the numbers of the lines whose sender went on before they were taken
          failed,   \* history: a line has failed since the last message
          faults    \* history: an exception has happened

vars == <<at, sent, mbx, parser, armed, g_ttymode, open, typed, taken, stdin, overtaken, failed,
          faults>>
clients == <<at, sent, typed, overtaken>>
box     == <<mbx, armed, taken>>

\* The stack of scripts once s is being run as well: its first line is next.
Opened(s, stack) == <<[script |-> s, next |-> 2]>> \o stack

\* There is no startup script, or it cannot be opened; or its first line is next.
Init ==
  /\ at = [c \in Client |-> "typing"] /\ sent = [c \in Client |-> 0]
  /\ mbx = <<>> /\ armed = FALSE /\ g_ttymode = FALSE
  /\ \/ parser = Idle /\ open = 0
     \/ \E s \in Startups :
          /\ parser = [Idle EXCEPT !.at = "run", !.word = Scripts[s][1], !.stack = Opened(s, <<>>)]
          /\ open = 1
  /\ typed = <<>> /\ taken = <<>> /\ stdin = <<>> /\ overtaken = {}
  /\ failed = FALSE /\ faults = FALSE

\* The parse thread can run: it has a message or a line.
Runnable == parser.at \in {"run", "end"} \/ (parser.at = "receive" /\ mbx # <<>>)

\* Mutant of Scheduled: clients are not below the parse thread.
ScheduledAlways(c) == TRUE

\* A client runs when the scheduler has nothing better.
Scheduled(c) == c \in Urgent \/ ~Runnable

-----------------------------------------------------------------------------
(***************************************************************************)
(* The clients.                                                             *)
(***************************************************************************)

\* A whole line has come: main_thread, start_server, run_conshell and shellStart.  A
\* message that is still in the box is written again in its place, and the kernel links
\* it a second time or refuses to.
psplinkParseCommand(c, w) ==
  /\ at[c] = "typing" /\ Scheduled(c)
  /\ Len(typed) < MaxLines
  /\ at' = [at EXCEPT ![c] = "sent"]
  /\ typed' = Append(typed, w) /\ sent' = [sent EXCEPT ![c] = Len(typed')]
  /\ \/ mbx' = Append(mbx, c)
     \/ c \in Range(mbx) /\ UNCHANGED mbx
  /\ UNCHANGED <<parser, armed, g_ttymode, open, taken, stdin, overtaken, failed, faults>>

\* psplinkParseCommand returns, with sceKernelSendMbx's result, which is never
\* CMD_EXITSHELL: its stack frame is used for the prompt and for reading.
Return(c) ==
  /\ at[c] = "sent" /\ Scheduled(c)
  /\ at' = [at EXCEPT ![c] = "typing"]
  /\ overtaken' = IF c \in Range(mbx) THEN overtaken \cup {sent[c]} ELSE overtaken
  /\ UNCHANGED <<sent, mbx, parser, armed, g_ttymode, open, typed, taken, stdin, failed, faults>>

-----------------------------------------------------------------------------
(***************************************************************************)
(* The parse thread.                                                        *)
(***************************************************************************)

\* What the message says: anything once its place on the stack has been reused.
Message(c) == {typed[sent[c]]} \cup (IF at[c] = "sent" THEN {} ELSE {Garbage})

\* What the box holds behind it.
Behind(c) == {Tail(mbx)} \cup (IF at[c] = "sent" THEN {} ELSE {<<>>})

\* shellParseThread: sceKernelReceiveMbx, setjmp.
Receive ==
  /\ parser.at = "receive" /\ mbx # <<>>
  /\ \E w \in Message(Head(mbx)) :
       /\ parser' = [Idle EXCEPT !.at = "run", !.word = w]
       /\ taken' = Append(taken, w)
  /\ mbx' \in Behind(Head(mbx))
  /\ armed' = TRUE /\ failed' = FALSE
  /\ UNCHANGED <<clients, g_ttymode, open, stdin, faults>>

\* The first command whose name or synonym is the word; 0 for none.
find_command(w) ==
  LET found == {i \in DOMAIN Table : w \in {Table[i].name, Table[i].syn}}
  IN  IF found = {} THEN 0 ELSE CHOOSE i \in found : \A j \in found : i <= j

Does(w) == IF find_command(w) = 0 THEN "error" ELSE Table[find_command(w)].does

\* The line has ended with ret.
Ended(ret) == parser' = [parser EXCEPT !.at = "end", !.ret = ret]

\* shellParse in tty mode: the line is input for programs, except the one that leaves.
shellParseTty ==
  /\ parser.at = "run" /\ g_ttymode
  /\ \/ parser.word = "~." /\ g_ttymode' = FALSE /\ UNCHANGED stdin
     \/ /\ parser.word # "~."
        /\ stdin' = Append(stdin, parser.word) /\ UNCHANGED g_ttymode
  /\ Ended("ok")
  /\ UNCHANGED <<clients, box, open, failed, faults>>

\* A word with a dot is a file: a script is opened and its first line is next.  One
\* that is not found is an error, one that cannot be opened ends as if it were empty.
scriptRun ==
  /\ parser.at = "run" /\ ~g_ttymode /\ parser.word \in DOMAIN Scripts
  /\ \/ /\ parser' = [parser EXCEPT !.word = Scripts[parser.word][1],
                                    !.stack = Opened(parser.word, @)]
        /\ open' = open + 1
     \/ (Ended("ok") \/ Ended("error")) /\ UNCHANGED open
  /\ UNCHANGED <<clients, box, g_ttymode, stdin, failed, faults>>

\* Any other command.
shellParse ==
  /\ parser.at = "run" /\ ~g_ttymode /\ parser.word \notin DOMAIN Scripts
  /\ \/ /\ Does(parser.word) \in {"ok", "error", "exit"}
        /\ Ended(Does(parser.word)) /\ UNCHANGED <<g_ttymode, faults, failed>>
     \/ /\ Does(parser.word) = "tty"
        /\ g_ttymode' = TRUE /\ Ended("ok") /\ UNCHANGED <<faults, failed>>
     \/ /\ Does(parser.word) = "wait"
        /\ parser' = [parser EXCEPT !.at = "wait"] /\ UNCHANGED <<g_ttymode, faults, failed>>
     \/ /\ Does(parser.word) = "fault"
        /\ parser' = [parser EXCEPT !.at = "fault"]
        /\ faults' = TRUE /\ UNCHANGED <<g_ttymode, failed>>
  /\ UNCHANGED <<clients, box, open, stdin>>

\* A button's command: the line configured for it is run in its place.
custom_cmd ==
  /\ parser.at = "run" /\ ~g_ttymode /\ parser.word \notin DOMAIN Scripts
  /\ Does(parser.word) = "custom"
  /\ parser' = [parser EXCEPT !.word = Custom]
  /\ UNCHANGED <<clients, box, g_ttymode, open, stdin, failed, faults>>

\* What a command waited for has come.
Unblock ==
  /\ parser.at = "wait"
  /\ Ended("ok")
  /\ UNCHANGED <<clients, box, g_ttymode, open, stdin, failed, faults>>

\* Mutant of Recovered: the thread is put to sleep like any other.
RecoveredNot == parser

\* exceptionCheckParseThread: back to setjmp, out of every script.  In the startup script
\* there has been none, and longjmp goes where an empty parseenv leads.
Recovered == IF armed THEN [Idle EXCEPT !.ret = "error"] ELSE [parser EXCEPT !.at = "lost"]

longjmp ==
  /\ parser.at = "fault"
  /\ parser' = Recovered
  /\ UNCHANGED <<clients, box, g_ttymode, open, stdin, failed, faults>>

\* Mutant of Closed: the file is closed at the end of the script only.
ClosedAtEnd(ret) == IF ret = "ok" THEN open - 1 ELSE open

\* scriptRun closes its file however it ends.
Closed(ret) == open - 1

\* Mutant of Outcome: a script that was left ends well.
OutcomeOk(ret) == "ok"

\* The result of a script is its last line's.
Outcome(ret) == ret

\* A line of a script has ended: the next line, or the end of the script at its last
\* line or at the first that does not end well.
scriptNext ==
  /\ parser.at = "end" /\ parser.stack # <<>>
  /\ failed' = (failed \/ parser.ret # "ok")
  /\ LET top == Head(parser.stack)
     IN  \/ /\ parser.ret = "ok" /\ top.next <= Len(Scripts[top.script])
            /\ parser' = [parser EXCEPT !.at = "run", !.word = Scripts[top.script][top.next],
                                        !.stack = <<[top EXCEPT !.next = @ + 1]>> \o Tail(@)]
            /\ UNCHANGED open
         \/ /\ parser.ret # "ok" \/ top.next > Len(Scripts[top.script])
            /\ parser' = [parser EXCEPT !.stack = Tail(@), !.ret = Outcome(@)]
            /\ open' = Closed(parser.ret)
  /\ UNCHANGED <<clients, box, g_ttymode, stdin, faults>>

\* shellParseThread: the result goes to the message, the prompt is printed.
Done ==
  /\ parser.at = "end" /\ parser.stack = <<>>
  /\ parser' = [Idle EXCEPT !.ret = parser.ret]
  /\ UNCHANGED <<clients, box, g_ttymode, open, stdin, failed, faults>>

Parse ==
  \/ Receive \/ shellParseTty \/ scriptRun \/ shellParse \/ custom_cmd
  \/ Unblock \/ longjmp \/ scriptNext \/ Done

Next ==
  \/ \E c \in Client : Return(c) \/ \E w \in Words : psplinkParseCommand(c, w)
  \/ Parse

Spec == Init /\ [][Next]_vars

\* The threads are scheduled, and what commands wait for comes.
FairSpec == Spec /\ WF_vars(Parse) /\ \A c \in Client : WF_vars(Return(c))

-----------------------------------------------------------------------------
(***************************************************************************)
(* Properties.                                                              *)
(***************************************************************************)

TypeOK ==
  /\ at \in [Client -> {"typing", "sent"}]
  /\ parser.at \in {"receive", "run", "wait", "fault", "end", "lost"}
  /\ parser.ret \in {"ok", "error", "exit"}
  /\ \A i \in DOMAIN parser.stack : parser.stack[i].script \in DOMAIN Scripts
  /\ open \in Nat /\ open >= Len(parser.stack)

\* shellParseThread: the lines run are the lines entered, each once, in their order,
\* whichever client they came from and however many wait in the box, up to the first
\* whose sender went on before it was taken.
ProcessesLines ==
  \A i \in DOMAIN taken :
    (\A n \in overtaken : i < n) => i <= Len(typed) /\ taken[i] = typed[i]

\* scriptRun: once a line has ended badly, nothing else of the script it is in, or of
\* the scripts around that one, is run.
ErrorStops == failed /\ parser.at = "end" => parser'.at # "run" \/ failed' = FALSE

\* scriptRun: script files are closed by the time the thread waits for a line, unless
\* an exception took it out of them.
ScriptsClosed == parser.at = "receive" /\ ~faults => open = 0

\* exceptionCheckParseThread: whatever a line does, the parse thread takes the next; only
\* an exception in the startup script, before any setjmp, is its end.
ParserReturns == parser.at # "receive" ~> parser.at = "receive" \/ (parser.at = "lost" /\ ~armed)
=============================================================================
