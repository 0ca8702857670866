------------------------------ MODULE MCShell -------------------------------
(***************************************************************************)
(* What is typed to psplink, for TLC: stdin of programs (TtyInput), the     *)
(* shell's parse thread and its scripts (Shell), the making of words from a *)
(* line (CommandLine), the line editor of the serial shell (CliEditor) and  *)
(* the wireless shell (NetShell).                                           *)
(*                                                                          *)
(* A behaviour is one of one component, which part names: the others stay   *)
(* in an initial state.                                                     *)
(***************************************************************************)
EXTENDS Consoles, TLC

CONSTANTS Parts,    \* the components the run looks at
          t1, t2,   \* readers of stdin
          usb, sio, \* clients of the shell
          p, q      \* threads that print

VARIABLES part,
          stage, buffer, in, tmpbuf, argv, in_quote, written, top, source    \* CommandLine

ttyVars  == <<ring, waitth, sema, pc, len, wakeups, strays>>
lineVars == <<stage, buffer, in, tmpbuf, argv, in_quote, written, top, source>>
allVars  == <<part, ttyVars, shellVars, lineVars, editorVars, netVars>>

OneByte == {0}
Inputs  == {<<>>, <<0>>, <<0, 0>>}

-----------------------------------------------------------------------------
(* Commands of every kind, under names of the table of shell.c, and scripts *)
(* that call each other.                                                    *)

Entry(name, syn, does) == [name |-> name, syn |-> syn, does |-> does]
CommandTable ==
  <<Entry("thlist", "tl", "ok"), Entry("thinfo", "ti", "error"), Entry("modlist", "ml", "wait"),
    Entry("peekw", "kw", "fault"), Entry("exit", "quit", "exit"), Entry("tty", "-", "tty"),
    Entry("custom", "cst", "custom")>>
ScriptFiles == "inner.sh" :> <<"tl", "modlist", "ti", "tl">> @@ "outer.sh" :> <<"inner.sh", "tl">>
                 @@ "tty.sh" :> <<"tty", "~.", "quit", "tl">> @@ "start.sh" :> <<"inner.sh", "kw", "tl">>

UsersWords  == {"ml", "kw", "tty", "~.", "cst"}

-----------------------------------------------------------------------------
(* Lines of every kind of character, and longer ones of words and spaces;   *)
(* words of letters, spaces and quotes, none or several, some empty; lines  *)
(* of scripts with every kind of argument.                                  *)

Upto(S, n) == UNION {[1 .. k -> S] : k \in 0 .. n}
TypedLines == Upto({32, 34, 39, 48, 49, 92, 120}, 4) \cup Upto({32, 103}, 8)
                \cup {<<92, 110, 92, 114>>}
WordLists  == Upto({<<>>, <<103>>, <<103, 32>>, <<39, 103>>, <<34>>, <<32, 92>>}, 4)
Tokens     == {[kind |-> "char", val |-> 103], [kind |-> "dollar", val |-> 0],
               [kind |-> "mod", val |-> 0]} \cup {[kind |-> "arg", val |-> n] : n \in {0, 1, 12}}
TokenLines == Upto(Tokens, 4) \cup {ts \o <<[kind |-> "lone", val |-> 0]>> : ts \in Upto(Tokens, 3)}

Splitter == INSTANCE CommandLine WITH
           Typed <- TypedLines, Wanted <- WordLists, Lines <- TokenLines,
           Args <- <<<<115>>, <<97, 32>>>>, LastMod <- <<109>>, Stale <- <<103, 36, 33, 0>>,
           MaxBuffer <- 6, MaxArgs <- 3, line <- buffer

ASSUME Instances == Splitter!CommandLineAssumption

-----------------------------------------------------------------------------
MCInit ==
  /\ part \in Parts
  /\ Init
  /\ Parser!Init /\ (part # "lines" => parser = Parser!Idle)
  /\ IF part = "words" THEN Splitter!Init
     ELSE Splitter!Fresh(<<0>>, "parse") /\ source = [kind |-> "typed"]
  /\ Editor!Init
  /\ Wireless!Init

TtyStep ==
  /\ part = "tty" /\ Next
  /\ UNCHANGED <<part, shellVars, lineVars, editorVars, netVars>>

LinesStep ==
  /\ part = "lines" /\ Parser!Next
  /\ UNCHANGED <<part, ttyVars, lineVars, editorVars, netVars>>

WordsStep ==
  /\ part = "words" /\ Splitter!Next
  /\ UNCHANGED <<part, ttyVars, shellVars, editorVars, netVars>>

EditorStep ==
  /\ part = "editor" /\ Editor!Next
  /\ UNCHANGED <<part, ttyVars, shellVars, lineVars, netVars>>

\* Much typed over a few connections, or much printed.
WirelessStep ==
  /\ part \in {"typed", "printed"} /\ Wireless!Next
  /\ IF part = "typed" THEN Len(prints') <= 1 ELSE chars' <= 1
  /\ UNCHANGED <<part, ttyVars, shellVars, lineVars, editorVars>>

MCNext == TtyStep \/ LinesStep \/ WordsStep \/ EditorStep \/ WirelessStep

MCSpec == MCInit /\ [][MCNext]_allVars
-----------------------------------------------------------------------------
(* StdinSafe is TtyInput's; LinesRun, EntersWhatIsSeen and LinesOverNet are  *)
(* those of Consoles.                                                       *)

\* parse_args, process_arguments: words written with quotes or escapes are the
\* words taken, as many as there is room for, with argv and out written within
\* their bounds; every $n, $! and $$ is replaced in place by what it stands
\* for, up to the size of the buffer.
WordsTaken == /\ Splitter!TypeOK /\ Splitter!InBounds
              /\ Splitter!WordsTaken /\ Splitter!ArgumentsPutIn
=============================================================================
