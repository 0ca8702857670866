------------------------------ MODULE Consoles ------------------------------
(***************************************************************************)
(* What takes lines for psplink and its programs, side by side: stdin of    *)
(* programs (TtyInput), the shell's parse thread (Shell), the line editor   *)
(* of the serial shell (CliEditor) and the wireless shell (NetShell), each  *)
(* over variables of its own.                                               *)
(***************************************************************************)
EXTENDS TtyInput

CONSTANTS Client, Urgent, Table, Scripts, Words, Custom, Startups, MaxLines, \* Shell
          Chars, CLI_MAX, CLI_HISTSIZE, MaxEnter,                            \* CliEditor
          Printer, Sizes, DataSize, MaxConn, MaxPrints, MaxChars             \* NetShell

VARIABLES at, sent, mbx, parser, armed, g_ttymode, open, typed, taken,       \* Shell
          stdin, overtaken, failed, faults,
          g_cli, g_cli_pos, g_lastcli, g_lastcli_pos, g_currcli_pos,         \* CliEditor
          entered, seen,
          modnet, g_ipaddr, server, g_currsock, peer, g_size, g_data,        \* NetShell
          printer, prints, crossed, overrun, wire, data, pos, conns, chars, delivered, lines, commands

shellVars  == <<at, sent, mbx, parser, armed, g_ttymode, open, typed, taken, stdin, overtaken,
                failed, faults>>
editorVars == <<g_cli, g_cli_pos, g_lastcli, g_lastcli_pos, g_currcli_pos, entered, seen>>
netVars    == <<modnet, g_ipaddr, server, g_currsock, peer, g_size, g_data, printer, prints,
                crossed, overrun, wire, data, pos, conns, chars, delivered, lines, commands>>

Parser   == INSTANCE Shell
Editor   == INSTANCE CliEditor
Wireless == INSTANCE NetShell

ASSUME ConsolesAssumption ==
  /\ Parser!ShellAssumption
  /\ Editor!EditorAssumption
  /\ Wireless!NetShellAssumption

-----------------------------------------------------------------------------
(***************************************************************************)
(* Each property is the conjunction of what its component promises;         *)
(* StdinSafe is TtyInput's.                                                 *)
(***************************************************************************)

\* shellParseThread, scriptRun: the lines run are the lines entered, each once
\* and in order, whichever client they came from, up to the first whose sender
\* went on before it was taken; once a line has ended badly,
\* nothing else of its script, or of the scripts around that one, is run; and
\* script files are closed by the time the thread waits for a line, unless an
\* exception took it out of them.
LinesRun == /\ [](Parser!TypeOK /\ Parser!ProcessesLines /\ Parser!ScriptsClosed)
            /\ [][Parser!ErrorStops]_shellVars

\* cli_handler: the line entered is the one on the screen, however it was
\* typed, recalled and changed, and the history holds the last lines entered,
\* newest first.
EntersWhatIsSeen == /\ [](Editor!TypeOK /\ Editor!RingHoldsLast)
                    /\ [][Editor!EntersWhatIsSeen]_editorVars

\* start_server, wifiPrint: over lost connections a line is run only because a
\* line end was sent, what a thread prints is sent once at most and whole, until two
\* threads fill the buffer together, and the server listens only once the access
\* point has given it an address.
LinesOverNet == /\ Wireless!TypeOK /\ Wireless!ListensWhenUp
                /\ Wireless!OneCommandPerLine /\ Wireless!PrintedOnce
=============================================================================
