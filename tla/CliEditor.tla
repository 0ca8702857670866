----------------------------- MODULE CliEditor ------------------------------
(***************************************************************************)
(* The line editor of the serial shell (shellProcessChar, process_cli and   *)
(* cli_handle_escape of psplink/shell.c): one buffer g_cli, and a ring of   *)
(* the last lines, g_lastcli, that the arrow keys step through.             *)
(*                                                                          *)
(* A character is a number, 0 the end of a string.                          *)
(***************************************************************************)
EXTENDS Integers, Sequences, SequencesExt

CONSTANTS Chars,      \* characters typed
          CLI_MAX, CLI_HISTSIZE,
          MaxEnter    \* bound: lines entered

\* What the constants are assumed to be.
EditorAssumption ==
  /\ Chars \subseteq Nat \ {0}
  /\ CLI_MAX \in Nat \ {0} /\ CLI_HISTSIZE \in Nat \ {0} /\ MaxEnter \in Nat

Pos  == 0 .. (CLI_MAX - 1)
Slot == 0 .. (CLI_HISTSIZE - 1)

VARIABLES g_cli,          \* the buffer: position -> character
          g_cli_pos,
          g_lastcli,      \* the ring of buffers
          g_lastcli_pos, g_currcli_pos,
          entered,        \* history: the lines given to psplinkParseCommand
          seen            \* history: what is on the screen behind the prompt

vars == <<g_cli, g_cli_pos, g_lastcli, g_lastcli_pos, g_currcli_pos, entered, seen>>

Blank == [p \in Pos |-> 0]

\* The string in a buffer.
String(buf) ==
  LET len == CHOOSE n \in Pos : buf[n] = 0 /\ \A p \in 0 .. (n - 1) : buf[p] # 0
  IN  [i \in 1 .. len |-> buf[i - 1]]

\* shellStart.
Init ==
  /\ g_cli = Blank /\ g_cli_pos = 0
  /\ g_lastcli = [s \in Slot |-> Blank]
  /\ g_lastcli_pos = 0 /\ g_currcli_pos = 0
  /\ entered = <<>> /\ seen = <<>>

Fits == g_cli_pos < CLI_MAX - 1

\* The character, and the end behind it.
Typed(c) == [p \in Pos |-> IF p = g_cli_pos THEN c ELSE IF p = g_cli_pos + 1 THEN 0 ELSE g_cli[p]]

\* An ordinary character.
Type(c) ==
  /\ Fits
  /\ g_cli' = Typed(c) /\ g_cli_pos' = g_cli_pos + 1
  /\ seen' = Append(seen, c)
  /\ UNCHANGED <<g_lastcli, g_lastcli_pos, g_currcli_pos, entered>>

Backspace ==
  /\ g_cli_pos > 0
  /\ g_cli_pos' = g_cli_pos - 1
  /\ g_cli' = [g_cli EXCEPT ![g_cli_pos - 1] = 0]
  /\ seen' = Front(seen)
  /\ UNCHANGED <<g_lastcli, g_lastcli_pos, g_currcli_pos, entered>>

\* Mutant of Ending: the buffer is taken as it is.
EndingNone == g_cli

\* The line ends where typing has come to.
Ending == [g_cli EXCEPT ![g_cli_pos] = 0]

\* Mutant of NextSlot: the ring does not turn.
NextSlotStuck == g_lastcli_pos

NextSlot == (g_lastcli_pos + 1) % CLI_HISTSIZE

\* Enter: process_cli.
process_cli ==
  /\ Len(entered) < MaxEnter
  /\ g_cli' = Ending /\ g_cli_pos' = 0
  /\ g_lastcli' = [g_lastcli EXCEPT ![g_lastcli_pos] = g_cli']
  /\ g_lastcli_pos' = NextSlot /\ g_currcli_pos' = NextSlot
  /\ entered' = Append(entered, String(g_cli')) /\ seen' = <<>>

\* A line of the ring replaces the one being typed; nothing happens at an empty slot.
Recall(pos) ==
  /\ g_lastcli[pos][0] # 0
  /\ LET s == String(g_lastcli[pos])
     IN  /\ g_cli' = [p \in Pos |-> IF p < Len(s) THEN s[p + 1] ELSE IF p = Len(s) THEN 0 ELSE g_cli[p]]
         /\ g_cli_pos' = Len(s) /\ seen' = s
  /\ g_currcli_pos' = pos
  /\ UNCHANGED <<g_lastcli, g_lastcli_pos, entered>>

\* The slot before.
Older == IF g_currcli_pos = 0 THEN CLI_HISTSIZE - 1 ELSE g_currcli_pos - 1

Up == Recall(Older)

Down == Recall((g_currcli_pos + 1) % CLI_HISTSIZE)

Next == process_cli \/ Up \/ Down \/ Backspace \/ \E c \in Chars : Type(c)

Spec == Init /\ [][Next]_vars

-----------------------------------------------------------------------------
(***************************************************************************)
(* Properties.                                                              *)
(***************************************************************************)

TypeOK ==
  /\ g_cli \in [Pos -> Chars \cup {0}] /\ g_cli_pos \in Pos
  /\ g_lastcli_pos \in Slot /\ g_currcli_pos \in Slot
  /\ \E p \in Pos : g_cli[p] = 0

\* The line entered is the one on the screen, however it was typed, taken back,
\* recalled and changed, with the remains of longer lines behind it in the buffer.
EntersWhatIsSeen == Len(entered') > Len(entered) => Last(entered') = seen

\* The ring holds the last lines entered, the newest just before g_lastcli_pos.
RingHoldsLast ==
  \A k \in 1 .. CLI_HISTSIZE :
    k <= Len(entered) =>
      String(g_lastcli[(g_lastcli_pos - k + CLI_HISTSIZE) % CLI_HISTSIZE]) = entered[Len(entered) - k + 1]
=============================================================================
