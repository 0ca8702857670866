----------------------------- MODULE ConfigFile -----------------------------
(***************************************************************************)
(* psplink.ini: how it is read into the configuration of a session         *)
(* (psplink/config.c, psplinkcnf.c and the buffered reading of util.c) and *)
(* how confset and confdel rewrite it, through a second file, with the PSP *)
(* able to lose power at any point.  A file is a sequence of lines, a line *)
(* is [name, val], and a comment's name is "#".                            *)
(***************************************************************************)
EXTENDS Integers, Sequences, FiniteSets, SequencesExt

CONSTANTS
  InitFiles,     \* what psplink.ini may be at first
  Values,        \* values confset is given
  Buffer,        \* lines that MAX_BUFFER bytes hold
  MaxChanges     \* bound on confset and confdel

VARIABLES
  ini, tmp,      \* psplink.ini and psplink.ini.tmp, NoFile when missing
  pc,            \* configChange: "idle", "copying", "copied", "removed"; or "off"
  change,        \* the change asked for: [mode, name, val]
  before,        \* the settings when it was asked for
  outcome,       \* "none", "busy", "done", "failed"
  ctx,           \* the configuration loaded at start-up
  orphaned,      \* history: a change began while psplink.ini was missing
  changes

vars == <<ini, tmp, pc, change, before, outcome, ctx, orphaned, changes>>

NoFile == <<[name |-> "no file", val |-> ""]>>
Numbers == [usbmass |-> {"0", "1"}, usbhost |-> {"0", "1"}, usbshell |-> {"0", "1"},
            wifi |-> {"0", "1"}, wifishell |-> {"0", "1"}, sioshell |-> {"0", "1"}]
Names == DOMAIN Numbers \cup {"prompt"}

(* The settings of a file, however it is read.                             *)
AllSettings(file) == IF file = NoFile THEN <<>> ELSE SelectSeq(file, LAMBDA l : l.name # "#")

-----------------------------------------------------------------------------
\* Mutant of Fetched.
DropsLast(file) == SubSeq(file, 1, Len(file) - 1)

(* What fdgets delivers of a file: fdgetc fills its buffer once and takes  *)
(* the end of the buffer for the end of the file.                          *)
Fetched(file) == SubSeq(file, 1, IF Len(file) < Buffer THEN Len(file) ELSE Buffer)

(* psplinkConfigReadNext: the settings of a file in their order.           *)
Settings(file) ==
  IF file = NoFile THEN <<>> ELSE SelectSeq(Fetched(file), LAMBDA l : l.name # "#")

Cleared == [usbmass |-> "0", usbhost |-> "0", usbshell |-> "0", wifi |-> "0",
            wifishell |-> "0", sioshell |-> "0", prompt |-> ""]

config_usbshell(c, v) ==
  IF v = "0" THEN c ELSE [c EXCEPT !.usbhost = "1", !.usbshell = "1"]

config_wifishell(c, v) ==
  [c EXCEPT !.wifishell = v, !.wifi = IF v = "1" /\ c.wifi = "0" THEN "1" ELSE c.wifi]

(* The handler that config_names has for a line: values that should be     *)
(* numbers and are none are left out, as are names that are not known.     *)
Handler(c, l) ==
  CASE l.name \notin Names -> c
    [] l.name = "prompt" -> [c EXCEPT !.prompt = l.val]
    [] l.val \notin Numbers[l.name] -> c
    [] l.name = "usbshell" -> config_usbshell(c, l.val)
    [] l.name = "wifishell" -> config_wifishell(c, l.val)
    [] OTHER -> [c EXCEPT ![l.name] = l.val]

(* configLoad                                                              *)
configLoad(file) ==
  LET c == FoldLeft(Handler, Cleared, Settings(file))
  IN IF c.usbshell = "0" /\ c.wifishell = "0" THEN [c EXCEPT !.sioshell = "1"] ELSE c

(* What configChange writes for the settings it reads.                     *)
Changed(set, ch) ==
  IF ch.mode = "del" THEN SelectSeq(set, LAMBDA l : l.name # ch.name)
  ELSE LET line == [name |-> ch.name, val |-> ch.val]
           found == \E i \in DOMAIN set : set[i].name = ch.name
       IN [i \in DOMAIN set |-> IF set[i].name = ch.name THEN line ELSE set[i]]
            \o IF found THEN <<>> ELSE <<line>>

Init == /\ ini \in InitFiles /\ tmp = NoFile
        /\ pc = "idle" /\ outcome = "none"
        /\ change = [mode |-> "del", name |-> "#", val |-> ""] /\ before = AllSettings(ini)
        /\ ctx = configLoad(ini)
        /\ orphaned = FALSE /\ changes = 0

(* configChange opens, and so empties, the temporary file, also when that  *)
(* is the only one there is.                                               *)
Begin(ch) ==
  /\ pc = "idle" /\ changes < MaxChanges
  /\ changes' = changes + 1
  /\ \/ /\ tmp' = <<>> /\ pc' = "copying" /\ outcome' = "busy"
        /\ change' = ch /\ before' = AllSettings(ini)
        /\ orphaned' = (ini = NoFile)
     \/ outcome' = "failed" /\ UNCHANGED <<tmp, pc, change, before, orphaned>>
  /\ UNCHANGED <<ini, ctx>>

(* The settings are copied, with the change.                               *)
Copy ==
  /\ pc = "copying" /\ ini # NoFile
  /\ tmp' = Changed(Settings(ini), change)
  /\ pc' = "copied"
  /\ UNCHANGED <<ini, change, before, outcome, ctx, orphaned, changes>>

(* psplink.ini cannot be opened: the temporary file goes away.             *)
NothingToCopy ==
  /\ pc = "copying" /\ ini = NoFile
  /\ tmp' = NoFile /\ pc' = "idle" /\ outcome' = "failed"
  /\ UNCHANGED <<ini, change, before, ctx, orphaned, changes>>

(* sceIoRemove of psplink.ini, and then sceIoRename.                       *)
RemoveOld ==
  /\ pc = "copied"
  /\ \/ ini' = NoFile /\ pc' = "removed" /\ UNCHANGED outcome
     \/ pc' = "idle" /\ outcome' = "failed" /\ UNCHANGED ini
  /\ UNCHANGED <<tmp, change, before, ctx, orphaned, changes>>

Rename ==
  /\ pc = "removed" /\ pc' = "idle"
  /\ \/ ini' = tmp /\ tmp' = NoFile /\ outcome' = "done"
     \/ outcome' = "failed" /\ UNCHANGED <<ini, tmp>>
  /\ UNCHANGED <<change, before, ctx, orphaned, changes>>

(* Power goes, with any part of the copy written; PSPLINK starts again.    *)
Crash ==
  /\ pc # "off" /\ pc' = "off"
  /\ IF pc = "copying" /\ ini # NoFile
       THEN LET whole == Changed(Settings(ini), change)
            IN \E n \in 0 .. Len(whole) : tmp' = SubSeq(whole, 1, n)
       ELSE UNCHANGED tmp
  /\ outcome' = IF outcome = "busy" THEN "failed" ELSE outcome
  /\ UNCHANGED <<ini, change, before, ctx, orphaned, changes>>

Boot ==
  /\ pc = "off" /\ pc' = "idle"
  /\ ctx' = configLoad(ini)
  /\ UNCHANGED <<ini, tmp, change, before, outcome, orphaned, changes>>

Next == \/ \E name \in Names, v \in Values : Begin([mode |-> "add", name |-> name, val |-> v])
        \/ \E name \in Names : Begin([mode |-> "del", name |-> name, val |-> ""])
        \/ Copy \/ NothingToCopy \/ RemoveOld \/ Rename \/ Crash \/ Boot

Spec == Init /\ [][Next]_vars

-----------------------------------------------------------------------------
TypeOK ==
  /\ pc \in {"idle", "copying", "copied", "removed", "off"}
  /\ pc \in {"copied", "removed"} => (outcome = "busy" /\ tmp # NoFile)
  /\ \A n \in DOMAIN Numbers : ctx[n] \in {"0", "1"}

(* Confset changes the one setting: at every moment, power failures        *)
(* included, psplink.ini holds all settings as they were or all with the   *)
(* change, or it is missing and the temporary file holds them.  So it is   *)
(* until confset or confdel is used in that last state, after power went,  *)
(* or the renaming failed, behind the removal: it empties the only copy.   *)
NothingLost ==
  (outcome # "none" /\ ~orphaned) =>
    \/ ini # NoFile /\ AllSettings(ini) \in {before, Changed(before, change)}
    \/ ini = NoFile /\ tmp = Changed(before, change)

(* The manual on confset: "If name doesn't exist then it is added, it is   *)
(* then set to value."  Once it is done every line of that name has the    *)
(* value, there is one, and confdel leaves none.                           *)
SetTakesEffect ==
  (outcome = "done" /\ pc \in {"idle", "off"}) =>
    LET lines == SelectSeq(AllSettings(ini), LAMBDA l : l.name = change.name)
    IN IF change.mode = "del" THEN lines = <<>>
       ELSE lines # <<>> /\ \A i \in DOMAIN lines : lines[i].val = change.val

(* A session has each plain setting as the last good line of the file that *)
(* was there when it started has it.                                       *)
LastLineWins ==
  (pc = "off" /\ pc' = "idle") =>
    \A name \in {"usbmass", "sioshell"} :
      LET good == SelectSeq(AllSettings(ini),
                            LAMBDA l : l.name = name /\ l.val \in Numbers[name])
      IN good # <<>> =>
           (Last(good).val = ctx'[name] \/ (name = "sioshell" /\ ctx'.usbshell = "0"
                                            /\ ctx'.wifishell = "0"))
=============================================================================
