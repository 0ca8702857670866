------------------------------ MODULE HostStat ------------------------------
(***************************************************************************)
(* Attributes of a file on the host: device: io_getstat and io_chstat of    *)
(* host_driver.c, fill_stat, psp_chstat and psp_settime of usbhostfs_pc.    *)
(* io_chstat is one exchange, but the PC carries it out in up to three      *)
(* system calls, each of which can fail after the ones before it.           *)
(*                                                                          *)
(* A time is an hour and a minute.  A mode is the permissions and the type. *)
(***************************************************************************)
EXTENDS Integers

CONSTANTS Hours,     \* hours of the day: 0 .. Hours - 1
          Minute,    \* minutes that occur
          Perm       \* permissions that occur

Time == [hour : 0 .. (Hours - 1), minute : Minute]
Bits == {"mode", "atime", "mtime"}

\* What the constants are assumed to be.
StatAssumption == Hours \in Nat \ {0}

VARIABLES file,   \* the PC's: perm, atime, mtime
          stat,   \* a program's SceIoStat
          call    \* the last io_chstat: what it asked for, and what came of it

vars == <<file, stat, call>>

Attributes == [perm : Perm, atime : Time, mtime : Time]
NoCall == [bits |-> {}, ok |-> FALSE]

Init ==
  /\ file \in Attributes
  /\ stat = file
  /\ call = NoCall

\* fill_stat and io_getstat: the attributes as they are.
io_getstat ==
  /\ stat' = file /\ call' = NoCall
  /\ UNCHANGED file

\* The program changes a field of its stat.
Edit ==
  /\ \/ \E t \in Time : stat' = [stat EXCEPT !.atime = t] \/ stat' = [stat EXCEPT !.mtime = t]
     \/ \E p \in Perm : stat' = [stat EXCEPT !.perm = p]
  /\ call' = NoCall
  /\ UNCHANGED file

\* io_chstat fills the command: minute and second of the access time come from the
\* modification time.
Command(s) ==
  [perm |-> s.perm, mtime |-> s.mtime,
   atime |-> [hour |-> s.atime.hour, minute |-> s.mtime.minute]]

\* mktime() gets a tm_isdst nobody set: the hour can be taken as summer or as winter time.
mktime(t) == {[t EXCEPT !.hour = (@ + h) % Hours] : h \in {0, 1, Hours - 1}}

\* Mutant of psp_settime: both times are set.
SetBoth(f, which, t) == [f EXCEPT !.atime = t, !.mtime = t]

\* psp_settime reads both times with stat() and writes them back with utime(), one
\* of them changed.
psp_settime(f, which, t) ==
  IF which = "atime" THEN [f EXCEPT !.atime = t] ELSE [f EXCEPT !.mtime = t]

\* Mutant of Order: the mode is set last.
OrderTimesFirst == <<"atime", "mtime", "mode">>

\* psp_chstat's order.
Order == <<"mode", "atime", "mtime">>

\* The file after one of psp_chstat's calls.
Apply(f, cmd, which) ==
  IF which = "mode" THEN {[f EXCEPT !.perm = cmd.perm]}
  ELSE {psp_settime(f, which, t) : t \in mktime(cmd[which])}

\* What psp_chstat can leave behind when the first n of its calls succeed.
After(f, cmd, bits, n) ==
  LET One(s, i) == IF Order[i] \in bits THEN UNION {Apply(g, cmd, Order[i]) : g \in s} ELSE s
      f0 == {f}
      f1 == IF n >= 1 THEN One(f0, 1) ELSE f0
      f2 == IF n >= 2 THEN One(f1, 2) ELSE f1
  IN  IF n >= 3 THEN One(f2, 3) ELSE f2

\* The call: all of its steps succeed, or the first n do and an error is returned.
io_chstat(bits) ==
  \E n \in 0 .. 3 :
    /\ n < 3 => Order[n + 1] \in bits
    /\ file' \in After(file, Command(stat), bits, n)
    /\ call' = [bits |-> bits, ok |-> n = 3]
    /\ UNCHANGED stat

Next == io_getstat \/ Edit \/ \E bits \in SUBSET Bits : io_chstat(bits)

Spec == Init /\ [][Next]_vars

-----------------------------------------------------------------------------

TypeOK == file \in Attributes /\ stat \in Attributes /\ call.ok \in BOOLEAN

\* psp_settime: an attribute a program did not ask to change keeps its value, also
\* when a call fails half way.
UnaskedKept ==
  /\ "mode" \notin call'.bits => file'.perm = file.perm
  /\ "atime" \notin call'.bits => file'.atime = file.atime
  /\ "mtime" \notin call'.bits => file'.mtime = file.mtime

\* psp_chstat: a call that reports success has set the permissions it was given; a
\* call that fails has set them before it touched the times.
ModeFirst ==
  /\ call'.ok /\ "mode" \in call'.bits => file'.perm = stat.perm
  /\ "mode" \in call'.bits /\ file'.perm # stat.perm =>
       file'.atime = file.atime /\ file'.mtime = file.mtime
=============================================================================
