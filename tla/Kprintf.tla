------------------------------ MODULE Kprintf ------------------------------
(***************************************************************************)
(* The kprintf tool (tools/kprintf/main.c): the kernel hands every         *)
(* character of a debug message to PutCharDebug, in any context, which     *)
(* puts it into a ring; a thread woken by an event flag prints what the    *)
(* ring held when it looked, with interrupts on, and frees it afterwards.  *)
(* A character is its number in the order of all characters accepted.      *)
(***************************************************************************)
EXTENDS Integers, Sequences

CONSTANTS Size,        \* KPRINTF_BUF_SIZE
          MaxChars     \* bound on characters accepted

\* What the constants are assumed to be.
SizeAssumption == Size \in Nat \ {0} /\ MaxChars \in Nat

VARIABLES g_buf, g_writepos, g_readpos, g_total,
          flag,        \* KPRINTF_EVENT is set
          pc,          \* main_thread: "wait", "look", "print", "free"
          low, high,   \* what it prints: low at g_readpos, high at 0
          done,        \* characters of these printed so far
          count,       \* characters accepted so far
          printed,     \* the last character printed
          ended        \* characters accepted when the last string ended

vars == <<g_buf, g_writepos, g_readpos, g_total, flag, pc, low, high, done, count, printed, ended>>
ring == <<g_buf, g_writepos, g_readpos, g_total>>
thread == <<pc, low, high, done, printed>>

Init == /\ g_buf = [i \in 0 .. Size - 1 |-> 0]
        /\ g_writepos = 0 /\ g_readpos = 0 /\ g_total = 0
        /\ flag = FALSE /\ pc = "wait" /\ low = 0 /\ high = 0 /\ done = 0
        /\ count = 0 /\ printed = 0 /\ ended = 0

\* Mutant of PutChar.
Overwrites ==
  /\ count < MaxChars
  /\ count' = count + 1
  /\ g_buf' = [g_buf EXCEPT ![g_writepos] = count + 1]
  /\ g_writepos' = (g_writepos + 1) % Size
  /\ g_total' = IF g_total < Size THEN g_total + 1 ELSE g_total
  /\ flag' = (flag \/ g_total' = Size)
  /\ UNCHANGED <<g_readpos, thread, ended>>

\* Mutant of PutChar.
OnlyWhenEnded ==
  /\ count < MaxChars
  /\ IF g_total < Size
       THEN /\ count' = count + 1
            /\ g_buf' = [g_buf EXCEPT ![g_writepos] = count + 1]
            /\ g_writepos' = (g_writepos + 1) % Size
            /\ g_total' = g_total + 1
       ELSE UNCHANGED <<g_buf, g_writepos, g_total, count>>
  /\ UNCHANGED <<flag, g_readpos, thread, ended>>

(* PutCharDebug with a printable character: add_char keeps it unless the   *)
(* ring is full, and a full ring wakes the thread.                         *)
PutChar ==
  /\ count < MaxChars
  /\ IF g_total < Size
       THEN /\ count' = count + 1
            /\ g_buf' = [g_buf EXCEPT ![g_writepos] = count + 1]
            /\ g_writepos' = (g_writepos + 1) % Size
            /\ g_total' = g_total + 1
       ELSE UNCHANGED <<g_buf, g_writepos, g_total, count>>
  /\ flag' = (flag \/ g_total' = Size)
  /\ UNCHANGED <<g_readpos, thread, ended>>

(* PutCharDebug with 0x201, the end of a string.                           *)
EndString ==
  /\ flag' = TRUE /\ ended' = count
  /\ UNCHANGED <<ring, thread, count>>

-----------------------------------------------------------------------------
(* sceKernelWaitEventFlag clears the event it returns for.                 *)
Wait ==
  /\ pc = "wait" /\ flag
  /\ flag' = FALSE /\ pc' = "look"
  /\ UNCHANGED <<ring, low, high, done, count, printed, ended>>

(* With interrupts off: how much lies up to the end of the buffer, and how *)
(* much at its beginning.                                                  *)
Look ==
  /\ pc = "look" /\ pc' = "print"
  /\ low' = IF Size - g_readpos < g_total THEN Size - g_readpos ELSE g_total
  /\ high' = g_total - low'
  /\ done' = 0
  /\ UNCHANGED <<ring, flag, count, printed, ended>>

(* Cell the next character printed is in.                                  *)
Cell == IF done < low THEN g_readpos + done ELSE done - low

(* printf prints a character, from the ring itself.                        *)
PutOut ==
  /\ pc = "print" /\ done < low + high
  /\ printed' = g_buf[Cell]
  /\ done' = done + 1
  /\ UNCHANGED <<ring, flag, pc, low, high, count, ended>>

\* Mutant of Free.
Empties ==
  /\ pc = "print" /\ done = low + high
  /\ pc' = "wait"
  /\ g_total' = 0
  /\ g_readpos' = g_writepos
  /\ UNCHANGED <<g_buf, g_writepos, flag, low, high, done, count, printed, ended>>

\* Mutant of Free.
NoWrap ==
  /\ pc = "print" /\ done = low + high
  /\ pc' = "wait"
  /\ g_total' = g_total - (low + high)
  /\ g_readpos' = g_readpos + low + high
  /\ UNCHANGED flag
  /\ UNCHANGED <<g_buf, g_writepos, low, high, done, count, printed, ended>>

\* Mutant of Free.
ClearsLate ==
  /\ pc = "print" /\ done = low + high
  /\ pc' = "wait" /\ flag' = FALSE
  /\ g_total' = g_total - (low + high)
  /\ g_readpos' = (g_readpos + low + high) % Size
  /\ UNCHANGED <<g_buf, g_writepos, low, high, done, count, printed, ended>>

(* With interrupts off: what was printed is free.                          *)
Free ==
  /\ pc = "print" /\ done = low + high
  /\ pc' = "wait"
  /\ g_total' = g_total - (low + high)
  /\ g_readpos' = (g_readpos + low + high) % Size
  /\ UNCHANGED <<g_buf, g_writepos, flag, low, high, done, count, printed, ended>>

Next == PutChar \/ EndString \/ Wait \/ Look \/ PutOut \/ Free

Spec == Init /\ [][Next]_vars
(* The thread has a high priority, and printf returns.                     *)
FairSpec == Spec /\ WF_vars(Wait \/ Look \/ PutOut \/ Free)

-----------------------------------------------------------------------------
TypeOK ==
  /\ g_buf \in [0 .. Size - 1 -> 0 .. MaxChars]
  /\ g_writepos \in 0 .. Size - 1 /\ g_readpos \in 0 .. Size - 1
  /\ g_total \in 0 .. Size
  /\ flag \in BOOLEAN /\ pc \in {"wait", "look", "print"}
  /\ low \in 0 .. Size /\ high \in 0 .. Size /\ done \in 0 .. Size
  /\ count \in 0 .. MaxChars /\ printed \in 0 .. MaxChars /\ ended \in 0 .. MaxChars

(* The characters accepted come out in order, each once, although they are *)
(* printed from the ring while others come in.                             *)
InSequence == printed' # printed => printed' = printed + 1

(* What is counted but not freed are the last characters accepted, where   *)
(* the positions say: none is overwritten before it is freed.              *)
RingHoldsLast ==
  /\ g_writepos = (g_readpos + g_total) % Size
  /\ \A k \in 0 .. Size - 1 :
       k < g_total => g_buf[(g_readpos + k) % Size] = count - g_total + 1 + k

(* The end of a string brings out all of it, even while the thread is busy *)
(* with what came before; so does a full ring.                             *)
StringComesOut == \A n \in 1 .. MaxChars : (ended = n) ~> (printed >= n)
FullComesOut == \A n \in 1 .. MaxChars : (g_total = Size /\ count = n) ~> (printed >= n)
=============================================================================
