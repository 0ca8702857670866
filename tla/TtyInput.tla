------------------------------ MODULE TtyInput ------------------------------
(***************************************************************************)
(* Standard input of a program under PSPLINK (psplink/tty.c, stdio.c).  In  *)
(* tty mode the shell thread passes every line to ttyAddInputData; program  *)
(* threads block in inputHandler, one at a time under g_in_sema, sleeping   *)
(* with sceKernelSleepThread until the id they left in g_stdinwaitth is     *)
(* woken.  The kernel counts wake-ups of a thread that does not sleep.      *)
(***************************************************************************)
EXTENDS Ring

CONSTANTS Reader,      \* program threads that read stdin
          Line,        \* what the shell may pass on
          MaxLen,      \* bound on the len argument of a read
          MaxStray,    \* bound: wake-ups by others (thwake, a resumed exception)
          NULL

ASSUME TtyAssumption == /\ NULL \notin Reader
                        /\ Line \subseteq Seq(Byte)
                        /\ MaxLen \in Nat /\ MaxStray \in Nat

VARIABLES ring,      \* g_stdinbuf, g_stdinreadpos, g_stdinwritepos, g_stdinsize
          waitth,    \* g_stdinwaitth
          sema,      \* the holder of g_in_sema
          pc, len,   \* where each reader is, and its len argument
          wakeups,   \* the kernel's wake-up count of each reader
          strays     \* wake-ups that did not come from ttyAddInputData

vars == <<ring, waitth, sema, pc, len, wakeups, strays>>

Init == /\ ring = EmptyRing
        /\ waitth = NULL /\ sema = NULL
        /\ pc = [t \in Reader |-> "idle"]
        /\ len = [t \in Reader |-> 0]
        /\ wakeups = [t \in Reader |-> 0]
        /\ strays = 0

\* A sleeping thread runs again; for any other the wake-up is remembered.
sceKernelWakeupThread(t) ==
  IF pc[t] = "asleep"
  THEN pc' = [pc EXCEPT ![t] = "copy"] /\ UNCHANGED wakeups
  ELSE wakeups' = [wakeups EXCEPT ![t] = @ + 1] /\ UNCHANGED pc

\* io_read: the semaphore, then inputHandler.
io_read(t, n) ==
  /\ pc[t] = "idle"
  /\ pc' = [pc EXCEPT ![t] = "sema"]
  /\ len' = [len EXCEPT ![t] = n]
  /\ UNCHANGED <<ring, waitth, sema, wakeups, strays>>

sceKernelWaitSema(t) ==
  /\ pc[t] = "sema" /\ sema = NULL
  /\ sema' = t
  /\ pc' = [pc EXCEPT ![t] = "copy"]
  /\ UNCHANGED <<ring, waitth, len, wakeups, strays>>

\* Mutant of Asks: the waiter's id is never stored.
NeverAsks(n) == FALSE

\* Nothing was copied: the thread asks to be woken.
Asks(n) == n = 0

\* The copy loop with interrupts off.  Something copied: io_read returns it and
\* signals the semaphore.  Nothing copied: the thread leaves its id.
inputHandler(t) ==
  LET n == Smaller(len[t], ring.size) IN
  /\ pc[t] = "copy"
  /\ ring' = RingTake(ring, n)
  /\ waitth' = IF Asks(n) THEN t ELSE waitth
  /\ IF n > 0
     THEN pc' = [pc EXCEPT ![t] = "idle"] /\ sema' = NULL
     ELSE pc' = [pc EXCEPT ![t] = "sleep"] /\ UNCHANGED sema
  /\ UNCHANGED <<len, wakeups, strays>>

\* Interrupts are on again; a wake-up that came first is used up at once.
sceKernelSleepThread(t) ==
  /\ pc[t] = "sleep"
  /\ IF wakeups[t] > 0
     THEN /\ wakeups' = [wakeups EXCEPT ![t] = @ - 1]
          /\ pc' = [pc EXCEPT ![t] = "copy"]
     ELSE pc' = [pc EXCEPT ![t] = "asleep"] /\ UNCHANGED wakeups
  /\ UNCHANGED <<ring, waitth, sema, len, strays>>

\* Mutant of Served: g_stdinwaitth is not reset.
StillWaiting == waitth

\* g_stdinwaitth after its thread was woken.
Served == NULL

\* The shell passes a line on: what fits is stored, the waiter woken and
\* forgotten, all with interrupts off.
ttyAddInputData(data) ==
  /\ ring' = RingPut(ring, data)
  /\ IF waitth # NULL
     THEN sceKernelWakeupThread(waitth) /\ waitth' = Served
     ELSE UNCHANGED <<pc, wakeups, waitth>>
  /\ UNCHANGED <<sema, len, strays>>

\* Somebody else wakes the thread.
StrayWakeup(t) ==
  /\ strays < MaxStray
  /\ strays' = strays + 1
  /\ sceKernelWakeupThread(t)
  /\ UNCHANGED <<ring, waitth, sema, len>>

Next == \/ \E data \in Line : ttyAddInputData(data)
        \/ \E t \in Reader : \/ \E n \in 0 .. MaxLen : io_read(t, n)
                             \/ sceKernelWaitSema(t) \/ inputHandler(t)
                             \/ sceKernelSleepThread(t) \/ StrayWakeup(t)

Spec == Init /\ [][Next]_vars

\* A reader that can run does.
Fairness == \A t \in Reader : WF_vars(inputHandler(t) \/ sceKernelSleepThread(t))
FairSpec == Spec /\ Fairness

-----------------------------------------------------------------------------
TypeOK == /\ ring \in RingType
          /\ {waitth, sema} \subseteq Reader \cup {NULL}
          /\ pc \in [Reader -> {"idle", "sema", "copy", "sleep", "asleep"}]
          /\ len \in [Reader -> 0 .. MaxLen]
          /\ wakeups \in [Reader -> Nat]
          /\ strays \in 0 .. MaxStray

\* No reader sleeps over input: a sleeping thread is the one the next line will
\* wake, and if it asked for at least a byte the buffer is empty.  A line may
\* arrive between the copy loop and sceKernelSleepThread, and stray wake-ups at
\* any time.
NoMissedInput ==
  \A t \in Reader : pc[t] = "asleep" =>
    waitth = t /\ (len[t] > 0 => ring.size = 0)

\* ttyAddInputData never wakes a thread that has left inputHandler: the id in
\* g_stdinwaitth is the reader that holds the semaphore.
OnlyReadersWoken == waitth # NULL => sema = waitth

\* The wake-ups used for input do not leak into a program's own use of
\* sceKernelSleepThread: outside a read no more are counted than were sent by
\* others.
NoLeakedWakeup ==
  \A t \in Reader : pc[t] \in {"idle", "sema"} => wakeups[t] <= strays

\* What stdin promises its readers and everybody else's sleeps.
StdinSafe == TypeOK /\ NoMissedInput /\ OnlyReadersWoken /\ NoLeakedWakeup

\* A reader of at least one byte returns once there is input.
InputIsRead ==
  \A t \in Reader : (sema = t /\ len[t] > 0 /\ ring.size > 0) ~> sema # t
=============================================================================
