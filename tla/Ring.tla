-------------------------------- MODULE Ring --------------------------------
(***************************************************************************)
(* The byte ring that PSPLINK writes out by hand wherever an interrupt-time *)
(* producer feeds a thread: struct AsyncEndpoint of the USB host driver     *)
(* (usbhostfs/usbasync.h) and the stdin buffer of the tty (psplink/tty.c).  *)
(* Both keep read and write positions, advanced modulo the size, and a      *)
(* byte count.  The copy loops run with interrupts off, so a whole loop is  *)
(* one value of the operators below.                                        *)
(***************************************************************************)
EXTENDS Integers, Sequences

CONSTANTS BufSize,   \* MAX_ASYNC_BUFFER, STDIN_BUFSIZE
          Byte       \* the values a byte takes; 0 is the initial memory

ASSUME RingAssumption == /\ BufSize \in Nat \ {0}
                         /\ 0 \in Byte

Pos == 0 .. (BufSize - 1)

RingType == [buffer : [Pos -> Byte], read_pos : Pos, write_pos : Pos,
             size : 0 .. BufSize]

\* Zeroed static memory.
EmptyRing == [buffer |-> [i \in Pos |-> 0], read_pos |-> 0, write_pos |-> 0,
              size |-> 0]

Smaller(a, b) == IF a < b THEN a ELSE b

\* Mutants of Accepted: the bound dropped, and off by one.
AcceptedAll(r, n)  == n
AcceptedPlus(r, n) == Smaller(n, BufSize - r.size + 1)

\* How many of n offered bytes the producer's loop copies; the rest is dropped.
Accepted(r, n) == Smaller(n, BufSize - r.size)

\* The producer's loop: buffer[write_pos++] = *data++; write_pos %= MAX; size++.
\* Slot i is the ((i - write_pos) mod BufSize)-th one written.
RingPut(r, data) ==
  LET n == Accepted(r, Len(data))
      k(i) == (i + BufSize - r.write_pos) % BufSize
  IN  [buffer |-> [i \in Pos |-> IF k(i) < n THEN data[k(i) + 1] ELSE r.buffer[i]],
       read_pos |-> r.read_pos,
       write_pos |-> (r.write_pos + n) % BufSize,
       size |-> r.size + n]

\* The first n bytes the consumer's loop copies out.
RingBytes(r, n) == [i \in 1 .. n |-> r.buffer[(r.read_pos + i - 1) % BufSize]]

\* The consumer's loop: data[i] = buffer[read_pos++]; read_pos %= MAX; size--.
RingTake(r, n) == [buffer |-> r.buffer, read_pos |-> (r.read_pos + n) % BufSize,
                   write_pos |-> r.write_pos, size |-> r.size - n]

\* Mutant of RingFlush: write_pos forgotten.
RingFlushNoWritePos(r) == [buffer |-> r.buffer, read_pos |-> 0,
                           write_pos |-> r.write_pos, size |-> 0]

\* Flushing resets the counters and leaves the old bytes in memory.
RingFlush(r) == [buffer |-> r.buffer, read_pos |-> 0, write_pos |-> 0, size |-> 0]

\* The two positions and the count agree.
RingConsistent(r) == r.write_pos = (r.read_pos + r.size) % BufSize

\* What the ring holds, oldest byte first.
Contents(r) == RingBytes(r, r.size)
=============================================================================
