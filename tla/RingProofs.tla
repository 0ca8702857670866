----------------------------- MODULE RingProofs -----------------------------
(***************************************************************************)
(* What the ring operators preserve, for every buffer size: the lemmas that *)
(* the proofs about UsbAsync and TtyInput rest on.                          *)
(***************************************************************************)
EXTENDS Ring, SequenceTheorems, TLAPS

\* % BufSize stays inside the buffer.
LEMMA ModRange == \A a \in Int : a % BufSize \in Pos
  BY RingAssumption DEF Pos

\* Below BufSize, % does nothing.
LEMMA ModSmall == \A a \in Pos : a % BufSize = a
  BY RingAssumption, Z3 DEF Pos

\* Below twice BufSize, % subtracts BufSize at most once.
LEMMA ModWrap == \A a \in BufSize .. (2 * BufSize - 1) : a % BufSize = a - BufSize
  BY RingAssumption, Z3

\* Advancing a wrapped position is advancing the position.
LEMMA ModShift ==
  \A p \in Pos : \A a, b \in 0 .. BufSize :
    a + b <= BufSize => (((p + a) % BufSize) + b) % BufSize = (p + a + b) % BufSize
  BY RingAssumption, ModSmall, ModWrap DEF Pos

\* A producer's copy loop keeps a ring well formed and consistent and never grows
\* it past BufSize.
LEMMA RingPutOK ==
  ASSUME NEW r \in RingType, RingConsistent(r), NEW data \in Seq(Byte)
  PROVE  /\ RingPut(r, data) \in RingType
         /\ RingConsistent(RingPut(r, data))
<1> DEFINE n == Accepted(r, Len(data))
           k(i) == (i + BufSize - r.write_pos) % BufSize
<1>1. n \in 0 .. Len(data) /\ r.size + n \in 0 .. BufSize
  BY RingAssumption DEF RingType, Accepted, Smaller
<1>2. \A i \in Pos : k(i) \in Pos /\ (k(i) < n => data[k(i) + 1] \in Byte)
  <2> TAKE i \in Pos
  <2>0. i + BufSize - r.write_pos \in Int
    BY RingAssumption DEF RingType, Pos
  <2>1. k(i) \in Pos
    BY <2>0, ModRange
  <2>2. ASSUME k(i) < n PROVE data[k(i) + 1] \in Byte
    <3>1. k(i) + 1 \in 1 .. Len(data)
      BY <1>1, <2>1, <2>2, RingAssumption DEF Pos
    <3> HIDE DEF k
    <3>2. QED BY <3>1
  <2>3. QED BY <2>1, <2>2
<1>3. (r.write_pos + n) % BufSize \in Pos
  <2>1. r.write_pos + n \in Int
    BY <1>1, RingAssumption DEF RingType, Pos
  <2>2. QED BY <2>1, ModRange
<1>4. RingPut(r, data) =
         [buffer |-> [i \in Pos |-> IF k(i) < n THEN data[k(i) + 1] ELSE r.buffer[i]],
          read_pos |-> r.read_pos,
          write_pos |-> (r.write_pos + n) % BufSize,
          size |-> r.size + n]
  BY DEF RingPut
<1>5. RingPut(r, data) \in RingType
  <2> HIDE DEF k, n
  <2>1. [i \in Pos |-> IF k(i) < n THEN data[k(i) + 1] ELSE r.buffer[i]] \in [Pos -> Byte]
    BY <1>2 DEF RingType
  <2>2. QED BY <1>1, <1>3, <1>4, <2>1 DEF RingType
<1>6. RingConsistent(RingPut(r, data))
  <2> HIDE DEF k, n
  <2>0. /\ r.read_pos \in Pos /\ r.size \in 0 .. BufSize /\ n \in 0 .. BufSize
        /\ r.size + n <= BufSize
    BY <1>1, RingAssumption DEF RingType
  <2>1. (((r.read_pos + r.size) % BufSize) + n) % BufSize
           = (r.read_pos + r.size + n) % BufSize
    BY <2>0, ModShift
  <2>2. QED BY <1>1, <1>4, <2>1 DEF RingType, RingConsistent, Pos
<1>7. QED BY <1>5, <1>6

\* A consumer's copy loop of at most the bytes there are keeps a ring well
\* formed and consistent.
LEMMA RingTakeOK ==
  ASSUME NEW r \in RingType, RingConsistent(r), NEW n \in 0 .. r.size
  PROVE  /\ RingTake(r, n) \in RingType
         /\ RingConsistent(RingTake(r, n))
         /\ RingTake(r, n).size = r.size - n
         /\ RingBytes(r, n) \in Seq(Byte)
<1>1. (r.read_pos + n) % BufSize \in Pos
  <2>1. r.read_pos + n \in Int
    BY RingAssumption DEF RingType, Pos
  <2>2. QED BY <2>1, ModRange
<1>2. r.size - n \in 0 .. BufSize
  BY RingAssumption DEF RingType
<1>3. (((r.read_pos + n) % BufSize) + (r.size - n)) % BufSize
        = (r.read_pos + r.size) % BufSize
  <2>1. /\ r.read_pos \in Pos /\ n \in 0 .. BufSize
        /\ n + (r.size - n) <= BufSize
        /\ r.read_pos + n + (r.size - n) = r.read_pos + r.size
    BY RingAssumption DEF RingType, Pos
  <2>2. QED BY <2>1, <1>2, ModShift
<1>4. RingTake(r, n) \in RingType /\ RingTake(r, n).size = r.size - n
  BY <1>1, <1>2 DEF RingType, RingTake
<1>5. RingConsistent(RingTake(r, n))
  BY <1>1, <1>3 DEF RingType, RingTake, RingConsistent
<1>6. \A i \in 1 .. n : r.buffer[(r.read_pos + i - 1) % BufSize] \in Byte
  <2> TAKE i \in 1 .. n
  <2>1. r.read_pos + i - 1 \in Int
    BY RingAssumption DEF RingType, Pos
  <2>2. (r.read_pos + i - 1) % BufSize \in Pos
    BY <2>1, ModRange
  <2>3. r.buffer \in [Pos -> Byte]
    BY DEF RingType
  <2>4. QED BY <2>2, <2>3
<1>7. RingBytes(r, n) \in [1 .. n -> Byte]
  BY <1>6 DEF RingBytes
<1>8. n \in Nat
  BY RingAssumption DEF RingType
<1>9. QED BY <1>4, <1>5, <1>7, <1>8

\* Flushing gives an empty, consistent ring.
LEMMA RingFlushOK ==
  ASSUME NEW r \in RingType
  PROVE  RingFlush(r) \in RingType /\ RingConsistent(RingFlush(r)) /\ RingFlush(r).size = 0
  BY RingAssumption, ModSmall DEF RingType, RingFlush, RingConsistent, Pos

\* Zeroed memory is an empty, consistent ring.
LEMMA EmptyRingOK == EmptyRing \in RingType /\ RingConsistent(EmptyRing) /\ EmptyRing.size = 0
  BY RingAssumption, ModSmall DEF RingType, EmptyRing, RingConsistent, Pos

-----------------------------------------------------------------------------
(* The ring as a sequence: the oldest byte first. *)

\* Going from w to a wrapped position m places further and back gives m.
LEMMA ModDistance ==
  \A w, m \in Pos : (((w + m) % BufSize) + BufSize - w) % BufSize = m
<1> SUFFICES ASSUME NEW w \in Pos, NEW m \in Pos
             PROVE  (((w + m) % BufSize) + BufSize - w) % BufSize = m
  OBVIOUS
<1>1. CASE w + m < BufSize
  <2>1. (w + m) % BufSize = w + m
    BY <1>1, ModSmall, RingAssumption DEF Pos
  <2>2. m + BufSize \in BufSize .. (2 * BufSize - 1)
    BY RingAssumption DEF Pos
  <2>3. (m + BufSize) % BufSize = m
    BY <2>2, ModWrap, RingAssumption DEF Pos
  <2>4. w + m + BufSize - w = m + BufSize
    BY RingAssumption DEF Pos
  <2>5. QED BY <2>1, <2>3, <2>4
<1>2. CASE w + m >= BufSize
  <2>1. (w + m) % BufSize = w + m - BufSize
    BY <1>2, ModWrap, RingAssumption DEF Pos
  <2>2. w + m - BufSize + BufSize - w = m
    BY RingAssumption DEF Pos
  <2>3. QED BY <2>1, <2>2, ModSmall
<1>3. QED BY <1>1, <1>2, RingAssumption DEF Pos

\* A byte already in the ring lies at least BufSize - size places after
\* write_pos, going round.
LEMMA ModBehind ==
  \A p \in Pos : \A size \in 0 .. BufSize : \A j \in 0 .. (size - 1) :
    (p + j) % BufSize = (((p + size) % BufSize) + (BufSize + j - size)) % BufSize
<1> SUFFICES ASSUME NEW p \in Pos, NEW size \in 0 .. BufSize, NEW j \in 0 .. (size - 1)
             PROVE  (p + j) % BufSize
                      = (((p + size) % BufSize) + (BufSize + j - size)) % BufSize
  OBVIOUS
<1>1. CASE p + size < BufSize
  <2>1. (p + size) % BufSize = p + size /\ (p + j) % BufSize = p + j
    BY <1>1, ModSmall, RingAssumption DEF Pos
  <2>2. (p + j + BufSize) % BufSize = p + j
    BY <1>1, ModWrap, RingAssumption DEF Pos
  <2>3. p + size + (BufSize + j - size) = p + j + BufSize
    BY RingAssumption DEF Pos
  <2>4. QED BY <2>1, <2>2, <2>3
<1>2. CASE p + size >= BufSize
  <2>0. CASE p + size = 2 * BufSize
    BY <2>0, RingAssumption DEF Pos
  <2>1. CASE p + size < 2 * BufSize
    <3>1. (p + size) % BufSize = p + size - BufSize
      BY <1>2, <2>1, ModWrap, RingAssumption DEF Pos
    <3>2. p + size - BufSize + (BufSize + j - size) = p + j
      BY RingAssumption DEF Pos
    <3>3. QED BY <3>1, <3>2
  <2>2. QED BY <2>0, <2>1, RingAssumption DEF Pos
<1>3. QED BY <1>1, <1>2, RingAssumption DEF Pos

\* The bytes of a ring are a sequence of bytes, position by position.
LEMMA BytesAre ==
  ASSUME NEW r \in RingType, NEW n \in 0 .. BufSize
  PROVE  /\ RingBytes(r, n) \in Seq(Byte) /\ Len(RingBytes(r, n)) = n
         /\ \A i \in 1 .. n : RingBytes(r, n)[i] = r.buffer[(r.read_pos + i - 1) % BufSize]
<1>1. \A i \in 1 .. n : r.buffer[(r.read_pos + i - 1) % BufSize] \in Byte
  <2> TAKE i \in 1 .. n
  <2>1. r.read_pos + i - 1 \in Int
    BY RingAssumption DEF RingType, Pos
  <2>2. (r.read_pos + i - 1) % BufSize \in Pos
    BY <2>1, ModRange
  <2>3. QED BY <2>2 DEF RingType
<1>2. n \in Nat
  BY RingAssumption
<1>3. RingBytes(r, n) \in [1 .. n -> Byte]
  BY <1>1 DEF RingBytes
<1>4. QED BY <1>2, <1>3 DEF RingBytes

\* The producer's loop appends what it accepts and disturbs nothing.
LEMMA ContentsPut ==
  ASSUME NEW r \in RingType, RingConsistent(r), NEW data \in Seq(Byte)
  PROVE  Contents(RingPut(r, data))
           = Contents(r) \o SubSeq(data, 1, Accepted(r, Len(data)))
<1> DEFINE n == Accepted(r, Len(data))
           k(i) == (i + BufSize - r.write_pos) % BufSize
           q == RingPut(r, data)
           tail == SubSeq(data, 1, n)
<1>1. n \in Nat /\ n <= Len(data) /\ r.size + n <= BufSize /\ r.size \in Nat
  BY RingAssumption DEF RingType, Accepted, Smaller
<1>2. q \in RingType
  BY RingPutOK
<1>3. /\ q.read_pos = r.read_pos /\ q.size = r.size + n
      /\ \A i \in Pos : q.buffer[i] = IF k(i) < n THEN data[k(i) + 1] ELSE r.buffer[i]
  BY DEF RingPut
<1> HIDE DEF n, q, k
<1>4. /\ Contents(q) \in Seq(Byte) /\ Len(Contents(q)) = r.size + n
      /\ \A i \in 1 .. (r.size + n) :
           Contents(q)[i] = q.buffer[(r.read_pos + i - 1) % BufSize]
  <2>1. q.size \in 0 .. BufSize
    BY <1>2 DEF RingType
  <2>2. QED BY <1>2, <1>3, <2>1, BytesAre DEF Contents
<1>5. /\ Contents(r) \in Seq(Byte) /\ Len(Contents(r)) = r.size
      /\ \A i \in 1 .. r.size :
           Contents(r)[i] = r.buffer[(r.read_pos + i - 1) % BufSize]
  <2>1. r.size \in 0 .. BufSize
    BY DEF RingType
  <2>2. QED BY <2>1, BytesAre DEF Contents
<1>6. tail \in Seq(Byte) /\ Len(tail) = n /\ \A i \in 1 .. n : tail[i] = data[i]
  <2>1. \A i \in 1 .. n : data[i] \in Byte
    BY <1>1
  <2>2. 1 \in Int /\ n \in Int
    BY <1>1
  <2>3. /\ SubSeq(data, 1, n) \in Seq(Byte)
        /\ Len(SubSeq(data, 1, n)) = IF 1 <= n THEN n - 1 + 1 ELSE 0
        /\ \A i \in 1 .. n - 1 + 1 : SubSeq(data, 1, n)[i] = data[1 + i - 1]
    BY <2>1, <2>2, SubSeqProperties
  <2>4. QED BY <2>3, <1>1
<1> HIDE DEF tail
<1>7. /\ Contents(r) \o tail \in Seq(Byte)
      /\ Len(Contents(r) \o tail) = r.size + n
      /\ \A i \in 1 .. (r.size + n) : (Contents(r) \o tail)[i] =
           IF i <= r.size THEN Contents(r)[i] ELSE tail[i - r.size]
  <2>1. /\ Contents(r) \o tail \in Seq(Byte)
        /\ Len(Contents(r) \o tail) = Len(Contents(r)) + Len(tail)
        /\ \A i \in 1 .. Len(Contents(r)) + Len(tail) : (Contents(r) \o tail)[i] =
             IF i <= Len(Contents(r)) THEN Contents(r)[i] ELSE tail[i - Len(Contents(r))]
    <3> DEFINE c == Contents(r)
    <3>1. c \in Seq(Byte) /\ tail \in Seq(Byte)
      BY <1>5, <1>6
    <3> HIDE DEF c
    <3>2. /\ c \o tail \in Seq(Byte) /\ Len(c \o tail) = Len(c) + Len(tail)
          /\ \A i \in 1 .. Len(c) + Len(tail) : (c \o tail)[i] =
               IF i <= Len(c) THEN c[i] ELSE tail[i - Len(c)]
      BY <3>1, ConcatProperties
    <3>3. QED BY <3>2 DEF c
  <2>2. Len(Contents(r)) = r.size /\ Len(tail) = n
    BY <1>5, <1>6
  <2>3. QED BY <2>1, <2>2
<1>8. ASSUME NEW i \in 1 .. (r.size + n)
      PROVE  Contents(q)[i] = (Contents(r) \o tail)[i]
  <2> DEFINE p == (r.read_pos + i - 1) % BufSize
  <2>0. /\ i \in Nat /\ r.read_pos \in Pos /\ r.read_pos \in Nat /\ r.write_pos \in Pos
        /\ r.size \in 0 .. BufSize /\ r.write_pos = (r.read_pos + r.size) % BufSize
    BY <1>1, RingAssumption DEF RingType, Pos, RingConsistent
  <2>5. /\ i \in Int /\ r.size \in Int /\ n \in Int /\ BufSize \in Int /\ r.read_pos \in Int
         /\ 1 <= i /\ i <= r.size + n /\ 0 <= r.size /\ r.size + n <= BufSize /\ 0 <= n
    BY <1>1, <2>0, RingAssumption
  <2>1. p \in Pos
    BY <2>0, ModRange
  <2>2. CASE i <= r.size
    <3> DEFINE m == BufSize + (i - 1) - r.size
    <3>1. /\ m \in Pos /\ ~(m < n) /\ i - 1 \in 0 .. (r.size - 1)
          /\ r.read_pos + i - 1 = r.read_pos + (i - 1)
      BY <2>5, <2>2 DEF Pos
    <3>2. p = (r.write_pos + m) % BufSize
      BY <2>0, <3>1, ModBehind
    <3> HIDE DEF m, p
    <3>3. k(p) = m
      BY <2>0, <3>1, <3>2, ModDistance DEF k
    <3>4. q.buffer[p] = r.buffer[p]
      BY <1>3, <2>1, <3>1, <3>3
    <3>5. QED BY <1>4, <1>5, <1>7, <2>0, <2>2, <3>4 DEF p
  <2>3. CASE i > r.size
    <3> DEFINE m == i - r.size - 1
    <3>0. /\ m \in Int /\ 0 <= m /\ m + 1 = i - r.size /\ m < n
          /\ r.read_pos + r.size + m = r.read_pos + i - 1
      BY <2>5, <2>3
    <3> HIDE DEF m
    <3>1. /\ m \in Pos /\ i - r.size \in 1 .. n
          /\ m \in 0 .. BufSize /\ r.size + m <= BufSize
      BY <2>5, <3>0 DEF Pos
    <3>2. p = (r.write_pos + m) % BufSize
      BY <2>0, <3>0, <3>1, ModShift
    <3> HIDE DEF p
    <3>3. k(p) = m
      BY <2>0, <3>1, <3>2, ModDistance DEF k
    <3>4. q.buffer[p] = data[m + 1]
      BY <1>3, <2>1, <3>0, <3>3
    <3>5. tail[i - r.size] = data[m + 1]
      BY <1>6, <3>0, <3>1
    <3>6. QED BY <1>4, <1>7, <2>0, <2>3, <3>4, <3>5 DEF p
  <2>4. i <= r.size \/ i > r.size
    BY <2>5
  <2>6. QED BY <2>2, <2>3, <2>4
<1>9. Contents(q) = Contents(r) \o tail
  BY <1>4, <1>7, <1>8, SeqEqual
<1>10. QED BY <1>9 DEF q, tail, n

\* The consumer's loop copies out a prefix and leaves the rest.
LEMMA ContentsTake ==
  ASSUME NEW r \in RingType, RingConsistent(r), NEW n \in 0 .. r.size
  PROVE  /\ RingBytes(r, n) = SubSeq(Contents(r), 1, n)
         /\ Contents(RingTake(r, n)) = SubSeq(Contents(r), n + 1, Len(Contents(r)))
<1> DEFINE q == RingTake(r, n)
<1>1. /\ n \in Nat /\ r.size \in 0 .. BufSize /\ r.size \in Nat /\ n \in 0 .. BufSize
      /\ r.size - n \in 0 .. BufSize /\ r.read_pos \in Pos /\ r.read_pos \in Nat
      /\ n <= r.size
  BY RingAssumption DEF RingType, Pos
<1>2. /\ q \in RingType /\ q.size = r.size - n /\ q.buffer = r.buffer
      /\ q.read_pos = (r.read_pos + n) % BufSize
  BY RingTakeOK DEF RingTake
<1> HIDE DEF q
<1>3. /\ Contents(r) \in Seq(Byte) /\ Len(Contents(r)) = r.size
      /\ \A i \in 1 .. r.size : Contents(r)[i] = r.buffer[(r.read_pos + i - 1) % BufSize]
  BY <1>1, BytesAre DEF Contents
<1>4. /\ Contents(q) \in Seq(Byte) /\ Len(Contents(q)) = r.size - n
      /\ \A i \in 1 .. (r.size - n) :
           Contents(q)[i] = r.buffer[(((r.read_pos + n) % BufSize) + i - 1) % BufSize]
  BY <1>1, <1>2, BytesAre DEF Contents
<1>5. /\ RingBytes(r, n) \in Seq(Byte) /\ Len(RingBytes(r, n)) = n
      /\ \A i \in 1 .. n : RingBytes(r, n)[i] = r.buffer[(r.read_pos + i - 1) % BufSize]
  BY <1>1, BytesAre
<1>6. RingBytes(r, n) = SubSeq(Contents(r), 1, n)
  <2> DEFINE t == SubSeq(Contents(r), 1, n)
  <2>1. \A i \in 1 .. n : Contents(r)[i] \in Byte
    BY <1>1, <1>3
  <2>2. /\ t \in Seq(Byte) /\ Len(t) = IF 1 <= n THEN n - 1 + 1 ELSE 0
        /\ \A i \in 1 .. n - 1 + 1 : t[i] = Contents(r)[1 + i - 1]
    BY <1>1, <2>1, SubSeqProperties
  <2> HIDE DEF t
  <2>3. Len(t) = n /\ \A i \in 1 .. n : t[i] = Contents(r)[i]
    BY <2>2, <1>1
  <2>4. ASSUME NEW i \in 1 .. n PROVE t[i] = RingBytes(r, n)[i]
    <3>1. i \in 1 .. r.size
      BY <1>1
    <3>2. QED BY <1>3, <1>5, <2>3, <3>1
  <2>5. QED BY <1>5, <2>2, <2>3, <2>4, SeqEqual DEF t
<1>7. Contents(q) = SubSeq(Contents(r), n + 1, r.size)
  <2> DEFINE t == SubSeq(Contents(r), n + 1, r.size)
  <2>1. \A i \in (n + 1) .. r.size : Contents(r)[i] \in Byte
    BY <1>1, <1>3
  <2>2. /\ t \in Seq(Byte)
        /\ Len(t) = IF n + 1 <= r.size THEN r.size - (n + 1) + 1 ELSE 0
        /\ \A i \in 1 .. r.size - (n + 1) + 1 : t[i] = Contents(r)[(n + 1) + i - 1]
    <3>1. n + 1 \in Int /\ r.size \in Int
      BY <1>1
    <3>2. QED BY <2>1, <3>1, SubSeqProperties
  <2> HIDE DEF t
  <2>3. Len(t) = r.size - n /\ \A i \in 1 .. (r.size - n) : t[i] = Contents(r)[n + i]
    BY <2>2, <1>1
  <2>4. ASSUME NEW i \in 1 .. (r.size - n) PROVE Contents(q)[i] = t[i]
    <3>1. /\ i - 1 \in 0 .. BufSize /\ n + (i - 1) <= BufSize /\ n + i \in 1 .. r.size
          /\ r.read_pos + n + (i - 1) = r.read_pos + (n + i) - 1
      BY <1>1, RingAssumption
    <3>2. (((r.read_pos + n) % BufSize) + (i - 1)) % BufSize
            = (r.read_pos + n + (i - 1)) % BufSize
      BY <1>1, <3>1, ModShift
    <3>3. ((r.read_pos + n) % BufSize) + i - 1 = ((r.read_pos + n) % BufSize) + (i - 1)
      BY <1>1, ModRange, RingAssumption DEF Pos
    <3>4. Contents(q)[i] = r.buffer[(r.read_pos + (n + i) - 1) % BufSize]
      BY <1>4, <3>1, <3>2, <3>3
    <3>5. QED BY <1>3, <2>3, <3>1, <3>4
  <2>5. QED BY <1>4, <2>2, <2>3, <2>4, SeqEqual DEF t
<1>8. QED BY <1>3, <1>6, <1>7 DEF q

\* A flushed ring and zeroed memory hold nothing.
LEMMA ContentsEmpty ==
  /\ Contents(EmptyRing) = <<>>
  /\ \A r \in RingType : Contents(RingFlush(r)) = <<>>
<1>1. ASSUME NEW r \in RingType, r.size = 0 PROVE Contents(r) = <<>>
  <2>1. Contents(r) \in Seq(Byte) /\ Len(Contents(r)) = 0
    BY <1>1, BytesAre, RingAssumption DEF Contents
  <2>2. QED BY <2>1
<1>2. QED BY <1>1, EmptyRingOK, RingFlushOK
=============================================================================
