--------------------------- MODULE ComponentsProofs ---------------------------
(***************************************************************************)
(* The components that share no state with others, for every value of the  *)
(* constants: the ring buffer is a bounded FIFO; hard limits are only      *)
(* lowered; concurrent calls of sigaction form a chain, and a fault finds  *)
(* an action that was installed; clock_gettime returns times that the      *)
(* kernel has written; the heap's bitmap marks exactly the mapped pages,   *)
(* and its searches find the first range there is.                         *)
(***************************************************************************)
EXTENDS RingBuffer, Mman, Clock, SignalManager, ResourceLimits, SequenceTheorems, ListProofs, TLAPS
-----------------------------------------------------------------------------
(* RingBuffer *)

\* The only remainders taken are of sums of an index and a chunk length.
LEMMA Wrap ==
    ASSUME NEW x \in Nat, x < Capacity + Capacity
    PROVE  x % Capacity = IF x < Capacity THEN x ELSE x - Capacity
<1>1. CASE x < Capacity
  BY <1>1, CapacityAssumption
<1>2. CASE ~(x < Capacity)
  BY <1>2, CapacityAssumption
<1>3. QED BY <1>1, <1>2

LEMMA WrapIndex == \A x \in Nat : x % Capacity \in Index
BY CapacityAssumption DEF Index

\* The cell of the i-th byte held.
LEMMA WrapIn ==
    ASSUME NEW f \in Nat, f < Capacity, NEW i \in 1..Capacity
    PROVE  (f + i - 1) % Capacity =
              IF f + i - 1 < Capacity THEN f + i - 1 ELSE f + i - 1 - Capacity
BY Wrap, CapacityAssumption

\* An index moved on by a chunk that ends at the end of the array or before.
LEMMA Advance ==
    ASSUME NEW i \in Nat, i < Capacity, NEW n \in Nat, i + n <= Capacity
    PROVE  (i + n) % Capacity =
              IF i + n < Capacity THEN i + n ELSE i + n - Capacity
BY Wrap, CapacityAssumption

\* The fields of a well-formed buffer.
LEMMA Fields ==
    ASSUME NEW r, BufferOK(r)
    PROVE  /\ Capacity \in Nat /\ Capacity > 0
           /\ r.front \in Nat /\ r.front < Capacity
           /\ r.back \in Nat /\ r.back < Capacity
           /\ r.full \in BOOLEAN
           /\ r.full => r.front = r.back
           /\ r.buf \in [Index -> Byte]
           /\ Occupancy(r) \in Nat /\ Occupancy(r) <= Capacity
BY CapacityAssumption DEF BufferOK, Index, Occupancy

-----------------------------------------------------------------------------
(* One chunk of a read. *)

\* A chunk never exceeds what was asked for, what is held, or the array's end.
LEMMA ReadChunkBounds ==
    ASSUME NEW r, BufferOK(r), NEW len \in Nat
    PROVE  LET n == ReadChunkLen(r, len)
           IN  /\ n \in Nat /\ n <= len /\ n <= Occupancy(r)
               /\ r.front + n <= Capacity
BY Fields DEF ReadChunkLen, ReadEnd, Empty, Lesser, Occupancy

\* A chunk leaves a well-formed buffer that holds that much less.
LEMMA ReadChunkStep ==
    ASSUME NEW r, BufferOK(r), NEW n \in Nat,
           n <= Occupancy(r), r.front + n <= Capacity
    PROVE  LET s == AfterReadChunk(r, n)
           IN  /\ BufferOK(s)
               /\ Occupancy(s) = Occupancy(r) - n
               /\ s.buf = r.buf
               /\ s.front = (r.front + n) % Capacity
<1> DEFINE s == AfterReadChunk(r, n)
<1>1. (r.front + n) % Capacity =
         IF r.front + n < Capacity THEN r.front + n ELSE r.front + n - Capacity
  BY Fields, Wrap
<1>2. CASE n = 0
  <2>1. s = r BY <1>2 DEF AfterReadChunk
  <2>2. QED BY <2>1, <1>1, <1>2, Fields
<1>3. CASE n # 0
  <2>1. s = [front |-> (r.front + n) % Capacity, back |-> r.back,
             full |-> FALSE, buf |-> r.buf]
    BY <1>3 DEF AfterReadChunk
  <2>2. /\ s.front = (r.front + n) % Capacity
        /\ s.back = r.back /\ s.full = FALSE /\ s.buf = r.buf
    BY <2>1
  <2>3. BufferOK(s)
    <3>1. (r.front + n) % Capacity \in Index
      BY WrapIndex, Fields
    <3>2. r.back \in Index /\ r.buf \in [Index -> Byte]
      BY DEF BufferOK
    <3>3. QED BY <2>1, <3>1, <3>2 DEF BufferOK
  <2>4. Occupancy(s) = Occupancy(r) - n
    BY SMTT(30), <2>2, <1>1, <1>3, Fields DEF Occupancy
  <2>5. QED BY <2>2, <2>3, <2>4
<1>4. QED BY <1>2, <1>3

\* Bytes are taken from the front of the contents, in order.
LEMMA ReadChunkContents ==
    ASSUME NEW r, BufferOK(r), NEW n \in Nat,
           n <= Occupancy(r), r.front + n <= Capacity
    PROVE  LET s == AfterReadChunk(r, n)
           IN  /\ \A i \in 1..n : ReadChunk(r, n)[i] = Contents(r)[i]
               /\ \A i \in 1..Occupancy(r) - n :
                     Contents(s)[i] = Contents(r)[i + n]
<1> DEFINE s == AfterReadChunk(r, n)
<1>1. ASSUME NEW i \in 1..n
      PROVE  ReadChunk(r, n)[i] = Contents(r)[i]
  <2>1. (r.front + i - 1) % Capacity = r.front + i - 1
    BY Fields, Wrap
  <2>2. QED BY <2>1, Fields DEF ReadChunk, Contents
<1>2. ASSUME NEW i \in 1..Occupancy(r) - n
      PROVE  Contents(s)[i] = Contents(r)[i + n]
  <2>1. s.buf = r.buf /\ Occupancy(s) = Occupancy(r) - n
        /\ s.front = (r.front + n) % Capacity
    BY ReadChunkStep
  <2>2. (s.front + i - 1) % Capacity = (r.front + (i + n) - 1) % Capacity
    <3>1. (r.front + n) % Capacity =
            IF r.front + n < Capacity THEN r.front + n ELSE r.front + n - Capacity
      BY Fields, Wrap
    <3>2. (r.front + (i + n) - 1) % Capacity =
            IF r.front + (i + n) - 1 < Capacity THEN r.front + (i + n) - 1
            ELSE r.front + (i + n) - 1 - Capacity
      BY Fields, Wrap
    <3>3. CASE r.front + n < Capacity
      <4>1. s.front = r.front + n BY <2>1, <3>1, <3>3
      <4>2. s.front + i - 1 = r.front + (i + n) - 1 BY <4>1, Fields
      <4>3. QED BY <4>2
    <3>4. CASE r.front + n = Capacity
      <4>1. s.front = 0 BY <2>1, <3>1, <3>4, Fields
      <4>2. (i - 1) % Capacity = i - 1
        BY Fields, Wrap
      <4>3. QED BY <3>2, <3>4, <4>1, <4>2, Fields
    <3>5. QED BY <3>3, <3>4, Fields
  <2>3. QED BY <2>1, <2>2, Fields DEF Contents
<1>3. QED BY <1>1, <1>2

\* The first chunk falls short only at the end of the array; the second one
\* then starts at its beginning and falls short no more.
LEMMA ReadChunkMaximal ==
    ASSUME NEW r, BufferOK(r), NEW len \in Nat
    PROVE  LET n == ReadChunkLen(r, len)
           IN  /\ r.front = 0 => n = Lesser(len, Occupancy(r))
               /\ n = Lesser(len, Occupancy(r)) \/ r.front + n = Capacity
BY Fields DEF ReadChunkLen, ReadEnd, Empty, Lesser, Occupancy
-----------------------------------------------------------------------------
(* One chunk of a write. *)

BytesAt(data, off, n) == \A i \in 1..n : data[off + i] \in Byte

\* A chunk never exceeds the data, the free space, or the array's end; it
\* falls short of the data and the free space only at the end of the array.
LEMMA WriteChunkBounds ==
    ASSUME NEW r, BufferOK(r), NEW len \in Nat
    PROVE  LET n == WriteChunkLen(r, len)
           IN  /\ n \in Nat /\ n <= len /\ n <= Capacity - Occupancy(r)
               /\ r.back + n <= Capacity
               /\ r.back = 0 => n = Lesser(len, Capacity - Occupancy(r))
               /\ \/ n = Lesser(len, Capacity - Occupancy(r))
                  \/ r.back + n = Capacity
<1> DEFINE n == WriteChunkLen(r, len)
<1>1. CASE len = 0 \/ r.full
  <2>1. n = 0 BY <1>1 DEF WriteChunkLen
  <2>2. Lesser(len, Capacity - Occupancy(r)) = 0
    BY <1>1, Fields DEF Lesser, Occupancy
  <2>3. QED BY <2>1, <2>2, Fields
<1>2. CASE len # 0 /\ ~r.full /\ r.front > r.back
  <2>1. n = Lesser(len, r.front - r.back)
    BY <1>2 DEF WriteChunkLen, WriteEnd
  <2>2. Capacity - Occupancy(r) = r.front - r.back
    BY <1>2, Fields DEF Occupancy
  <2>3. QED BY <2>1, <2>2, <1>2, Fields DEF Lesser
<1>3. CASE len # 0 /\ ~r.full /\ ~(r.front > r.back)
  <2>1. n = Lesser(len, Capacity - r.back)
    BY <1>3 DEF WriteChunkLen, WriteEnd
  <2>2. Capacity - Occupancy(r) = Capacity - r.back + r.front
    BY <1>3, Fields DEF Occupancy
  <2>3. QED BY <2>1, <2>2, <1>3, Fields DEF Lesser
<1>4. QED BY <1>1, <1>2, <1>3

\* A chunk leaves a well-formed buffer that holds that much more.
LEMMA WriteChunkStep ==
    ASSUME NEW r, BufferOK(r), NEW n \in Nat,
           n <= Capacity - Occupancy(r), r.back + n <= Capacity,
           NEW off \in Nat, NEW data,
           BytesAt(data, off, n)
    PROVE  LET s == AfterWriteChunk(r, data, off, n)
           IN  /\ BufferOK(s)
               /\ Occupancy(s) = Occupancy(r) + n
               /\ s.front = r.front
               /\ s.back = (r.back + n) % Capacity
<1>0. (r.back + n) % Capacity =
         IF r.back + n < Capacity THEN r.back + n ELSE r.back + n - Capacity
  <2>1. r.back \in Nat /\ r.back < Capacity
    BY Fields
  <2>2. QED BY <2>1, Advance
<1> DEFINE s == AfterWriteChunk(r, data, off, n)
           b == (r.back + n) % Capacity
           cell(i) == IF r.back <= i /\ i < r.back + n
                      THEN data[off + i - r.back + 1] ELSE r.buf[i]
<1>1. b = IF r.back + n < Capacity THEN r.back + n ELSE r.back + n - Capacity
  BY <1>0
<1>2. CASE n = 0
  <2>1. s = r BY <1>2 DEF AfterWriteChunk
  <2>2. QED BY <2>1, <1>1, <1>2, Fields
<1>3. CASE n # 0
  <2>1. s = [front |-> r.front, back |-> b, full |-> b = r.front,
             buf |-> [i \in Index |-> cell(i)]]
    BY <1>3 DEF AfterWriteChunk
  <2>2. /\ s.front = r.front /\ s.back = b /\ s.full = (b = r.front)
        /\ s.buf = [i \in Index |-> cell(i)]
    BY <2>1
  <2>3. BufferOK(s)
    <3>1. b \in Index
      BY WrapIndex, Fields
    <3>2. ASSUME NEW i \in Index PROVE cell(i) \in Byte
      <4>1. CASE r.back <= i /\ i < r.back + n
        <5>1. i - r.back + 1 \in 1..n /\ off + i - r.back + 1 = off + (i - r.back + 1)
          BY SMTT(30), <4>1, Fields DEF Index
        <5>2. QED BY <4>1, <5>1 DEF BytesAt
      <4>2. CASE ~(r.back <= i /\ i < r.back + n)
        BY <4>2, Fields
      <4>3. QED BY <4>1, <4>2
    <3>3. [i \in Index |-> cell(i)] \in [Index -> Byte]
      BY <3>2
    <3>4. r.front \in Index /\ (b = r.front) \in BOOLEAN
      BY DEF BufferOK
    <3>5. s \in [front : Index, back : Index, full : BOOLEAN, buf : [Index -> Byte]]
      <4> HIDE DEF b, cell, s
      <4>1. QED BY <2>1, <3>1, <3>3, <3>4
    <3>6. s.full => s.front = s.back
      BY <2>2
    <3>7. QED BY <3>5, <3>6 DEF BufferOK
  <2>4. Occupancy(s) = Occupancy(r) + n
    <3>1. CASE r.full
      BY <3>1, <1>3, Fields DEF Occupancy
    <3>2. CASE ~r.full /\ b = r.front
      <4>1. s.full BY <2>2, <3>2
      <4>2. Occupancy(s) = Capacity BY <4>1 DEF Occupancy
      <4>3. Occupancy(r) + n = Capacity
        <5> HIDE DEF b
        <5>1. QED BY <3>2, <1>1, <1>3, Fields DEF Occupancy
      <4>4. QED BY <4>2, <4>3
    <3>3. CASE ~r.full /\ b # r.front
      <4>1. ~s.full BY <2>2, <3>3
      <4>2. Occupancy(s) = IF b >= r.front THEN b - r.front
                           ELSE Capacity - r.front + b
        BY <4>1, <2>2 DEF Occupancy
      <4>3. Occupancy(r) + n = IF b >= r.front THEN b - r.front
                               ELSE Capacity - r.front + b
        <5>1. Occupancy(r) = IF r.back >= r.front THEN r.back - r.front
                             ELSE Capacity - r.front + r.back
          BY <3>3 DEF Occupancy
        <5>2. /\ r.front \in Nat /\ r.front < Capacity /\ Capacity \in Nat
              /\ r.back \in Nat /\ r.back < Capacity
          BY Fields
        <5> HIDE DEF b
        <5>3. QED BY <5>1, <5>2, <3>3, <1>1, <1>3
      <4>4. QED BY <4>2, <4>3
    <3>4. QED BY <3>1, <3>2, <3>3
  <2>5. QED BY <2>2, <2>3, <2>4
<1>4. QED BY <1>2, <1>3

\* Bytes are added behind the contents, in order, and overwrite none of them.
LEMMA WriteChunkContents ==
    ASSUME NEW r, BufferOK(r), NEW n \in Nat,
           n <= Capacity - Occupancy(r), r.back + n <= Capacity,
           NEW off \in Nat, NEW data,
           BytesAt(data, off, n)
    PROVE  LET s == AfterWriteChunk(r, data, off, n)
           IN  /\ \A i \in 1..Occupancy(r) : Contents(s)[i] = Contents(r)[i]
               /\ \A i \in 1..n : Contents(s)[Occupancy(r) + i] = data[off + i]
<1> DEFINE s == AfterWriteChunk(r, data, off, n)
<1>1. CASE n = 0
  BY <1>1 DEF AfterWriteChunk
<1>2. CASE n # 0
  <2>1. /\ s.front = r.front /\ Occupancy(s) = Occupancy(r) + n
    BY WriteChunkStep
  <2>2. s.buf = [i \in Index |-> IF r.back <= i /\ i < r.back + n
                                 THEN data[off + i - r.back + 1] ELSE r.buf[i]]
    BY <1>2 DEF AfterWriteChunk
  <2>3. ASSUME NEW i \in 1..Occupancy(r)
        PROVE  Contents(s)[i] = Contents(r)[i]
    <3> DEFINE k == (r.front + i - 1) % Capacity
    <3>0. /\ r.front \in Nat /\ r.front < Capacity /\ Capacity \in Nat
          /\ i \in 1..Capacity
      BY Fields
    <3>1. k = IF r.front + i - 1 < Capacity THEN r.front + i - 1
              ELSE r.front + i - 1 - Capacity
      BY <3>0, WrapIn
    <3>2. k \in Index
      BY Fields, WrapIndex
    <3>3. ~(r.back <= k /\ k < r.back + n)
      <4> HIDE DEF k
      <4>1. QED BY <3>1, Fields DEF Occupancy
    <3>4. s.buf[k] = r.buf[k]
      <4> HIDE DEF k, s
      <4>1. QED BY <2>2, <3>2, <3>3
    <3>5. Contents(s)[i] = s.buf[k] /\ Contents(r)[i] = r.buf[k]
      BY <2>1, Fields DEF Contents
    <3>6. QED BY <3>4, <3>5
  <2>4. ASSUME NEW i \in 1..n
        PROVE  Contents(s)[Occupancy(r) + i] = data[off + i]
    <3> DEFINE j == Occupancy(r) + i
               k == (r.front + j - 1) % Capacity
    <3>1. j \in 1..Capacity
      BY Fields
    <3>2. k = IF r.front + j - 1 < Capacity THEN r.front + j - 1
              ELSE r.front + j - 1 - Capacity
      BY <3>1, Fields, WrapIn
    <3>3. k = r.back + i - 1 /\ k \in Index
      <4>1. /\ r.front \in Nat /\ r.front < Capacity /\ Capacity \in Nat
            /\ r.back \in Nat /\ r.back < Capacity
        BY Fields
      <4>2. ~r.full
        BY Fields DEF Occupancy
      <4>3. Occupancy(r) = IF r.back >= r.front THEN r.back - r.front
                           ELSE Capacity - r.front + r.back
        BY <4>2 DEF Occupancy
      <4> HIDE DEF k
      <4>4. QED BY <4>1, <4>3, <3>2 DEF Index
    <3>4. s.buf[k] = data[off + k - r.back + 1]
      <4> HIDE DEF k, s
      <4>1. QED BY <2>2, <3>3, Fields
    <3>5. off + k - r.back + 1 = off + i
      BY <3>3, Fields
    <3>6. Contents(s)[j] = s.buf[k]
      BY <2>1, <3>1, Fields DEF Contents
    <3>7. QED BY <3>4, <3>5, <3>6
  <2>5. QED BY <2>3, <2>4
<1>3. QED BY <1>1, <1>2
-----------------------------------------------------------------------------
(* Whole calls. *)

LEMMA FunIsSeq ==
    ASSUME NEW m \in Nat, NEW f \in [1..m -> Byte]
    PROVE  f \in Seq(Byte) /\ Len(f) = m
BY SeqDef

LEMMA ContentsSeq ==
    ASSUME NEW r, BufferOK(r)
    PROVE  /\ Contents(r) \in Seq(Byte)
           /\ Len(Contents(r)) = Occupancy(r)
           /\ Occupancy(r) \in Nat
<1>1. Occupancy(r) \in Nat
  BY Fields
<1>2. ASSUME NEW i \in 1..Occupancy(r)
      PROVE  r.buf[(r.front + i - 1) % Capacity] \in Byte
  <2>1. (r.front + i - 1) % Capacity \in Index
    BY Fields, WrapIndex
  <2>2. QED BY <2>1, Fields
<1>3. Contents(r) \in [1..Occupancy(r) -> Byte]
  BY <1>2 DEF Contents
<1>4. QED BY <1>1, <1>3, FunIsSeq

LEMMA ReadChunkSeq ==
    ASSUME NEW r, BufferOK(r), NEW n \in Nat, r.front + n <= Capacity
    PROVE  ReadChunk(r, n) \in Seq(Byte) /\ Len(ReadChunk(r, n)) = n
<1>1. ASSUME NEW i \in 1..n PROVE r.buf[r.front + i - 1] \in Byte
  BY SMTT(30), Fields DEF Index
<1>2. ReadChunk(r, n) \in [1..n -> Byte]
  BY <1>1 DEF ReadChunk
<1>3. QED BY <1>2, FunIsSeq

\* ert_ringbuffer_read returns the oldest bytes, as many as there are.
LEMMA ReadWhole ==
    ASSUME NEW r, BufferOK(r), NEW len \in Nat
    PROVE  LET n1 == ReadChunkLen(r, len)
               r1 == AfterReadChunk(r, n1)
               n2 == ReadChunkLen(r1, len - n1)
               r2 == AfterReadChunk(r1, n2)
               m  == Lesser(len, Occupancy(r))
           IN  /\ BufferOK(r2)
               /\ n1 + n2 = m
               /\ Contents(r2) = SubSeq(Contents(r), m + 1, Occupancy(r))
               /\ ReadChunk(r, n1) \o ReadChunk(r1, n2) = SubSeq(Contents(r), 1, m)
<1> DEFINE n1 == ReadChunkLen(r, len)
           r1 == AfterReadChunk(r, n1)
           n2 == ReadChunkLen(r1, len - n1)
           r2 == AfterReadChunk(r1, n2)
           m  == Lesser(len, Occupancy(r))
           d  == ReadChunk(r, n1) \o ReadChunk(r1, n2)
<1>1. /\ n1 \in Nat /\ n1 <= len /\ n1 <= Occupancy(r)
      /\ r.front + n1 <= Capacity
      /\ n1 = m \/ r.front + n1 = Capacity
  BY ReadChunkBounds, ReadChunkMaximal
<1> HIDE DEF n1
<1>2. /\ BufferOK(r1) /\ Occupancy(r1) = Occupancy(r) - n1
      /\ r1.front = (r.front + n1) % Capacity
  BY <1>1, ReadChunkStep
<1>3. len - n1 \in Nat /\ Occupancy(r) \in Nat /\ Occupancy(r1) \in Nat
  BY <1>1, <1>2, Fields
<1>4. /\ n2 \in Nat /\ n2 <= len - n1 /\ n2 <= Occupancy(r1)
      /\ r1.front + n2 <= Capacity
      /\ r1.front = 0 => n2 = Lesser(len - n1, Occupancy(r1))
  <2> HIDE DEF r1
  <2>1. QED BY <1>2, <1>3, ReadChunkBounds, ReadChunkMaximal
<1> HIDE DEF r1, n2
<1>5. BufferOK(r2) /\ Occupancy(r2) = Occupancy(r1) - n2
  BY <1>2, <1>4, ReadChunkStep
<1>6. n1 + n2 = m
  <2>1. CASE n1 = m
    BY <2>1, <1>1, <1>2, <1>3, <1>4 DEF Lesser
  <2>2. CASE r.front + n1 = Capacity
    <3>1. Capacity % Capacity = 0
      BY Wrap, CapacityAssumption
    <3>2. n2 = Lesser(len - n1, Occupancy(r1))
      BY <2>2, <1>2, <1>4, <3>1
    <3>3. QED BY <3>2, <1>1, <1>2, <1>3 DEF Lesser
  <2>3. QED BY <1>1, <2>1, <2>2
<1>7. m \in Nat /\ m <= Occupancy(r)
  BY <1>3 DEF Lesser
<1> HIDE DEF m, r2
<1>8. /\ Contents(r) \in Seq(Byte) /\ Len(Contents(r)) = Occupancy(r)
      /\ Contents(r2) \in Seq(Byte) /\ Len(Contents(r2)) = Occupancy(r) - m
  <2>1. Occupancy(r2) = Occupancy(r) - m
    BY <1>1, <1>2, <1>3, <1>4, <1>5, <1>6
  <2>2. QED BY <2>1, <1>5, ContentsSeq
<1>9. Contents(r2) = SubSeq(Contents(r), m + 1, Occupancy(r))
  <2> DEFINE t == SubSeq(Contents(r), m + 1, Occupancy(r))
  <2>1. \A i \in m + 1..Occupancy(r) : Contents(r)[i] \in Byte
    BY <1>3, <1>7, <1>8, ElementOfSeq
  <2>2. /\ t \in Seq(Byte) /\ Len(t) = Occupancy(r) - m
        /\ \A i \in 1..Occupancy(r) - m : t[i] = Contents(r)[m + i]
    <3>1. m + 1 \in Int /\ Occupancy(r) \in Int
      BY <1>3, <1>7
    <3>2. /\ t \in Seq(Byte)
          /\ Len(t) = IF m + 1 <= Occupancy(r) THEN Occupancy(r) - (m + 1) + 1 ELSE 0
          /\ \A i \in 1..Occupancy(r) - (m + 1) + 1 :
                t[i] = Contents(r)[(m + 1) + i - 1]
      BY <2>1, <3>1, SubSeqProperties
    <3> HIDE DEF t
    <3>3. QED BY <3>2, <1>3, <1>7
  <2>3. ASSUME NEW i \in 1..Occupancy(r) - m
        PROVE  Contents(r2)[i] = Contents(r)[m + i]
    <3>1. i \in 1..Occupancy(r1) - n2 /\ i + n2 \in 1..Occupancy(r) - n1
      BY <1>1, <1>2, <1>3, <1>4, <1>6, <1>7
    <3>2. Contents(r2)[i] = Contents(r1)[i + n2]
      BY <3>1, <1>2, <1>4, ReadChunkContents DEF r2
    <3>3. Contents(r1)[i + n2] = Contents(r)[(i + n2) + n1]
      BY <3>1, <1>1, ReadChunkContents DEF r1
    <3>4. (i + n2) + n1 = m + i
      BY <1>1, <1>4, <1>6, <1>7
    <3>5. QED BY <3>2, <3>3, <3>4
  <2> HIDE DEF t
  <2>4. Contents(r2) = t
    BY <1>8, <2>2, <2>3, SeqEqual
  <2>5. QED BY <2>4 DEF t
<1>10. d = SubSeq(Contents(r), 1, m)
  <2> DEFINE t == SubSeq(Contents(r), 1, m)
             c1 == ReadChunk(r, n1)
             c2 == ReadChunk(r1, n2)
  <2>1. /\ c1 \in Seq(Byte) /\ Len(c1) = n1
        /\ c2 \in Seq(Byte) /\ Len(c2) = n2
    BY <1>1, <1>2, <1>4, ReadChunkSeq
  <2>2. /\ t \in Seq(Byte) /\ Len(t) = m
        /\ \A i \in 1..m : t[i] = Contents(r)[i]
    <3>1. \A i \in 1..m : Contents(r)[i] \in Byte
      BY <1>3, <1>7, <1>8, ElementOfSeq
    <3>2. /\ t \in Seq(Byte)
          /\ Len(t) = IF 1 <= m THEN m - 1 + 1 ELSE 0
          /\ \A i \in 1..m - 1 + 1 : t[i] = Contents(r)[1 + i - 1]
      BY <3>1, <1>7, SubSeqProperties
    <3> HIDE DEF t
    <3>3. QED BY <3>2, <1>7
  <2>3. ASSUME NEW i \in 1..n1 PROVE c1[i] = Contents(r)[i]
    BY <1>1, ReadChunkContents
  <2>4. ASSUME NEW i \in 1..n2 PROVE c2[i] = Contents(r)[i + n1]
    <3>1. i \in 1..Occupancy(r) - n1 /\ i \in 1..n2
      BY <1>1, <1>2, <1>3, <1>4
    <3>2. c2[i] = Contents(r1)[i]
      BY <1>2, <1>4, ReadChunkContents
    <3>3. Contents(r1)[i] = Contents(r)[i + n1]
      BY <3>1, <1>1, ReadChunkContents DEF r1
    <3>4. QED BY <3>2, <3>3
  <2> HIDE DEF t, c1, c2
  <2>5. /\ c1 \o c2 \in Seq(Byte) /\ Len(c1 \o c2) = m
        /\ \A i \in 1..m : (c1 \o c2)[i] = IF i <= n1 THEN c1[i] ELSE c2[i - n1]
    BY <2>1, <1>6, ConcatProperties
  <2>6. ASSUME NEW i \in 1..m PROVE (c1 \o c2)[i] = t[i]
    <3>1. CASE i <= n1
      BY SMTT(90), <3>1, <2>2, <2>3, <2>5, <1>1
    <3>2. CASE ~(i <= n1)
      <4>1. i - n1 \in 1..n2 /\ (i - n1) + n1 = i
        BY <3>2, <1>1, <1>4, <1>6, <1>7
      <4>2. c2[i - n1] = Contents(r)[i]
        BY <4>1, <2>4
      <4>3. QED BY <4>2, <3>2, <2>2, <2>5
    <3>3. QED BY <3>1, <3>2
  <2>7. c1 \o c2 = t
    BY <2>2, <2>5, <2>6, SeqEqual
  <2>8. QED BY <2>7 DEF c1, c2, t
<1>11. QED BY <1>5, <1>6, <1>9, <1>10 DEF n1, r1, n2, m, r2

\* ert_ringbuffer_write appends the data, as much as there is room for.
LEMMA WriteWhole ==
    ASSUME NEW r, BufferOK(r), NEW data \in Seq(Byte)
    PROVE  LET n1 == WriteChunkLen(r, Len(data))
               r1 == AfterWriteChunk(r, data, 0, n1)
               n2 == WriteChunkLen(r1, Len(data) - n1)
               r2 == AfterWriteChunk(r1, data, n1, n2)
               m  == Lesser(Len(data), Capacity - Occupancy(r))
           IN  /\ BufferOK(r2)
               /\ n1 + n2 = m
               /\ Contents(r2) = Contents(r) \o SubSeq(data, 1, m)
<1> DEFINE len == Len(data)
           n1 == WriteChunkLen(r, len)
           r1 == AfterWriteChunk(r, data, 0, n1)
           n2 == WriteChunkLen(r1, len - n1)
           r2 == AfterWriteChunk(r1, data, n1, n2)
           m  == Lesser(len, Capacity - Occupancy(r))
           t  == SubSeq(data, 1, m)
<1>0. len \in Nat
  BY LenProperties
<1>0a. \A i \in 1..len : data[i] \in Byte
  BY LenProperties, ElementOfSeq
<1> HIDE DEF len
<1>1. /\ n1 \in Nat /\ n1 <= len /\ n1 <= Capacity - Occupancy(r)
      /\ r.back + n1 <= Capacity
      /\ n1 = m \/ r.back + n1 = Capacity
  BY <1>0, WriteChunkBounds
<1> HIDE DEF n1
<1>2. BytesAt(data, 0, n1)
  BY <1>0, <1>0a, <1>1 DEF BytesAt
<1>3. /\ BufferOK(r1) /\ Occupancy(r1) = Occupancy(r) + n1
      /\ r1.back = (r.back + n1) % Capacity
  BY <1>1, <1>2, WriteChunkStep
<1>3a. /\ \A i \in 1..Occupancy(r) : Contents(r1)[i] = Contents(r)[i]
       /\ \A i \in 1..n1 : Contents(r1)[Occupancy(r) + i] = data[0 + i]
  <2>1. 0 \in Nat
    OBVIOUS
  <2>2. QED BY <2>1, <1>1, <1>2, WriteChunkContents
<1>4. /\ len - n1 \in Nat /\ Occupancy(r) \in Nat /\ Occupancy(r1) \in Nat
      /\ Occupancy(r) <= Capacity /\ Occupancy(r1) <= Capacity
      /\ Capacity \in Nat
  BY <1>0, <1>1, <1>3, Fields
<1> HIDE DEF r1
<1>5. /\ n2 \in Nat /\ n2 <= len - n1 /\ n2 <= Capacity - Occupancy(r1)
      /\ r1.back + n2 <= Capacity
      /\ r1.back = 0 => n2 = Lesser(len - n1, Capacity - Occupancy(r1))
  BY <1>3, <1>4, WriteChunkBounds
<1> HIDE DEF n2
<1>6. BytesAt(data, n1, n2)
  BY <1>0, <1>0a, <1>1, <1>5 DEF BytesAt
<1>7. BufferOK(r2) /\ Occupancy(r2) = Occupancy(r1) + n2
  BY <1>1, <1>3, <1>5, <1>6, WriteChunkStep
<1>7a. /\ \A i \in 1..Occupancy(r1) : Contents(r2)[i] = Contents(r1)[i]
       /\ \A i \in 1..n2 : Contents(r2)[Occupancy(r1) + i] = data[n1 + i]
  BY <1>1, <1>3, <1>5, <1>6, WriteChunkContents
<1> HIDE DEF r2
<1>8. n1 + n2 = m
  <2>1. CASE n1 = m
    <3>1. n1 = len \/ n1 = Capacity - Occupancy(r)
      BY <2>1 DEF m, Lesser
    <3>2. n2 = 0
      BY <3>1, <1>0, <1>1, <1>3, <1>4, <1>5
    <3>3. QED BY <3>2, <2>1, <1>1
  <2>2. CASE r.back + n1 = Capacity
    <3>1. Capacity % Capacity = 0
      BY Wrap, CapacityAssumption
    <3>2. n2 = Lesser(len - n1, Capacity - Occupancy(r1))
      BY <2>2, <1>3, <1>5, <3>1
    <3>3. QED BY <3>2, <1>0, <1>1, <1>3, <1>4 DEF Lesser
  <2>3. QED BY <1>1, <2>1, <2>2
<1>9. m \in Nat /\ m <= len
  BY <1>0, <1>4 DEF m, Lesser
<1> HIDE DEF m
<1>10. /\ t \in Seq(Byte) /\ Len(t) = m
       /\ \A i \in 1..m : t[i] = data[i]
  <2>0. m \in Int /\ m - 1 + 1 = m
    BY <1>9
  <2>1. \A i \in 1..m : data[i] \in Byte
    BY <1>0, <1>0a, <1>9
  <2>2. /\ t \in Seq(Byte)
        /\ Len(t) = IF 1 <= m THEN m - 1 + 1 ELSE 0
        /\ \A i \in 1..m - 1 + 1 : t[i] = data[1 + i - 1]
    BY <2>0, <2>1, SubSeqProperties
  <2> HIDE DEF t
  <2>3. Len(t) = m
    BY <2>2, <1>9
  <2>4. ASSUME NEW i \in 1..m PROVE t[i] = data[i]
    <3>1. 1 + i - 1 = i /\ i \in 1..m - 1 + 1
      BY <2>0
    <3>2. QED BY <3>1, <2>2
  <2>5. QED BY <2>2, <2>3, <2>4
<1>11. /\ Contents(r) \in Seq(Byte) /\ Len(Contents(r)) = Occupancy(r)
       /\ Contents(r2) \in Seq(Byte) /\ Len(Contents(r2)) = Occupancy(r) + m
  <2>1. Occupancy(r2) = Occupancy(r) + m
    BY <1>1, <1>3, <1>4, <1>5, <1>7, <1>8
  <2>2. QED BY <2>1, <1>7, ContentsSeq
<1> HIDE DEF t
<1> DEFINE c == Contents(r) \o t
<1>12. /\ c \in Seq(Byte) /\ Len(c) = Occupancy(r) + m
       /\ \A i \in 1..Occupancy(r) + m :
             c[i] = IF i <= Occupancy(r) THEN Contents(r)[i] ELSE t[i - Occupancy(r)]
  <2>1. /\ c \in Seq(Byte) /\ Len(c) = Len(Contents(r)) + Len(t)
        /\ \A i \in 1..Len(Contents(r)) + Len(t) :
              c[i] = IF i <= Len(Contents(r)) THEN Contents(r)[i]
                     ELSE t[i - Len(Contents(r))]
    BY <1>10, <1>11, ConcatProperties
  <2> HIDE DEF c
  <2>2. QED BY <2>1, <1>10, <1>11
<1> HIDE DEF c
<1>13. ASSUME NEW i \in 1..Occupancy(r) + m
       PROVE  Contents(r2)[i] = c[i]
  <2>1. CASE i <= Occupancy(r)
    <3>1. i \in 1..Occupancy(r) /\ i \in 1..Occupancy(r1)
      BY <2>1, <1>1, <1>3, <1>4, <1>9
    <3>2. Contents(r2)[i] = Contents(r)[i]
      BY <3>1, <1>3a, <1>7a
    <3>3. QED BY <2>1, <3>2, <1>12
  <2>2. CASE i > Occupancy(r) /\ i <= Occupancy(r1)
    <3>1. i - Occupancy(r) \in 1..n1 /\ Occupancy(r) + (i - Occupancy(r)) = i
          /\ i - Occupancy(r) \in 1..m /\ ~(i <= Occupancy(r))
          /\ i \in 1..Occupancy(r1) /\ 0 + (i - Occupancy(r)) = i - Occupancy(r)
      BY SMTT(30), <2>2, <1>1, <1>3, <1>4, <1>5, <1>8
    <3>2. Contents(r2)[i] = Contents(r1)[i]
      BY <3>1, <1>7a
    <3>3. Contents(r1)[i] = data[i - Occupancy(r)]
      BY <3>1, <1>3a
    <3>4. QED BY <3>1, <3>2, <3>3, <1>10, <1>12
  <2>3. CASE i > Occupancy(r1)
    <3>1. i - Occupancy(r1) \in 1..n2 /\ Occupancy(r1) + (i - Occupancy(r1)) = i
          /\ i - Occupancy(r) \in 1..m /\ ~(i <= Occupancy(r))
          /\ n1 + (i - Occupancy(r1)) = i - Occupancy(r)
          /\ i \in 1..Occupancy(r) + m
      BY SMTT(30), <2>3, <1>1, <1>3, <1>4, <1>5, <1>8, <1>9
    <3>2. Contents(r2)[i] = data[i - Occupancy(r)]
      BY <3>1, <1>7a
    <3>3. QED BY <3>1, <3>2, <1>10, <1>12
  <2>4. QED BY <2>1, <2>2, <2>3, <1>4
<1>14. Contents(r2) = c
  BY <1>11, <1>12, <1>13, SeqEqual
<1>15. QED BY <1>7, <1>8, <1>14 DEF len, n1, r1, n2, r2, m, t, c
-----------------------------------------------------------------------------
(* The theorems. *)

LEMMA DataIsSeq ==
    ASSUME NEW len \in OpSizes, NEW data \in [1..len -> Byte]
    PROVE  data \in Seq(Byte) /\ Len(data) = len
BY OpSizesAssumption, FunIsSeq

LEMMA InitOK == Init => TypeOK /\ Contents(rb) = <<>>
<1> SUFFICES ASSUME Init PROVE TypeOK /\ Contents(rb) = <<>>
  OBVIOUS
<1>1. BufferOK(Alloc)
  BY CapacityAssumption, ByteAssumption DEF Alloc, BufferOK, Index
<1>2. TypeOK
  BY <1>1 DEF Init, TypeOK, Result
<1>3. Len(Contents(rb)) = 0 /\ Contents(rb) \in Seq(Byte)
  <2>1. Occupancy(rb) = 0
    BY CapacityAssumption DEF Init, Alloc, Occupancy
  <2>2. QED BY <2>1, <1>2, ContentsSeq DEF TypeOK
<1>4. QED BY <1>2, <1>3, EmptySeq

LEMMA TypeStep == TypeOK /\ [Next]_vars => TypeOK'
<1> SUFFICES ASSUME TypeOK, [Next]_vars PROVE TypeOK'
  OBVIOUS
<1>1. ASSUME NEW len \in OpSizes, NEW data \in [1..len -> Byte], Write(data)
      PROVE  TypeOK'
  <2>1. Lesser(Len(data), Capacity - Occupancy(rb)) \in Nat
    BY DataIsSeq, OpSizesAssumption, Fields DEF TypeOK, Lesser
  <2>2. QED BY <1>1, <2>1, DataIsSeq, WriteWhole DEF Write, TypeOK, Result
<1>2. ASSUME NEW len \in OpSizes, Read(len)
      PROVE  TypeOK'
  <2>1. len \in Nat /\ Lesser(len, Occupancy(rb)) \in Nat
    BY OpSizesAssumption, Fields DEF TypeOK, Lesser
  <2>2. QED BY <1>2, <2>1, ReadWhole DEF Read, TypeOK, Result
<1>3. CASE IsEmpty
  BY <1>3 DEF IsEmpty, TypeOK, Result
<1>4. CASE UNCHANGED vars
  BY <1>4 DEF vars, TypeOK
<1>5. QED BY <1>1, <1>2, <1>3, <1>4 DEF Next

\* For every capacity and every sequence of calls the indices stay inside the
\* array and _full is set only while they coincide: no memcpy of _read or
\* _write (ringbuffer.c:30, 57) leaves the buffer.
THEOREM TypeCorrect == Spec => []TypeOK
<1>1. QED BY InitOK, TypeStep, PTL DEF Spec

\* ringbuffer.c implements a bounded first-in first-out queue.
THEOREM Refinement == Spec => ImplementsFifo
<1>1. Init => Fifo!Init
  BY InitOK DEF Init, Fifo!Init, Result, Fifo!Result
<1>2. TypeOK /\ [Next]_vars => [Fifo!Next]_(Fifo!fifoVars)
  <2> SUFFICES ASSUME TypeOK, [Next]_vars PROVE [Fifo!Next]_(Fifo!fifoVars)
    OBVIOUS
  <2>0. BufferOK(rb) /\ Contents(rb) \in Seq(Byte) /\ Len(Contents(rb)) = Occupancy(rb)
    BY ContentsSeq DEF TypeOK
  <2>1. ASSUME NEW len \in OpSizes, NEW data \in [1..len -> Byte], Write(data)
        PROVE  Fifo!Next
    <3>1. Fifo!Write(data)
      BY <2>0, <2>1, DataIsSeq, WriteWhole
      DEF Write, Fifo!Write, Result, Fifo!Result, Lesser, Fifo!Lesser
    <3>2. QED BY <3>1 DEF Fifo!Next
  <2>2. ASSUME NEW len \in OpSizes, Read(len)
        PROVE  Fifo!Next
    <3>1. len \in Nat BY OpSizesAssumption
    <3>2. Fifo!Read(len)
      BY <2>0, <2>2, <3>1, ReadWhole
      DEF Read, Fifo!Read, Result, Fifo!Result, Lesser, Fifo!Lesser
    <3>3. QED BY <3>2 DEF Fifo!Next
  <2>3. CASE IsEmpty
    <3>1. Empty(rb) <=> Contents(rb) = <<>>
      <4>1. Empty(rb) <=> Occupancy(rb) = 0
        BY <2>0, Fields DEF Empty, Occupancy
      <4>2. QED BY <4>1, <2>0, EmptySeq
    <3>2. Fifo!Empty
      BY <2>3, <3>1 DEF IsEmpty, Fifo!Empty, Result, Fifo!Result
    <3>3. QED BY <3>2 DEF Fifo!Next
  <2>4. CASE UNCHANGED vars
    BY <2>4 DEF vars, Fifo!fifoVars
  <2>5. QED BY <2>1, <2>2, <2>3, <2>4 DEF Next
<1>3. QED BY <1>1, <1>2, TypeCorrect, PTL DEF Spec, ImplementsFifo, Fifo!Spec
-----------------------------------------------------------------------------
(* ResourceLimits *)

Requests == [step : {"idle", "lock", "get", "check", "set", "returned"},
             new : Limit \cup {None}, old : Limit \cup {None}]
LimitsTypeOK == /\ limit \in Limit /\ limitsLock \in Thread \cup {None}
                /\ request \in [Thread -> Requests] /\ asked \subseteq 0..MaxLimit

\* The thread that has compared the limits owns the lock until it has set them.
Owns(t) == /\ request[t].step \in {"get", "check", "set"} => limitsLock = t
           /\ request[t].step = "set" => /\ request[t].new \in Limit
                                         /\ Allowed(request[t].new, limit.max)
LimitsInv == LimitsTypeOK /\ (\A t \in Thread : Owns(t)) /\ HardLimitKept

\* A step that only reads the limits.
LEMMA ReadingKeeps ==
    ASSUME LimitsInv, NEW t \in Thread, NEW r \in Requests, request' = [request EXCEPT ![t] = r],
           UNCHANGED <<limit, asked>>, Owns(t)',
           \/ limitsLock' = limitsLock
           \/ limitsLock = None /\ limitsLock' = t
           \/ limitsLock = t /\ limitsLock' = None
    PROVE  LimitsInv'
<1>1. LimitsTypeOK'
    BY DEF LimitsInv, LimitsTypeOK
<1>2. \A u \in Thread : u # t => request'[u] = request[u]
    BY DEF LimitsInv, LimitsTypeOK
<1>3. \A u \in Thread : Owns(u)'
    BY <1>2, CallersAssumption DEF LimitsInv, Owns
<1>4. HardLimitKept'
    BY DEF LimitsInv, HardLimitKept
<1>5. QED BY <1>1, <1>3, <1>4 DEF LimitsInv

\* Every step of prlimit keeps the invariant.
LEMMA LimitsStep ==
    ASSUME LimitsInv, LimitsNext
    PROVE  LimitsInv'
<1>0. request \in [Thread -> Requests] /\ limit \in Limit /\ asked \subseteq 0..MaxLimit
    BY DEF LimitsInv, LimitsTypeOK
<1>1. PICK t \in Thread : (\E new \in Limit \cup {None} : Prlimit(t, new)) \/ PrlimitStep(t)
    BY DEF LimitsNext
<1>2. Owns(t) /\ request[t] \in Requests
    BY <1>0 DEF LimitsInv
<1>3. CASE \E new \in Limit \cup {None} : Prlimit(t, new)
  <2>1. PICK new \in Limit \cup {None} : Prlimit(t, new)
      BY <1>3
  <2>2. PICK r \in Requests : r = [step |-> "lock", new |-> new, old |-> None]
      BY DEF Requests
  <2>3. request' = [request EXCEPT ![t] = r] /\ UNCHANGED <<limit, asked, limitsLock>>
      BY <2>1, <2>2 DEF Prlimit
  <2>4. Owns(t)'
      BY <1>0, <2>2, <2>3 DEF Owns
  <2>5. QED BY <2>3, <2>4, ReadingKeeps
<1>4. CASE LockLimits(t)
  <2>1. PICK r \in Requests : r = [request[t] EXCEPT !.step = "get"]
      BY <1>2 DEF Requests
  <2>2. /\ request' = [request EXCEPT ![t] = r] /\ UNCHANGED <<limit, asked>>
        /\ limitsLock = None /\ limitsLock' = t
      BY <1>4, <2>1 DEF LockLimits
  <2>3. r.step = "get"
      BY <1>2, <2>1 DEF Requests
  <2>4. Owns(t)'
      BY <1>0, <2>2, <2>3 DEF Owns
  <2>5. QED BY <2>2, <2>4, ReadingKeeps
<1>5. CASE GetLimit(t)
  <2>1. PICK r \in Requests : r = [step |-> "check", new |-> request[t].new, old |-> limit]
      BY <1>0, <1>2 DEF Requests
  <2>2. /\ request' = [request EXCEPT ![t] = r] /\ UNCHANGED <<limit, asked, limitsLock>>
        /\ request[t].step = "get"
      BY <1>5, <2>1 DEF GetLimit
  <2>3. Owns(t)'
      BY <1>0, <1>2, <2>1, <2>2 DEF Owns
  <2>4. QED BY <2>2, <2>3, ReadingKeeps
<1>6. CASE CheckLimit(t)
  <2>1. /\ request[t].step = "check" /\ limitsLock = t /\ UNCHANGED <<limit, asked>>
      BY <1>2, <1>6 DEF CheckLimit, Owns
  <2>2. CASE request[t].new # None /\ Allowed(request[t].new, limit.max)
    <3>1. PICK r \in Requests : r = [request[t] EXCEPT !.step = "set"]
        BY <1>2 DEF Requests
    <3>2. request' = [request EXCEPT ![t] = r] /\ UNCHANGED limitsLock
        BY <1>6, <2>2, <3>1 DEF CheckLimit
    <3>3. r.step = "set" /\ r.new = request[t].new /\ r.new \in Limit
        BY <1>2, <2>2, <3>1 DEF Requests
    <3>4. Owns(t)'
        BY <1>0, <2>1, <2>2, <3>2, <3>3 DEF Owns
    <3>5. QED BY <2>1, <3>2, <3>4, ReadingKeeps
  <2>3. CASE ~(request[t].new # None /\ Allowed(request[t].new, limit.max))
    <3>1. PICK r \in Requests : r = [request[t] EXCEPT !.step = "returned"]
        BY <1>2 DEF Requests
    <3>2. request' = [request EXCEPT ![t] = r] /\ limitsLock' = None
        BY <1>6, <2>3, <3>1 DEF CheckLimit
    <3>3. r.step = "returned"
        BY <1>2, <3>1 DEF Requests
    <3>4. Owns(t)'
        BY <1>0, <3>2, <3>3 DEF Owns
    <3>5. QED BY <2>1, <3>2, <3>4, ReadingKeeps
  <2>4. QED BY <2>2, <2>3
<1>7. CASE SetLimit(t)
  <2>1. /\ limitsLock = t /\ request[t].new \in Limit /\ Allowed(request[t].new, limit.max)
      BY <1>2, <1>7 DEF SetLimit, Owns
  <2>2. PICK r \in Requests : r = [request[t] EXCEPT !.step = "returned"]
      BY <1>2 DEF Requests
  <2>3. /\ request' = [request EXCEPT ![t] = r] /\ limitsLock' = None /\ r.step = "returned"
        /\ limit' = request[t].new /\ asked' = asked \cup {request[t].new.max}
      BY <1>2, <1>7, <2>2 DEF SetLimit, Requests
  <2>4. LimitsTypeOK'
      BY <1>0, <2>1, <2>3 DEF LimitsTypeOK, Limit
  <2>5. \A u \in Thread : Owns(u)'
    <3>1. \A u \in Thread : u # t => request[u].step \notin {"get", "check", "set"} /\ request'[u] = request[u]
        BY <1>0, <2>1, <2>3 DEF LimitsInv, Owns
    <3>2. request'[t].step = "returned"
        BY <1>0, <2>3
    <3>3. QED BY <3>1, <3>2 DEF Owns
  <2>6. HardLimitKept'
    <3>1. limit'.max <= limit.max /\ limit'.cur <= limit'.max /\ limit'.max \in Nat /\ limit.max \in Nat
        BY <1>0, <2>1, <2>3, LimitAssumption DEF Allowed, Limit
    <3>2. \A hard \in asked : hard \in Nat /\ limit.max <= hard
        BY <1>0, LimitAssumption DEF LimitsInv, HardLimitKept
    <3>3. \A hard \in asked' : hard \in asked \/ hard = limit'.max
        BY <2>3
    <3>4. QED BY <3>1, <3>2, <3>3 DEF HardLimitKept
  <2>7. QED BY <2>4, <2>5, <2>6 DEF LimitsInv
<1>8. QED BY <1>1, <1>3, <1>4, <1>5, <1>6, <1>7 DEF PrlimitStep

\* However many threads call prlimit at the same time, no call raises a hard
\* limit that another has lowered, and the soft limit stays below the hard one
\* (resource.cpp: the check and the assignment are under one lock).
THEOREM HardLimitsOnlyLowered == LimitsInit /\ [][LimitsNext]_limitVars => []HardLimitKept
<1>1. LimitsInit => LimitsInv
  <2> SUFFICES ASSUME LimitsInit PROVE LimitsInv
      OBVIOUS
  <2>1. NoRequest \in Requests /\ NoRequest.step = "idle"
      BY DEF NoRequest, Requests
  <2>2. request = [t \in Thread |-> NoRequest] /\ limit = InitialLimit /\ limitsLock = None /\ asked = {}
      BY DEF LimitsInit
  <2>3. LimitsTypeOK
      BY <2>1, <2>2, LimitAssumption DEF LimitsTypeOK
  <2>4. \A t \in Thread : Owns(t)
      BY <2>1, <2>2 DEF Owns
  <2>5. HardLimitKept
      BY <2>2, LimitAssumption DEF HardLimitKept
  <2>6. QED BY <2>3, <2>4, <2>5 DEF LimitsInv
<1>2. LimitsInv /\ [LimitsNext]_limitVars => LimitsInv'
  <2>1. ASSUME LimitsInv, UNCHANGED limitVars PROVE LimitsInv'
      BY <2>1 DEF limitVars, LimitsInv, LimitsTypeOK, Owns, HardLimitKept
  <2>2. QED BY <2>1, LimitsStep
<1>3. LimitsInv => HardLimitKept
    BY DEF LimitsInv
<1>4. QED BY <1>1, <1>2, <1>3, PTL

-----------------------------------------------------------------------------
(* SignalManager: types *)

Number == 0..MaxActions
SettingType == [step : {"idle", "lock", "get", "set", "register", "add", "return"}, sig : Signal,
                act : Number, was : Number]
FaultType == [step : {"none", "lock", "handler", "unhandled"}, handler : Number, expected : BOOLEAN]
SignalTypeOK ==
    /\ enabled \in BOOLEAN /\ actions \in [Signal -> Number] /\ spinlock \in Thread \cup {None}
    /\ onceHandler \in {"no", "running", "done"} /\ registered \in {"no", "yes", "failed"}
    /\ setting \in [Thread -> SettingType] /\ faulting \in [Thread -> FaultType]
    /\ installed \in Number /\ armed \in BOOLEAN
    /\ displaced \in [Action -> Nat] /\ told \in [Action -> Nat]

\* The steps of a sigaction, and what they do to its setting.
Sets(t, s) == setting' \in [Thread -> SettingType] /\ setting'[t].step = s
              /\ \A u \in Thread \ {t} : setting'[u] = setting[u]
Proceeds(t, s) == /\ Sets(t, s) /\ setting'[t].sig = setting[t].sig /\ setting'[t].act = setting[t].act
                  /\ setting'[t].was = setting[t].was

\* A setting goes on to another step with the same arguments.
LEMMA SettingGoesOn ==
    ASSUME SignalTypeOK, NEW t \in Thread,
           NEW s \in {"idle", "lock", "get", "set", "register", "add", "return"},
           setting' = [setting EXCEPT ![t].step = s]
    PROVE  Proceeds(t, s)
<1>1. PICK r : r = [setting[t] EXCEPT !.step = s]
    OBVIOUS
<1>2. setting[t] \in SettingType /\ setting \in [Thread -> SettingType]
    BY DEF SignalTypeOK
<1>3. r.step = s /\ r.sig = setting[t].sig /\ r.act = setting[t].act /\ r.was = setting[t].was /\ r \in SettingType
    BY <1>1, <1>2 DEF SettingType
<1>4. setting' = [setting EXCEPT ![t] = r]
    BY <1>1, <1>2
<1>5. QED BY <1>2, <1>3, <1>4 DEF Proceeds, Sets

\* The types are inductive.
LEMMA SignalTypes == ASSUME SignalTypeOK, SignalNext PROVE SignalTypeOK'
<1> USE SignalAssumption
<1>1. PICK t \in Thread :
          \/ \E sig \in Signal, act \in Action \cup {Default} : Sigaction(t, sig, act)
          \/ SigactionStep(t)
          \/ \E signal \in {SIGSEGV, None} : Fault(t, signal)
          \/ GetHandler(t) \/ HandlerReturn(t)
    BY DEF SignalNext
<1>2. CASE \E sig \in Signal, act \in Action \cup {Default} : Sigaction(t, sig, act)
  <2>1. PICK sig \in Signal, act \in Action \cup {Default} : Sigaction(t, sig, act)
      BY <1>2
  <2>2. installed' \in Number /\ act \in Number
      BY <2>1 DEF Sigaction, SignalTypeOK, Action, Default, Number
  <2>3. setting' \in [Thread -> SettingType]
      BY <2>1, <2>2 DEF Sigaction, SignalTypeOK, SettingType, Default, Number
  <2>4. QED BY <2>1, <2>2, <2>3 DEF Sigaction, SignalTypeOK, history
<1>3. CASE LockActions(t) \/ RegisterBegin(t) \/ Register(t) \/ RegisterEnd(t)
  <2>1. setting' \in [Thread -> SettingType]
      BY <1>3, SettingGoesOn DEF LockActions, RegisterBegin, Register, RegisterEnd, Proceeds, Sets
  <2>2. QED BY <1>3, <2>1 DEF LockActions, RegisterBegin, Register, RegisterEnd, SignalTypeOK, history
<1>4. CASE GetOld(t)
    BY ZenonT(60), <1>4 DEF GetOld, SignalTypeOK, SettingType, history
<1>5. CASE SetAction(t)
  <2>1. setting' \in [Thread -> SettingType]
      BY <1>5, SettingGoesOn DEF SetAction, Proceeds, Sets
  <2>2. actions' \in [Signal -> Number]
      BY <1>5 DEF SetAction, SignalTypeOK, SettingType
  <2>3. displaced' \in [Action -> Nat] /\ told' \in [Action -> Nat]
      BY <1>5 DEF SetAction, SignalTypeOK
  <2>4. spinlock' = None /\ UNCHANGED <<enabled, onceHandler, registered, faulting, installed, armed>>
      BY <1>5 DEF SetAction
  <2>5. QED BY <2>1, <2>2, <2>3, <2>4 DEF SignalTypeOK
<1>6. CASE SigactionReturn(t)
  <2>1. setting' \in [Thread -> SettingType]
      BY <1>6 DEF SigactionReturn, SignalTypeOK, NoSetting, SettingType, Default, Number
  <2>2. armed' \in BOOLEAN
      BY <1>6 DEF SigactionReturn, SignalTypeOK
  <2>3. QED BY <1>6, <2>1, <2>2 DEF SigactionReturn, SignalTypeOK
<1>7. ASSUME NEW signal, Fault(t, signal) PROVE SignalTypeOK'
  <2>1. PICK e \in BOOLEAN : e <=> signal = SIGSEGV /\ armed
      OBVIOUS
  <2>2. PICK s \in {"lock", "unhandled"} : s = IF registered = "yes" /\ signal = SIGSEGV THEN "lock" ELSE "unhandled"
      OBVIOUS
  <2>3. faulting' = [faulting EXCEPT ![t] = [step |-> s, handler |-> Default, expected |-> e]]
      BY <1>7, <2>1, <2>2 DEF Fault, SignalTypeOK
  <2>4. faulting' \in [Thread -> FaultType]
      BY <2>3 DEF SignalTypeOK, FaultType, Default, Number
  <2>5. QED BY <1>7, <2>4 DEF Fault, SignalTypeOK, history
<1>8. CASE GetHandler(t)
    BY <1>8 DEF GetHandler, SignalTypeOK, FaultType, history
<1>9. CASE HandlerReturn(t)
    BY <1>9 DEF HandlerReturn, SignalTypeOK, FaultType, NoFault, Default, Number, history
<1>10. QED BY <1>1, <1>2, <1>3, <1>4, <1>5, <1>6, <1>7, <1>8, <1>9 DEF SigactionStep
-----------------------------------------------------------------------------
(* SignalManager: the chain of actions *)

\* Who exchanges the action of a signal owns the lock, and sees the current one.
Exchanges(t) == /\ setting[t].step \in {"get", "set"} => spinlock = t
                /\ setting[t].step = "set" => setting[t].was = actions[setting[t].sig]
\* The action that a call has been given and has not yet put into the array.
Pending(t) == setting[t].step \in {"lock", "get", "set"} /\ setting[t].act # Default
\* An action is new, then given to one call, then in one place of the array, then replaced.
ActionsOnce ==
    /\ \A t \in Thread : Pending(t) =>
          /\ setting[t].act <= installed /\ displaced[setting[t].act] = 0
          /\ \A s \in Signal : actions[s] # setting[t].act
    /\ \A t, u \in Thread : Pending(t) /\ Pending(u) /\ setting[t].act = setting[u].act => t = u
    /\ \A s \in Signal : actions[s] <= installed
    /\ \A r, s \in Signal : actions[r] = actions[s] /\ actions[r] # Default => r = s
    /\ \A a \in Action : a > installed => displaced[a] = 0
SignalInv == SignalTypeOK /\ (\A t \in Thread : Exchanges(t)) /\ ActionsOnce /\ ActionsChained

\* A step that does not touch the array keeps the chain.
LEMMA ArrayKept ==
    ASSUME SignalInv, SignalTypeOK', NEW t \in Thread, UNCHANGED <<actions, installed, displaced, told>>,
           \A u \in Thread \ {t} : setting'[u] = setting[u], Exchanges(t)',
           Pending(t)' => Pending(t) /\ setting'[t].act = setting[t].act,
           spinlock' = spinlock \/ spinlock = None \/ spinlock = t
    PROVE  SignalInv'
<1>1. \A u \in Thread : Exchanges(u)'
    BY CallersAssumption DEF SignalInv, Exchanges
<1>2. \A u \in Thread : Pending(u)' => Pending(u) /\ setting'[u].act = setting[u].act
    BY DEF Pending
<1>3. ActionsOnce'
    BY <1>2 DEF SignalInv, ActionsOnce
<1>4. ActionsChained'
    BY DEF SignalInv, ActionsChained
<1>5. QED BY <1>1, <1>3, <1>4 DEF SignalInv

\* A call that is given a new action.
LEMMA ActionGiven ==
    ASSUME SignalInv, SignalTypeOK', NEW t \in Thread, NEW sig \in Signal, NEW act \in Action \cup {Default},
           Sigaction(t, sig, act)
    PROVE  SignalInv'
<1> USE SignalAssumption
<1>1. /\ \A u \in Thread \ {t} : setting'[u] = setting[u]
      /\ setting'[t].step = "lock" /\ setting'[t].act = act
    BY DEF Sigaction, SignalInv, SignalTypeOK
<1>2. UNCHANGED <<actions, spinlock, displaced, told>>
    BY DEF Sigaction, history
<1>3. (act = Default /\ installed' = installed) \/ (act = installed + 1 /\ installed' = act)
    BY DEF Sigaction
<1>4. \A u \in Thread : Exchanges(u)'
    BY <1>1, <1>2 DEF SignalInv, Exchanges
<1>5. installed \in Nat /\ installed' \in Nat /\ installed' >= installed
    BY <1>3 DEF SignalInv, SignalTypeOK, Number
<1>6. /\ \A s \in Signal : actions[s] \in Nat
      /\ \A u \in Thread : setting[u].act \in Nat
    BY DEF SignalInv, SignalTypeOK, SettingType, Number
<1>7. ActionsOnce'
  <2>1. \A u \in Thread \ {t} : Pending(u)' <=> Pending(u)
      BY <1>1 DEF Pending
  <2>2. \A u \in Thread \ {t} : Pending(u) => setting[u].act <= installed
      BY DEF SignalInv, ActionsOnce
  <2>3. Pending(t)' => act = installed + 1 /\ installed' = act
      BY <1>1, <1>3 DEF Pending
  <2>4. \A s \in Signal : actions[s] <= installed
      BY DEF SignalInv, ActionsOnce
  <2>5. Pending(t)' => displaced[act] = 0 /\ act \in Action
      BY <1>5, <2>3 DEF SignalInv, ActionsOnce, Default, Action, SignalTypeOK, Number
  <2>6. \A u \in Thread : Pending(u)' =>
          /\ setting'[u].act <= installed' /\ displaced'[setting'[u].act] = 0
          /\ \A s \in Signal : actions'[s] # setting'[u].act
    <3>1. ASSUME NEW u \in Thread \ {t}, Pending(u)'
          PROVE  /\ setting[u].act <= installed' /\ displaced[setting[u].act] = 0
                 /\ \A s \in Signal : actions[s] # setting[u].act
        BY <1>5, <1>6, <2>1, <2>2, <3>1 DEF SignalInv, ActionsOnce
    <3>2. Pending(t)' => act <= installed' /\ displaced[act] = 0 /\ \A s \in Signal : actions[s] # act
        BY <1>5, <1>6, <2>3, <2>4, <2>5
    <3>3. QED BY <1>1, <1>2, <3>1, <3>2
  <2>7. \A u, v \in Thread : Pending(u)' /\ Pending(v)' /\ setting'[u].act = setting'[v].act => u = v
    <3>1. \A u \in Thread \ {t} : Pending(u)' /\ Pending(t)' => setting'[u].act # act
        BY <1>1, <1>5, <1>6, <2>1, <2>2, <2>3
    <3>2. QED BY <1>1, <2>1, <3>1 DEF SignalInv, ActionsOnce
  <2>8. /\ \A s \in Signal : actions'[s] <= installed'
        /\ \A r, s \in Signal : actions'[r] = actions'[s] /\ actions'[r] # Default => r = s
        /\ \A a \in Action : a > installed' => displaced'[a] = 0
      BY <1>2, <1>5, <1>6, <2>4 DEF SignalInv, ActionsOnce, Action
  <2>9. QED BY <2>6, <2>7, <2>8 DEF ActionsOnce
<1>8. ActionsChained'
    BY <1>2 DEF SignalInv, ActionsChained
<1>9. QED BY <1>4, <1>7, <1>8 DEF SignalInv

\* The exchange itself: the call has got the action that it replaces.
LEMMA ActionExchanged == ASSUME SignalInv, SignalTypeOK', NEW t \in Thread, SetAction(t) PROVE SignalInv'
<1> USE SignalAssumption
<1>1. PICK s \in Signal : s = setting[t].sig
    BY DEF SignalInv, SignalTypeOK, SettingType
<1>2. PICK act \in Number : act = setting[t].act
    BY DEF SignalInv, SignalTypeOK, SettingType
<1>3. PICK before \in Number : before = actions[s]
    BY DEF SignalInv, SignalTypeOK
<1>4. setting[t].step = "set" /\ spinlock = t /\ setting[t].was = before
    BY <1>1, <1>3 DEF SetAction, SignalInv, Exchanges
<1>5. \A u \in Thread \ {t} : setting'[u] = setting[u]
    BY DEF SetAction, SignalInv, SignalTypeOK
<1>6. setting'[t].step \in {"register", "return"} /\ spinlock' = None /\ UNCHANGED installed
    BY DEF SetAction, SignalInv, SignalTypeOK
<1>7. \A u \in Thread : Exchanges(u)'
    BY <1>4, <1>5, <1>6 DEF SignalInv, Exchanges
<1>8. \A u \in Thread : Pending(u)' => Pending(u) /\ u # t /\ setting'[u].act = setting[u].act
    BY <1>5, <1>6 DEF Pending
<1>9. CASE act = Default
  <2>1. UNCHANGED actions
      BY <1>2, <1>9 DEF SetAction
  <2>2. \A a \in Action : displaced'[a] = displaced[a] /\ told'[a] = told[a]
      BY <1>2, <1>9 DEF SetAction, SignalInv, SignalTypeOK
  <2>3. displaced' \in [Action -> Nat] /\ displaced \in [Action -> Nat] /\ told' \in [Action -> Nat] /\ told \in [Action -> Nat]
      BY DEF SignalInv, SignalTypeOK
  <2>4. displaced' = displaced /\ told' = told
      BY <2>2, <2>3
  <2>5. ActionsOnce' /\ ActionsChained'
      BY <1>6, <1>8, <2>1, <2>4 DEF SignalInv, ActionsOnce, ActionsChained
  <2>6. QED BY <1>7, <2>5 DEF SignalInv
<1>10. CASE act # Default
  <2>1. \A r \in Signal : actions'[r] = IF r = s THEN act ELSE actions[r]
      BY <1>1, <1>2, <1>10 DEF SetAction, SignalInv, SignalTypeOK
  <2>2. \A a \in Action : /\ displaced'[a] = displaced[a] + IF a = before THEN 1 ELSE 0
                          /\ told'[a] = told[a] + IF a = before THEN 1 ELSE 0
      BY <1>1, <1>2, <1>3, <1>4, <1>10 DEF SetAction
  <2>3. \A a \in Action : displaced[a] \in Nat /\ told[a] \in Nat
      BY DEF SignalInv, SignalTypeOK
  <2>4. Pending(t)
      BY <1>2, <1>4, <1>10 DEF Pending
  <2>5. act <= installed /\ displaced[act] = 0 /\ \A r \in Signal : actions[r] # act
      BY <1>2, <2>4 DEF SignalInv, ActionsOnce
  <2>6. act \in Action /\ act # before
      BY <1>3, <1>10, <2>5 DEF Action, Number, Default
  <2>7. before \in Action => displaced[before] = 0 /\ told[before] = 0
      BY <1>3 DEF SignalInv, ActionsChained
  <2>8. before <= installed
      BY <1>3 DEF SignalInv, ActionsOnce
  <2>9. ActionsChained'
    <3>1. \A a \in Action : displaced'[a] <= 1 /\ told'[a] = displaced'[a]
        BY <2>2, <2>3, <2>7 DEF SignalInv, ActionsChained
    <3>2. ASSUME NEW a \in Action, NEW r \in Signal, actions'[r] = a PROVE displaced'[a] = 0
      <4>1. CASE r = s
          BY <2>1, <2>2, <2>3, <2>5, <2>6, <3>2, <4>1
      <4>2. CASE r # s
        <5>1. actions[r] = a /\ a # before
            BY <1>3, <2>1, <3>2, <4>2 DEF SignalInv, ActionsOnce, Action, Default
        <5>2. displaced[a] = 0
            BY <5>1 DEF SignalInv, ActionsChained
        <5>3. QED BY <2>2, <5>1, <5>2
      <4>3. QED BY <4>1, <4>2
    <3>3. QED BY <3>1, <3>2 DEF ActionsChained
  <2>10. ActionsOnce'
    <3>1. ASSUME NEW u \in Thread, Pending(u)'
          PROVE  /\ setting'[u].act <= installed' /\ displaced'[setting'[u].act] = 0
                 /\ \A r \in Signal : actions'[r] # setting'[u].act
      <4>1. Pending(u) /\ u # t /\ setting'[u].act = setting[u].act
          BY <1>8, <3>1
      <4>2. /\ setting[u].act <= installed /\ displaced[setting[u].act] = 0 /\ setting[u].act # act
            /\ \A r \in Signal : actions[r] # setting[u].act
          BY <1>2, <2>4, <4>1 DEF SignalInv, ActionsOnce
      <4>3. setting[u].act \in Action /\ setting[u].act # before
        <5>1. setting[u].act \in Number /\ setting[u].act # Default
            BY <4>1 DEF Pending, SignalInv, SignalTypeOK, SettingType
        <5>2. QED BY <1>3, <4>2, <5>1 DEF Number, Action, Default
      <4>4. QED BY <1>6, <2>1, <2>2, <4>1, <4>2, <4>3
    <3>2. \A u, v \in Thread : Pending(u)' /\ Pending(v)' /\ setting'[u].act = setting'[v].act => u = v
        BY <1>8 DEF SignalInv, ActionsOnce
    <3>3. /\ \A r \in Signal : actions'[r] <= installed'
          /\ \A q, r \in Signal : actions'[q] = actions'[r] /\ actions'[q] # Default => q = r
        BY <1>6, <2>1, <2>5 DEF SignalInv, ActionsOnce
    <3>4. \A a \in Action : a > installed' => displaced'[a] = 0
      <4>1. installed \in Nat /\ before \in Nat
          BY DEF SignalInv, SignalTypeOK, Number
      <4>2. \A a \in Action : a > installed => a # before /\ displaced[a] = 0
          BY <2>8, <4>1 DEF SignalInv, ActionsOnce, Action
      <4>3. QED BY <1>6, <2>2, <4>2
    <3>5. QED BY <3>1, <3>2, <3>3, <3>4 DEF ActionsOnce
  <2>11. QED BY <1>7, <2>9, <2>10 DEF SignalInv
<1>11. QED BY <1>9, <1>10

\* Every step keeps the chain.
LEMMA SignalStep == ASSUME SignalInv, SignalNext PROVE SignalInv'
<1>1. SignalTypeOK /\ SignalTypeOK'
    BY SignalTypes DEF SignalInv
<1>2. PICK t \in Thread :
          \/ \E sig \in Signal, act \in Action \cup {Default} : Sigaction(t, sig, act)
          \/ SigactionStep(t)
          \/ \E signal \in {SIGSEGV, None} : Fault(t, signal)
          \/ GetHandler(t) \/ HandlerReturn(t)
    BY DEF SignalNext
<1>3. CASE \E sig \in Signal, act \in Action \cup {Default} : Sigaction(t, sig, act)
    BY <1>1, <1>3, ActionGiven
<1>4. CASE LockActions(t)
  <2>1. Proceeds(t, "get") /\ setting[t].step = "lock" /\ spinlock = None /\ spinlock' = t
      BY <1>1, <1>4, SettingGoesOn DEF LockActions
  <2>2. Exchanges(t)' /\ (Pending(t)' => Pending(t) /\ setting'[t].act = setting[t].act)
      BY <2>1 DEF Proceeds, Sets, Exchanges, Pending
  <2>3. UNCHANGED <<actions, installed, displaced, told>>
      BY <1>4 DEF LockActions, history
  <2>4. QED BY <1>1, <2>1, <2>2, <2>3, ArrayKept DEF Proceeds, Sets
<1>5. CASE GetOld(t)
  <2>1. PICK r : r = [setting[t] EXCEPT !.step = "set", !.was = actions[setting[t].sig]]
      OBVIOUS
  <2>2. r.step = "set" /\ r.act = setting[t].act /\ r.sig = setting[t].sig /\ r.was = actions[setting[t].sig]
      BY <1>1, <2>1 DEF SignalTypeOK, SettingType
  <2>3. setting' = [setting EXCEPT ![t] = r]
      BY <1>1, <1>5, <2>1 DEF GetOld, SignalTypeOK
  <2>4. setting'[t] = r /\ \A u \in Thread \ {t} : setting'[u] = setting[u]
      BY <1>1, <2>3 DEF SignalTypeOK
  <2>5. setting[t].step = "get" /\ UNCHANGED <<actions, spinlock, installed, displaced, told>>
      BY <1>5 DEF GetOld, history
  <2>6. Exchanges(t)' /\ (Pending(t)' => Pending(t) /\ setting'[t].act = setting[t].act)
      BY <2>2, <2>4, <2>5 DEF SignalInv, Exchanges, Pending
  <2>7. QED BY <1>1, <2>4, <2>5, <2>6, ArrayKept
<1>6. CASE SetAction(t)
    BY <1>1, <1>6, ActionExchanged
<1>7. CASE RegisterBegin(t) \/ Register(t) \/ RegisterEnd(t)
  <2>1. \E s \in {"add", "return"} : Proceeds(t, s)
      BY <1>1, <1>7, SettingGoesOn DEF RegisterBegin, Register, RegisterEnd
  <2>2. UNCHANGED <<actions, spinlock, installed, displaced, told>>
      BY <1>7 DEF RegisterBegin, Register, RegisterEnd, history
  <2>3. QED BY <1>1, <2>1, <2>2, ArrayKept DEF Proceeds, Sets, Exchanges, Pending
<1>8. CASE SigactionReturn(t)
  <2>1. setting'[t] = NoSetting /\ \A u \in Thread \ {t} : setting'[u] = setting[u]
      BY <1>1, <1>8 DEF SigactionReturn, SignalTypeOK
  <2>2. UNCHANGED <<actions, spinlock, installed, displaced, told>>
      BY <1>8 DEF SigactionReturn
  <2>3. Exchanges(t)' /\ ~Pending(t)'
      BY <2>1 DEF NoSetting, Exchanges, Pending
  <2>4. QED BY <1>1, <2>1, <2>2, <2>3, ArrayKept
<1>9. CASE (\E signal \in {SIGSEGV, None} : Fault(t, signal)) \/ GetHandler(t) \/ HandlerReturn(t)
  <2>1. UNCHANGED <<actions, spinlock, setting, installed, displaced, told>>
      BY <1>9, Zenon DEF Fault, GetHandler, HandlerReturn, history
  <2>2. QED BY <1>1, <2>1, ArrayKept DEF SignalInv, Exchanges, Pending
<1>10. QED BY <1>2, <1>3, <1>4, <1>5, <1>6, <1>7, <1>8, <1>9 DEF SigactionStep

\* Concurrent calls of sigaction form a chain, for any number of threads, of
\* signals and of actions: each action is replaced at most once and is the
\* oldact of exactly that call (signal_manager.cpp: SignalManager::sigaction
\* exchanges the actions under one lock).
THEOREM ActionsChain == SignalInit /\ [][SignalNext]_signalVars => []ActionsChained
<1>1. SignalInit => SignalInv
  <2> SUFFICES ASSUME SignalInit PROVE SignalInv
      OBVIOUS
  <2>1. NoSetting \in SettingType /\ NoFault \in FaultType /\ 0 \in Number
      BY SignalAssumption DEF NoSetting, SettingType, NoFault, FaultType, Number, Default
  <2>2. SignalTypeOK
      BY <2>1 DEF SignalInit, SignalTypeOK, Default
  <2>3. \A t \in Thread : setting[t].step = "idle"
      BY DEF SignalInit, NoSetting
  <2>4. (\A t \in Thread : Exchanges(t) /\ ~Pending(t))
      BY <2>3 DEF Exchanges, Pending
  <2>5. /\ installed = 0 /\ \A s \in Signal : actions[s] = 0
        /\ \A a \in Action : a # 0 /\ displaced[a] = 0 /\ told[a] = 0
      BY DEF SignalInit, Default, Action
  <2>6. ActionsOnce /\ ActionsChained
      BY <2>4, <2>5 DEF ActionsOnce, ActionsChained, Default
  <2>7. QED BY <2>2, <2>4, <2>6 DEF SignalInv
<1>2. SignalInv /\ [SignalNext]_signalVars => SignalInv'
  <2>1. ASSUME SignalInv, UNCHANGED signalVars PROVE SignalInv'
      BY <2>1 DEF signalVars, history, SignalInv, SignalTypeOK, Exchanges, ActionsOnce, Pending, ActionsChained
  <2>2. QED BY <2>1, SignalStep
<1>3. SignalInv => ActionsChained
    BY DEF SignalInv
<1>4. QED BY <1>1, <1>2, <1>3, PTL
-----------------------------------------------------------------------------
(* SignalManager: the handler of the enclave *)

\* A call that has installed an action returns only when the handler is
\* registered, has failed to be, or is not wanted.
Installs(t) ==
    /\ setting[t].step = "register" => enabled
    /\ setting[t].step \in {"register", "add", "return"} /\ setting[t].act # Default =>
          actions[setting[t].sig] # Default
    /\ setting[t].step = "return" /\ setting[t].act # Default => ~enabled \/ registered # "no"
HandlerInv ==
    /\ onceHandler = "done" => registered # "no"
    /\ \A t \in Thread : Installs(t)
    /\ armed => actions[SIGSEGV] # Default /\ (~enabled \/ registered # "no")
    /\ \A t \in Thread : faulting[t].step = "lock" /\ faulting[t].expected => armed
    /\ FaultFindsHandler

\* A step of a sigaction, seen from the faults.
LEMMA SettingKeepsHandler ==
    ASSUME SignalTypeOK, SignalTypeOK', HandlerInv, NEW t \in Thread,
           \A u \in Thread \ {t} : setting'[u] = setting[u], Installs(t)',
           UNCHANGED <<enabled, faulting>>, ~Ended,
           \A s \in Signal : actions'[s] = Default => actions[s] = Default,
           registered' = "no" => registered = "no",
           onceHandler' = "done" => registered' # "no",
           armed' => armed \/ (actions[SIGSEGV] # Default /\ (~enabled \/ registered # "no")),
           armed => armed'
    PROVE  HandlerInv'
<1>1. \A u \in Thread : Installs(u)'
  <2>1. ASSUME NEW u \in Thread, u # t PROVE Installs(u)'
    <3>1. setting'[u] = setting[u] /\ setting[u].sig \in Signal /\ Installs(u)
        BY <2>1 DEF HandlerInv, SignalTypeOK, SettingType
    <3>2. QED BY <3>1 DEF Installs
  <2>2. QED BY <2>1
<1>2. armed' => actions'[SIGSEGV] # Default /\ (~enabled \/ registered' # "no")
    BY SignalAssumption DEF HandlerInv
<1>3. \A u \in Thread : faulting'[u].step = "lock" /\ faulting'[u].expected => armed'
    BY DEF HandlerInv
<1>4. FaultFindsHandler'
    BY DEF FaultFindsHandler, Ended
<1>5. QED BY <1>1, <1>2, <1>3, <1>4 DEF HandlerInv

\* A step of a fault.
LEMMA FaultKeepsHandler ==
    ASSUME SignalTypeOK, SignalTypeOK', HandlerInv, ~Ended, NEW t \in Thread,
           (\E signal \in {SIGSEGV, None} : Fault(t, signal)) \/ GetHandler(t) \/ HandlerReturn(t)
    PROVE  HandlerInv'
<1>1. UNCHANGED <<enabled, actions, onceHandler, registered, setting, armed>>
    BY DEF Fault, GetHandler, HandlerReturn, history
<1>2. \A u \in Thread \ {t} : faulting'[u] = faulting[u]
    BY DEF Fault, GetHandler, HandlerReturn, SignalTypeOK
<1>3. armed => actions[SIGSEGV] # Default /\ (~enabled \/ registered # "no")
    BY DEF HandlerInv
<1>4. /\ faulting'[t].step = "lock" /\ faulting'[t].expected => armed
      /\ faulting'[t].step = "unhandled" /\ faulting'[t].expected => registered = "failed" \/ ~enabled
  <2>1. CASE \E signal \in {SIGSEGV, None} : Fault(t, signal)
    <3>1. PICK signal : Fault(t, signal)
        BY <2>1
    <3>2. PICK r : r = [step |-> IF registered = "yes" /\ signal = SIGSEGV THEN "lock" ELSE "unhandled",
                        handler |-> Default, expected |-> signal = SIGSEGV /\ armed]
        OBVIOUS
    <3>3. faulting'[t] = r
        BY <3>1, <3>2 DEF Fault, SignalTypeOK
    <3>4. r.expected => signal = SIGSEGV /\ armed
        BY <3>2
    <3>5. r.step = "unhandled" => ~(registered = "yes" /\ signal = SIGSEGV)
        BY <3>2
    <3>6. registered \in {"no", "yes", "failed"}
        BY DEF SignalTypeOK
    <3>7. QED BY <1>3, <3>3, <3>4, <3>5, <3>6
  <2>2. CASE GetHandler(t)
    <3>1. PICK f \in FaultType : f = faulting[t]
        BY DEF SignalTypeOK
    <3>2. f.step = "lock" /\ (f.expected => armed)
        BY <2>2, <3>1 DEF GetHandler, HandlerInv
    <3>3. PICK s : s = IF actions[SIGSEGV] = Default THEN "unhandled" ELSE "handler"
        OBVIOUS
    <3>4. PICK r : r = [f EXCEPT !.handler = actions[SIGSEGV], !.step = s]
        OBVIOUS
    <3>5. faulting' = [faulting EXCEPT ![t] = r]
        BY <2>2, <3>1, <3>3, <3>4 DEF GetHandler, SignalTypeOK
    <3>6. faulting'[t] = r
        BY <3>5 DEF SignalTypeOK
    <3>7. r.step = s /\ r.expected = f.expected
        BY <3>1, <3>4 DEF FaultType
    <3>8. QED BY <1>3, <3>2, <3>3, <3>6, <3>7
  <2>3. CASE HandlerReturn(t)
      BY <2>3 DEF HandlerReturn, NoFault, SignalTypeOK
  <2>4. QED BY <2>1, <2>2, <2>3
<1>5. \A u \in Thread : Installs(u)'
    BY <1>1 DEF HandlerInv, Installs
<1>6. \A u \in Thread : faulting'[u].step = "lock" /\ faulting'[u].expected => armed'
    BY <1>1, <1>2, <1>4 DEF HandlerInv
<1>7. FaultFindsHandler'
    BY <1>1, <1>2, <1>4 DEF FaultFindsHandler, Ended
<1>8. QED BY <1>1, <1>5, <1>6, <1>7 DEF HandlerInv

\* Every step keeps the invariant.
LEMMA HandlerStep == ASSUME SignalTypeOK, HandlerInv, SignalNext PROVE HandlerInv'
<1>1. SignalTypeOK' /\ ~Ended
    BY SignalTypes DEF SignalNext
<1>2. PICK t \in Thread :
          \/ \E sig \in Signal, act \in Action \cup {Default} : Sigaction(t, sig, act)
          \/ SigactionStep(t)
          \/ \E signal \in {SIGSEGV, None} : Fault(t, signal)
          \/ GetHandler(t) \/ HandlerReturn(t)
    BY DEF SignalNext
<1>3. Installs(t) /\ (onceHandler = "done" => registered # "no")
    BY DEF HandlerInv
<1>4. CASE \E sig \in Signal, act \in Action \cup {Default} : Sigaction(t, sig, act)
  <2>1. PICK sig \in Signal, act \in Action \cup {Default} : Sigaction(t, sig, act)
      BY <1>4
  <2>2. setting'[t].step = "lock" /\ \A u \in Thread \ {t} : setting'[u] = setting[u]
      BY <2>1 DEF Sigaction, SignalTypeOK
  <2>3. UNCHANGED <<enabled, actions, onceHandler, registered, faulting, armed>>
      BY <2>1 DEF Sigaction, history
  <2>4. Installs(t)'
      BY <2>2 DEF Installs
  <2>5. QED BY <1>1, <1>3, <2>2, <2>3, <2>4, SettingKeepsHandler
<1>5. CASE LockActions(t)
  <2>1. Proceeds(t, "get")
      BY <1>5, SettingGoesOn DEF LockActions
  <2>2. UNCHANGED <<enabled, actions, onceHandler, registered, faulting, armed>>
      BY <1>5 DEF LockActions, history
  <2>3. Installs(t)'
      BY <2>1 DEF Installs, Proceeds, Sets
  <2>4. QED BY <1>1, <1>3, <2>1, <2>2, <2>3, SettingKeepsHandler DEF Proceeds, Sets
<1>6. CASE GetOld(t)
  <2>1. PICK r : r = [setting[t] EXCEPT !.step = "set", !.was = actions[setting[t].sig]]
      OBVIOUS
  <2>2. r.step = "set"
      BY <2>1 DEF SignalTypeOK, SettingType
  <2>3. setting' = [setting EXCEPT ![t] = r]
      BY <1>6, <2>1 DEF GetOld, SignalTypeOK
  <2>4. setting'[t] = r /\ \A u \in Thread \ {t} : setting'[u] = setting[u]
      BY <2>3 DEF SignalTypeOK
  <2>5. UNCHANGED <<enabled, actions, onceHandler, registered, faulting, armed>>
      BY <1>6 DEF GetOld, history
  <2>6. Installs(t)'
      BY <2>2, <2>4 DEF Installs
  <2>7. QED BY <1>1, <1>3, <2>4, <2>5, <2>6, SettingKeepsHandler
<1>7. CASE SetAction(t)
  <2>1. PICK n : n = IF enabled /\ setting[t].act # Default THEN "register" ELSE "return"
      OBVIOUS
  <2>2. Proceeds(t, n)
      BY <1>7, <2>1, SettingGoesOn DEF SetAction
  <2>3. UNCHANGED <<enabled, onceHandler, registered, faulting, armed>>
      BY <1>7 DEF SetAction
  <2>4. setting[t].sig \in Signal /\ actions \in [Signal -> Number]
      BY DEF SignalTypeOK, SettingType
  <2>5. \A s \in Signal : actions'[s] = IF setting[t].act # Default /\ s = setting[t].sig
                                        THEN setting[t].act ELSE actions[s]
      BY <1>7, <2>4 DEF SetAction
  <2>6. Installs(t)'
      BY <2>1, <2>2, <2>3, <2>4, <2>5 DEF Installs, Proceeds, Sets
  <2>7. QED BY <1>1, <1>3, <2>2, <2>3, <2>5, <2>6, SettingKeepsHandler DEF Proceeds, Sets
<1>8. CASE RegisterBegin(t)
  <2>1. Proceeds(t, "add") /\ setting[t].step = "register"
      BY <1>8, SettingGoesOn DEF RegisterBegin
  <2>2. UNCHANGED <<enabled, actions, registered, faulting, armed>> /\ onceHandler' = "running"
      BY <1>8 DEF RegisterBegin, history
  <2>3. Installs(t)'
      BY <1>3, <2>1, <2>2 DEF Installs, Proceeds, Sets
  <2>4. QED BY <1>1, <1>3, <2>1, <2>2, <2>3, SettingKeepsHandler DEF Proceeds, Sets
<1>9. CASE Register(t)
  <2>1. Proceeds(t, "return") /\ setting[t].step = "add"
      BY <1>9, SettingGoesOn DEF Register
  <2>2. UNCHANGED <<enabled, actions, faulting, armed>> /\ registered' # "no"
      BY <1>9 DEF Register, history
  <2>3. Installs(t)'
      BY <1>3, <2>1, <2>2 DEF Installs, Proceeds, Sets
  <2>4. QED BY <1>1, <1>3, <2>1, <2>2, <2>3, SettingKeepsHandler DEF Proceeds, Sets
<1>10. CASE RegisterEnd(t)
  <2>1. Proceeds(t, "return") /\ setting[t].step = "register" /\ onceHandler = "done"
      BY <1>10, SettingGoesOn DEF RegisterEnd
  <2>2. UNCHANGED <<enabled, actions, onceHandler, registered, faulting, armed>>
      BY <1>10 DEF RegisterEnd, history
  <2>3. Installs(t)'
      BY <1>3, <2>1, <2>2 DEF Installs, Proceeds, Sets
  <2>4. QED BY <1>1, <1>3, <2>1, <2>2, <2>3, SettingKeepsHandler DEF Proceeds, Sets
<1>11. CASE SigactionReturn(t)
  <2>1. setting'[t] = NoSetting /\ \A u \in Thread \ {t} : setting'[u] = setting[u]
      BY <1>11 DEF SigactionReturn, SignalTypeOK
  <2>2. UNCHANGED <<enabled, actions, onceHandler, registered, faulting>>
      BY <1>11 DEF SigactionReturn
  <2>3. armed' => armed \/ (setting[t].sig = SIGSEGV /\ setting[t].act # Default)
      BY <1>11, Zenon DEF SigactionReturn
  <2>4. armed => armed'
      BY <1>11, Zenon DEF SigactionReturn
  <2>5. setting[t].step = "return"
      BY <1>11 DEF SigactionReturn
  <2>6. Installs(t)'
      BY <2>1 DEF NoSetting, Installs
  <2>7. armed' => armed \/ (actions[SIGSEGV] # Default /\ (~enabled \/ registered # "no"))
      BY <1>3, <2>3, <2>5 DEF Installs
  <2>8. QED BY <1>1, <1>3, <2>1, <2>2, <2>4, <2>6, <2>7, SettingKeepsHandler
<1>12. CASE (\E signal \in {SIGSEGV, None} : Fault(t, signal)) \/ GetHandler(t) \/ HandlerReturn(t)
    BY <1>1, <1>12, FaultKeepsHandler
<1>13. QED BY <1>2, <1>4, <1>5, <1>6, <1>7, <1>8, <1>9, <1>10, <1>11, <1>12 DEF SigactionStep

\* Whoever has installed an action for access violations may rely on it, while
\* any number of threads install others and register the handler of the enclave
\* (signal_manager.cpp: call_once returns to all callers after the registration).
THEOREM FaultsFindHandler == SignalInit /\ [][SignalNext]_signalVars => []FaultFindsHandler
<1>1. SignalInit => SignalTypeOK /\ HandlerInv
  <2> SUFFICES ASSUME SignalInit PROVE SignalTypeOK /\ HandlerInv
      OBVIOUS
  <2>1. NoSetting \in SettingType /\ NoFault \in FaultType /\ 0 \in Number
      BY SignalAssumption DEF NoSetting, SettingType, NoFault, FaultType, Number, Default
  <2>2. SignalTypeOK
      BY <2>1 DEF SignalInit, SignalTypeOK, Default
  <2>3. \A t \in Thread : setting[t].step = "idle" /\ faulting[t].step = "none"
      BY DEF SignalInit, NoSetting, NoFault
  <2>4. QED BY <2>2, <2>3 DEF SignalInit, HandlerInv, Installs, FaultFindsHandler
<1>2. SignalTypeOK /\ HandlerInv /\ [SignalNext]_signalVars => (SignalTypeOK /\ HandlerInv)'
  <2>1. ASSUME SignalTypeOK, HandlerInv, UNCHANGED signalVars PROVE (SignalTypeOK /\ HandlerInv)'
      BY <2>1 DEF signalVars, history, SignalTypeOK, HandlerInv, Installs, FaultFindsHandler
  <2>2. QED BY <2>1, HandlerStep, SignalTypes
<1>3. HandlerInv => FaultFindsHandler
    BY DEF HandlerInv
<1>4. QED BY <1>1, <1>2, <1>3, PTL
-----------------------------------------------------------------------------
(* Clock *)

ReaderType == [step : {"idle", "once", "init", "probe", "lock", "read", "sec", "rest", "check", "got", "returned"},
               clock : {"realtime", "monotonic", None}, seq : Nat, sec : Nat, rest : Nat,
               seen : SUBSET Nat, floor : Nat]
Ticks(r) == r.sec * PerSecond + r.rest
Busy(r) == r.step \notin {"idle", "returned"}

\* What a call has read is of the time that the kernel has written last, unless
\* seq has changed since; what it returns has been written.
ReaderOK(r) ==
    /\ Busy(r) => time \in r.seen /\ r.seen \subseteq written /\ r.floor <= shown
    /\ r.step \in {"sec", "rest", "check"} => r.seq % 2 = 0 /\ r.seq <= seq
    /\ r.step \in {"rest", "check"} /\ r.seq = seq => r.sec = time \div PerSecond
    /\ r.step = "check" /\ r.seq = seq => r.rest = time % PerSecond
    /\ r.step = "got" => Ticks(r) \in r.seen
    /\ r.step = "returned" /\ r.clock = "monotonic" => Ticks(r) \in written /\ Ticks(r) >= r.floor
    /\ r.step = "returned" /\ r.clock # "monotonic" => Ticks(r) \in r.seen

ClockTypeOK == /\ reader \in [Thread -> ReaderType] /\ seq \in Nat /\ sec \in Nat /\ rest \in Nat
               /\ pending \in (0..MaxTime) \cup {None} /\ time \in Nat /\ shown \in Nat /\ written \subseteq Nat
\* seq is odd while the kernel writes.
KernelInv == /\ pending # None => seq % 2 = 1
             /\ pending = None => /\ seq % 2 = 0
                                  /\ sec = time \div PerSecond /\ rest = time % PerSecond
             /\ time \in written
ClockInv == /\ ClockTypeOK /\ KernelInv /\ shown \in written /\ lastMonotonic = shown
            /\ \A t \in Thread : ReaderOK(reader[t])

\* Seconds and a rest hold a time.
LEMMA Split ==
    ASSUME NEW n \in Nat
    PROVE  /\ n \div PerSecond \in Nat /\ n % PerSecond \in Nat
           /\ (n \div PerSecond) * PerSecond + (n % PerSecond) = n
<1>1. PICK p \in Nat : p = PerSecond /\ p > 0
    BY ClockAssumption
<1>2. n \div p \in Nat /\ n % p \in Nat /\ (n \div p) * p + (n % p) = n
    BY <1>1, SMTT(30)
<1>3. QED BY <1>1, <1>2

\* The steps of the kernel.
LEMMA KernelStep == ASSUME ClockInv, Kernel PROVE ClockInv'
<1> USE ClockAssumption
<1>1. ClockTypeOK /\ KernelInv /\ \A t \in Thread : ReaderOK(reader[t]) /\ reader[t] \in ReaderType
    BY DEF ClockInv, ClockTypeOK
<1>2. UNCHANGED <<lastMonotonic, shown>> /\ shown \in written /\ lastMonotonic = shown
    BY DEF Kernel, UpdateBegin, UpdateSec, UpdateRest, UpdateEnd, ClockInv
<1>3. CASE \E new \in (0..MaxTime) \ {time} : UpdateBegin(new)
  <2>1. PICK new \in (0..MaxTime) \ {time} : UpdateBegin(new)
      BY <1>3
  <2>2. /\ pending = None /\ pending' = new /\ seq' = seq + 1
        /\ UNCHANGED <<sec, rest, time, written, reader>>
      BY <2>1 DEF UpdateBegin
  <2>3. ClockTypeOK'
      BY <1>1, <1>2, <2>2 DEF ClockTypeOK
  <2>4. KernelInv'
      BY <1>1, <2>2 DEF KernelInv, ClockTypeOK
  <2>5. ASSUME NEW t \in Thread PROVE ReaderOK(reader[t])'
    <3>1. PICK r \in ReaderType : r = reader[t] /\ ReaderOK(r)
        BY <1>1
    <3>2. r.seq \in Nat /\ seq \in Nat
        BY <1>1 DEF ReaderType, ClockTypeOK
    <3>3. ReaderOK(r)'
        BY <1>2, <2>2, <3>1, <3>2 DEF ReaderOK, Ticks, Busy
    <3>4. QED BY <2>2, <3>1, <3>3
  <2>6. QED BY <1>2, <2>2, <2>3, <2>4, <2>5 DEF ClockInv
<1>4. CASE UpdateSec \/ UpdateRest
  <2>1. pending # None /\ UNCHANGED <<seq, pending, time, written, reader>>
      BY <1>4 DEF UpdateSec, UpdateRest
  <2>2. sec' \in Nat /\ rest' \in Nat
      BY <1>1, <1>4, <2>1, Split DEF UpdateSec, UpdateRest, ClockTypeOK
  <2>3. ClockTypeOK' /\ KernelInv'
      BY <1>1, <1>2, <2>1, <2>2 DEF ClockTypeOK, KernelInv
  <2>4. \A t \in Thread : ReaderOK(reader[t])'
      BY <1>1, <1>2, <2>1 DEF ReaderOK, Ticks, Busy
  <2>5. QED BY <1>2, <2>1, <2>3, <2>4 DEF ClockInv
<1>5. CASE UpdateEnd
  <2>1. PICK p \in Nat : p = pending /\ p # None
      BY <1>1, <1>5 DEF UpdateEnd, ClockTypeOK
  <2>2. /\ sec = p \div PerSecond /\ rest = p % PerSecond
        /\ seq' = seq + 1 /\ pending' = None /\ time' = p /\ written' = written \cup {p}
        /\ UNCHANGED <<sec, rest>>
      BY <1>5, <2>1 DEF UpdateEnd
  <2>3. reader' = [t \in Thread |-> IF Reading(t) THEN [reader[t] EXCEPT !.seen = @ \cup {p}] ELSE reader[t]]
      BY <1>5, <2>1 DEF UpdateEnd
  <2>4. KernelInv'
      BY <1>1, <2>1, <2>2 DEF KernelInv, ClockTypeOK
  <2>5. ASSUME NEW t \in Thread PROVE reader'[t] \in ReaderType /\ ReaderOK(reader[t])'
    <3>1. PICK r \in ReaderType : r = reader[t] /\ ReaderOK(r)
        BY <1>1
    <3>2. r.seq \in Nat /\ seq \in Nat
        BY <1>1 DEF ReaderType, ClockTypeOK
    <3>3. CASE Reading(t)
      <4>1. PICK q : q = [r EXCEPT !.seen = @ \cup {p}]
          OBVIOUS
      <4>2. /\ q \in ReaderType /\ q.seen = r.seen \cup {p} /\ q.step = r.step /\ q.clock = r.clock
            /\ q.seq = r.seq /\ q.sec = r.sec /\ q.rest = r.rest /\ q.floor = r.floor
          BY <4>1 DEF ReaderType
      <4>3. Busy(r)
          BY <3>1, <3>3 DEF Reading, Busy
      <4>4. ReaderOK(q)'
          BY <1>2, <2>2, <3>1, <3>2, <4>2, <4>3 DEF ReaderOK, Ticks, Busy
      <4>5. reader'[t] = q
          BY <2>3, <3>1, <3>3, <4>1
      <4>6. QED BY <4>2, <4>4, <4>5
    <3>4. CASE ~Reading(t)
      <4>1. ~Busy(r)
          BY <3>1, <3>4 DEF Reading, Busy
      <4>2. ReaderOK(r)'
          BY <1>2, <2>2, <3>1, <4>1 DEF ReaderOK, Ticks, Busy
      <4>3. reader'[t] = r
          BY <2>3, <3>1, <3>4
      <4>4. QED BY <4>2, <4>3
    <3>5. QED BY <3>3, <3>4
  <2>6. reader' \in [Thread -> ReaderType]
      BY <2>3, <2>5
  <2>7. ClockTypeOK'
      BY <1>1, <1>2, <2>2, <2>6 DEF ClockTypeOK
  <2>8. QED BY <1>2, <2>2, <2>4, <2>5, <2>7 DEF ClockInv
<1>6. QED BY <1>3, <1>4, <1>5 DEF Kernel

\* A step of a call after which what it has read fits.
LEMMA CallFits ==
    ASSUME ClockInv, NEW t \in Thread, NEW r \in ReaderType, reader' = [reader EXCEPT ![t] = r],
           UNCHANGED kernelVars, lastMonotonic' = shown', shown' \in Nat, shown' >= shown, shown' \in written,
           ReaderOK(r)'
    PROVE  ClockInv'
<1>1. UNCHANGED <<seq, sec, rest, pending, time, written>>
    BY DEF kernelVars
<1>2. ClockTypeOK' /\ KernelInv'
    BY <1>1 DEF ClockInv, ClockTypeOK, KernelInv
<1>3. ASSUME NEW u \in Thread PROVE ReaderOK(reader[u])'
  <2>1. CASE u = t
      BY <2>1 DEF ClockInv, ClockTypeOK
  <2>2. CASE u # t
    <3>1. PICK q \in ReaderType : q = reader[u] /\ ReaderOK(q)
        BY DEF ClockInv, ClockTypeOK
    <3>2. q.floor \in Nat /\ shown \in Nat
        BY DEF ReaderType, ClockInv, ClockTypeOK
    <3>3. ReaderOK(q)'
        BY <1>1, <3>1, <3>2 DEF ReaderOK, Ticks, Busy
    <3>4. QED BY <2>2, <3>1, <3>3 DEF ClockInv, ClockTypeOK
  <2>3. QED BY <2>1, <2>2
<1>4. QED BY <1>1, <1>2, <1>3 DEF ClockInv

\* What has been returned stays as it is.
LEMMA ShownStays ==
    ASSUME ClockInv, UNCHANGED <<lastMonotonic, shown>>
    PROVE  lastMonotonic' = shown' /\ shown' \in Nat /\ shown' >= shown /\ shown' \in written
<1>1. shown \in Nat /\ shown \in written /\ lastMonotonic = shown
    BY DEF ClockInv, ClockTypeOK
<1>2. QED BY <1>1

\* The end of a call that has read a time which the kernel has written during it.
LEMMA GivesRight ==
    ASSUME ClockInv, NEW t \in Thread, Give(t), UNCHANGED kernelVars, Busy(reader[t]),
           TimeRead(t) \in reader[t].seen
    PROVE  ClockInv'
<1>1. PICK r \in ReaderType : r = reader[t] /\ ReaderOK(r)
    BY DEF ClockInv, ClockTypeOK
<1>2. PICK n \in Nat : n = TimeRead(t) /\ n \in r.seen /\ n \in written
    BY <1>1 DEF ClockInv, ClockTypeOK, ReaderOK
<1>3. /\ reader \in [Thread -> ReaderType] /\ shown \in Nat /\ shown \in written /\ lastMonotonic = shown
      /\ r.floor <= shown /\ r.floor \in Nat
    BY <1>1 DEF ClockInv, ClockTypeOK, ReaderOK, ReaderType
<1>4. ASSUME NEW m \in Nat, Returned(t, m)
      PROVE  \E q \in ReaderType : /\ reader' = [reader EXCEPT ![t] = q] /\ q.step = "returned" /\ Ticks(q) = m
                                   /\ q.clock = r.clock /\ q.seen = r.seen /\ q.floor = r.floor
  <2>1. PICK q : q = [r EXCEPT !.step = "returned", !.sec = m \div PerSecond, !.rest = m % PerSecond]
      OBVIOUS
  <2>2. /\ q \in ReaderType /\ q.step = "returned" /\ q.sec = m \div PerSecond /\ q.rest = m % PerSecond
        /\ q.clock = r.clock /\ q.seen = r.seen /\ q.floor = r.floor
      BY <2>1, Split DEF ReaderType
  <2>3. reader' = [reader EXCEPT ![t] = q]
      BY <1>1, <1>3, <1>4, <2>1 DEF Returned
  <2>4. Ticks(q) = m
      BY <2>2, Split DEF Ticks
  <2>5. QED BY <2>2, <2>3, <2>4
<1>5. UNCHANGED <<seq, sec, rest, pending, time, written>>
    BY DEF kernelVars
<1>6. CASE r.clock = "monotonic"
  <2>1. /\ EnsureMonotonic(t) /\ shown' = Highest(shown, TimeRead(t)')
      BY <1>1, <1>6 DEF Give, IsMonotonic
  <2>2. PICK m \in Nat : m = Highest(n, shown)
      BY <1>3 DEF Highest
  <2>3. Returned(t, m) /\ lastMonotonic' = m /\ m >= shown /\ m \in written
      BY <1>2, <1>3, <2>1, <2>2 DEF EnsureMonotonic, Highest
  <2>4. PICK q \in ReaderType : /\ reader' = [reader EXCEPT ![t] = q] /\ q.step = "returned" /\ Ticks(q) = m
                                /\ q.clock = r.clock /\ q.seen = r.seen /\ q.floor = r.floor
      BY <1>4, <2>3
  <2>5. TimeRead(t)' = m
      BY <1>3, <2>4 DEF TimeRead, Ticks
  <2>6. shown' = m
      BY <1>3, <2>1, <2>3, <2>5 DEF Highest
  <2>7. ReaderOK(q)'
      BY <1>3, <1>5, <1>6, <2>3, <2>4 DEF ReaderOK, Busy, Ticks
  <2>8. QED BY <2>3, <2>4, <2>6, <2>7, CallFits
<1>7. CASE r.clock # "monotonic"
  <2>1. Returned(t, n) /\ UNCHANGED <<lastMonotonic, shown>>
      BY <1>1, <1>2, <1>7 DEF Give, IsMonotonic
  <2>2. PICK q \in ReaderType : /\ reader' = [reader EXCEPT ![t] = q] /\ q.step = "returned" /\ Ticks(q) = n
                                /\ q.clock = r.clock /\ q.seen = r.seen /\ q.floor = r.floor
      BY <1>4, <2>1
  <2>3. ReaderOK(q)'
      BY <1>2, <1>5, <1>7, <2>2 DEF ReaderOK, Busy, Ticks
  <2>4. QED BY <2>1, <2>2, <2>3, ShownStays, CallFits
<1>8. QED BY <1>6, <1>7

\* The other steps of a call.
LEMMA CallGoesOn ==
    ASSUME ClockInv, NEW t \in Thread, NEW r \in ReaderType, reader' = [reader EXCEPT ![t] = r],
           UNCHANGED <<kernelVars, lastMonotonic, shown>>, Busy(reader[t]), Busy(r),
           r.seen = reader[t].seen, r.floor = reader[t].floor,
           /\ r.step \in {"sec", "rest", "check"} => r.seq % 2 = 0 /\ r.seq <= seq
           /\ r.step \in {"rest", "check"} /\ r.seq = seq => r.sec = time \div PerSecond
           /\ r.step = "check" /\ r.seq = seq => r.rest = time % PerSecond
           /\ r.step = "got" => Ticks(r) \in r.seen
    PROVE  ClockInv'
<1>1. UNCHANGED <<seq, sec, rest, pending, time, written, lastMonotonic, shown>>
    BY DEF kernelVars
<1>2. time \in r.seen /\ r.seen \subseteq written /\ r.floor <= shown
    BY DEF ClockInv, ReaderOK
<1>3. ReaderOK(r)'
    BY <1>1, <1>2 DEF ReaderOK, Busy, Ticks
<1>4. QED BY <1>3, ShownStays, CallFits

\* Every step of clock_gettime keeps the invariant.
LEMMA GettimeKeeps == ASSUME ClockInv, NEW t \in Thread, GettimeStep(t) PROVE ClockInv'
<1>1. PICK r \in ReaderType : r = reader[t] /\ ReaderOK(r)
    BY DEF ClockInv, ClockTypeOK
<1>2. ClockTypeOK /\ KernelInv /\ reader \in [Thread -> ReaderType]
    BY DEF ClockInv, ClockTypeOK
<1>3. CASE OnceBegin(t) \/ Probe(t) \/ ProbeFails(t) \/ OnceEnd(t) \/ LockMonotonic(t)
  <2>1. PICK s \in {"once", "init", "lock", "read"} : Goto(t, s)
      BY <1>3 DEF OnceBegin, Probe, ProbeFails, OnceEnd, LockMonotonic
  <2>2. PICK q : q = [r EXCEPT !.step = s]
      OBVIOUS
  <2>3. q \in ReaderType /\ q.step = s /\ q.seen = r.seen /\ q.floor = r.floor
      BY <2>2 DEF ReaderType
  <2>4. reader' = [reader EXCEPT ![t] = q]
      BY <1>1, <1>2, <2>1, <2>2 DEF Goto
  <2>5. Busy(r) /\ UNCHANGED <<kernelVars, lastMonotonic, shown>>
      BY <1>1, <1>3 DEF OnceBegin, Probe, ProbeFails, OnceEnd, LockMonotonic, OnceDone, Busy
  <2>6. QED BY <1>1, <2>3, <2>4, <2>5, CallGoesOn DEF Busy
<1>4. CASE Reference(t)
  <2>1. PICK q : q = [r EXCEPT !.step = "probe", !.sec = time \div PerSecond]
      OBVIOUS
  <2>2. q \in ReaderType /\ q.step = "probe" /\ q.seen = r.seen /\ q.floor = r.floor
      BY <1>2, <2>1, Split DEF ReaderType, ClockTypeOK
  <2>3. reader' = [reader EXCEPT ![t] = q]
      BY <1>1, <1>2, <1>4, <2>1 DEF Reference
  <2>4. Busy(r) /\ UNCHANGED <<kernelVars, lastMonotonic, shown>>
      BY <1>1, <1>4 DEF Reference, Busy
  <2>5. QED BY <1>1, <2>2, <2>3, <2>4, CallGoesOn DEF Busy
<1>5. CASE ReadSeq(t)
  <2>1. PICK q : q = [r EXCEPT !.step = "sec", !.seq = seq]
      OBVIOUS
  <2>2. q \in ReaderType /\ q.step = "sec" /\ q.seq = seq /\ q.seen = r.seen /\ q.floor = r.floor
      BY <1>2, <2>1 DEF ReaderType, ClockTypeOK
  <2>3. reader' = [reader EXCEPT ![t] = q]
      BY <1>1, <1>2, <1>5, <2>1 DEF ReadSeq
  <2>4. Busy(r) /\ seq % 2 = 0 /\ seq \in Nat /\ UNCHANGED <<kernelVars, lastMonotonic, shown>>
      BY <1>1, <1>2, <1>5 DEF ReadSeq, Busy, ClockTypeOK
  <2>5. q.seq % 2 = 0 /\ q.seq <= seq
      BY <2>2, <2>4
  <2>6. QED BY <1>1, <2>2, <2>3, <2>4, <2>5, CallGoesOn DEF Busy
<1>6. CASE ReadSec(t)
  <2>1. PICK q : q = [r EXCEPT !.step = "rest", !.sec = sec]
      OBVIOUS
  <2>2. /\ q \in ReaderType /\ q.step = "rest" /\ q.seq = r.seq /\ q.sec = sec
        /\ q.seen = r.seen /\ q.floor = r.floor
      BY <1>2, <2>1 DEF ReaderType, ClockTypeOK
  <2>3. reader' = [reader EXCEPT ![t] = q]
      BY <1>1, <1>2, <1>6, <2>1 DEF ReadSec
  <2>4. r.step = "sec" /\ Busy(r) /\ UNCHANGED <<kernelVars, lastMonotonic, shown>>
      BY <1>1, <1>6 DEF ReadSec, Busy
  <2>5. r.seq % 2 = 0 /\ r.seq <= seq
      BY <1>1, <2>4 DEF ReaderOK
  <2>6. q.seq = seq => q.sec = time \div PerSecond
      BY <1>2, <2>2, <2>5 DEF KernelInv
  <2>7. QED BY <1>1, <2>2, <2>3, <2>4, <2>5, <2>6, CallGoesOn DEF Busy
<1>7. CASE ReadRest(t)
  <2>1. PICK q : q = [r EXCEPT !.step = "check", !.rest = rest]
      OBVIOUS
  <2>2. /\ q \in ReaderType /\ q.step = "check" /\ q.seq = r.seq /\ q.sec = r.sec /\ q.rest = rest
        /\ q.seen = r.seen /\ q.floor = r.floor
      BY <1>2, <2>1 DEF ReaderType, ClockTypeOK
  <2>3. reader' = [reader EXCEPT ![t] = q]
      BY <1>1, <1>2, <1>7, <2>1 DEF ReadRest
  <2>4. r.step = "rest" /\ Busy(r) /\ UNCHANGED <<kernelVars, lastMonotonic, shown>>
      BY <1>1, <1>7 DEF ReadRest, Busy
  <2>5. r.seq % 2 = 0 /\ r.seq <= seq /\ (r.seq = seq => r.sec = time \div PerSecond)
      BY <1>1, <2>4 DEF ReaderOK
  <2>6. q.seq = seq => q.rest = time % PerSecond
      BY <1>2, <2>2, <2>5 DEF KernelInv
  <2>7. QED BY <1>1, <2>2, <2>3, <2>4, <2>5, <2>6, CallGoesOn DEF Busy
<1>8. CASE ReadCheck(t)
  <2>1. r.step = "check" /\ Busy(r) /\ UNCHANGED kernelVars
      BY <1>1, <1>8 DEF ReadCheck, Busy
  <2>2. CASE seq = r.seq
    <3>1. r.sec = time \div PerSecond /\ r.rest = time % PerSecond /\ time \in r.seen /\ time \in Nat
        BY <1>1, <1>2, <2>1, <2>2 DEF ReaderOK, ClockTypeOK
    <3>2. TimeRead(t) = time
        BY <1>1, <3>1, Split DEF TimeRead
    <3>3. Give(t)
        BY <1>1, <1>8, <2>2 DEF ReadCheck
    <3>4. QED BY <1>1, <2>1, <3>1, <3>2, <3>3, GivesRight
  <2>3. CASE seq # r.seq
    <3>1. PICK q : q = [r EXCEPT !.step = "read"]
        OBVIOUS
    <3>2. q \in ReaderType /\ q.step = "read" /\ q.seen = r.seen /\ q.floor = r.floor
        BY <3>1 DEF ReaderType
    <3>3. reader' = [reader EXCEPT ![t] = q] /\ UNCHANGED <<kernelVars, lastMonotonic, shown>>
        BY <1>1, <1>2, <1>8, <2>3, <3>1 DEF ReadCheck, Goto
    <3>4. QED BY <1>1, <2>1, <3>2, <3>3, CallGoesOn DEF Busy
  <2>4. QED BY <2>2, <2>3
<1>9. CASE Ocall(t)
  <2>1. PICK q : q = [r EXCEPT !.step = "got", !.sec = time \div PerSecond, !.rest = time % PerSecond]
      OBVIOUS
  <2>2. /\ q \in ReaderType /\ q.step = "got" /\ q.sec = time \div PerSecond /\ q.rest = time % PerSecond
        /\ q.seen = r.seen /\ q.floor = r.floor
      BY <1>2, <2>1, Split DEF ReaderType, ClockTypeOK
  <2>3. reader' = [reader EXCEPT ![t] = q]
      BY <1>1, <1>2, <1>9, <2>1 DEF Ocall
  <2>4. Busy(r) /\ UNCHANGED <<kernelVars, lastMonotonic, shown>>
      BY <1>1, <1>9 DEF Ocall, Busy
  <2>5. Ticks(q) = time /\ time \in r.seen
      BY <1>1, <1>2, <2>2, <2>4, Split DEF Ticks, ClockTypeOK, ReaderOK
  <2>6. QED BY <1>1, <2>2, <2>3, <2>4, <2>5, CallGoesOn DEF Busy
<1>10. CASE OcallReturn(t)
  <2>1. r.step = "got" /\ Busy(r) /\ UNCHANGED kernelVars /\ Give(t)
      BY <1>1, <1>10 DEF OcallReturn, Busy
  <2>2. TimeRead(t) \in r.seen
      BY <1>1, <2>1 DEF ReaderOK, Ticks, TimeRead
  <2>3. QED BY <1>1, <2>1, <2>2, GivesRight
<1>11. CASE OcallFails(t)
  <2>1. reader' = [reader EXCEPT ![t] = NoRead] /\ UNCHANGED <<kernelVars, lastMonotonic, shown>>
      BY <1>11 DEF OcallFails
  <2>2. NoRead \in ReaderType /\ NoRead.step = "idle"
      BY DEF NoRead, ReaderType
  <2>3. ReaderOK(NoRead)'
      BY <2>2 DEF ReaderOK, Busy
  <2>4. QED BY <2>1, <2>2, <2>3, ShownStays, CallFits
<1>12. QED BY <1>3, <1>4, <1>5, <1>6, <1>7, <1>8, <1>9, <1>10, <1>11 DEF GettimeStep

\* For any number of threads, of updates by the kernel and of ticks in a second:
\* no call of clock_gettime returns a time that is torn between two updates, an
\* old one, or on the monotonic clock one before another that has been returned
\* (time.cpp: the seq loop and _ensure_monotonic_unlocked).
THEOREM TimesRight == ClockInit /\ [][ClockNext]_clockVars => []TimeRight
<1>1. ClockInit => ClockInv
  <2> SUFFICES ASSUME ClockInit PROVE ClockInv
      OBVIOUS
  <2>1. NoRead \in ReaderType /\ NoRead.step = "idle"
      BY DEF NoRead, ReaderType
  <2>2. ReaderOK(NoRead)
      BY <2>1 DEF ReaderOK, Busy
  <2>3. ClockTypeOK
      BY <2>1 DEF ClockInit, ClockTypeOK
  <2>4. PICK p \in Nat : p = PerSecond /\ p > 0
      BY ClockAssumption
  <2>5. 0 \div p = 0 /\ 0 % p = 0
      BY <2>4, SMTT(30)
  <2>6. KernelInv
      BY <2>4, <2>5 DEF ClockInit, KernelInv
  <2>7. QED BY <2>2, <2>3, <2>6 DEF ClockInit, ClockInv
<1>2. ClockInv /\ [ClockNext]_clockVars => ClockInv'
  <2>1. ASSUME ClockInv, UNCHANGED clockVars PROVE ClockInv'
      BY <2>1 DEF clockVars, kernelVars, ClockInv, ClockTypeOK, KernelInv, ReaderOK, Ticks, Busy
  <2>2. ASSUME ClockInv, NEW t \in Thread, NEW clock \in {"realtime", "monotonic"}, ClockGettime(t, clock)
        PROVE  ClockInv'
    <3>1. PICK q : q = [NoRead EXCEPT !.step = "once", !.clock = clock, !.seen = {time}, !.floor = shown]
        OBVIOUS
    <3>2. q \in ReaderType /\ q.step = "once" /\ q.seen = {time} /\ q.floor = shown
        BY <2>2, <3>1 DEF NoRead, ReaderType, ClockInv, ClockTypeOK
    <3>3. reader' = [reader EXCEPT ![t] = q] /\ UNCHANGED <<kernelVars, lastMonotonic, shown>>
        BY <2>2, <3>1 DEF ClockGettime
    <3>4. UNCHANGED <<seq, sec, rest, pending, time, written>>
        BY <3>3 DEF kernelVars
    <3>5. ReaderOK(q)'
        BY <2>2, <3>2, <3>3, <3>4 DEF ReaderOK, Busy, ClockInv, ClockTypeOK, KernelInv
    <3>6. QED BY <2>2, <3>2, <3>3, <3>5, ShownStays, CallFits
  <2>3. QED BY <2>1, <2>2, KernelStep, GettimeKeeps DEF ClockNext
<1>3. ClockInv => TimeRight
    BY DEF ClockInv, TimeRight, ReaderOK, Ticks, TimeRead, IsMonotonic
<1>4. QED BY <1>1, <1>2, <1>3, PTL
-----------------------------------------------------------------------------
(* The heap: bits and words *)

LEMMA MinOf ==
    ASSUME NEW S \in SUBSET Nat, S # {}
    PROVE  Min(S) \in S /\ \A y \in S : Min(S) <= y
<1>1. PICK m \in S : \A n \in S : m <= n
  BY LeastElement
<1>2. QED BY <1>1 DEF Min

LEMMA MinIs ==
    ASSUME NEW S \in SUBSET Nat, NEW m \in S, \A y \in S : m <= y
    PROVE  Min(S) = m
<1>1. Min(S) \in S /\ \A y \in S : Min(S) <= y
  BY MinOf
<1>2. Min(S) <= m /\ m <= Min(S)
  BY <1>1
<1>3. Min(S) \in Nat /\ m \in Nat
  BY <1>1
<1>4. QED BY <1>2, <1>3

LEMMA DivMod ==
    ASSUME NEW n \in Nat, NEW d \in Nat \ {0}
    PROVE  /\ n \div d \in Nat
           /\ n % d \in 0..d - 1
           /\ n = (n \div d) * d + (n % d)
OBVIOUS

LEMMA Quotient ==
    ASSUME NEW q \in Nat, NEW d \in Nat \ {0}, NEW r \in 0..d - 1
    PROVE  /\ q * d + r \in Nat
           /\ (q * d + r) \div d = q
           /\ (q * d + r) % d = r
OBVIOUS

LEMMA NextMultiple ==
    ASSUME NEW a \in Nat, NEW b \in Nat, NEW d \in Nat
    PROVE  /\ a * d \in Nat
           /\ (a + 1) * d = a * d + d
           /\ (a + b) * d = a * d + b * d
           /\ a < b => a * d + d <= b * d
<1>1. a * d \in Nat /\ (a + 1) * d = a * d + d /\ (a + b) * d = a * d + b * d
  OBVIOUS
<1>2. ASSUME a < b PROVE (a + 1) * d <= b * d
  BY <1>2
<1>3. QED BY <1>1, <1>2

\* The word of a bit and its place there.
LEMMA Position ==
    ASSUME NEW n \in Nat
    PROVE  /\ n \div UintptrBits \in Nat
           /\ n % UintptrBits \in Bit
           /\ n = (n \div UintptrBits) * UintptrBits + (n % UintptrBits)
           /\ n \div UintptrBits <= n
<1>1. UintptrBits \in Nat \ {0}
  BY WordsHaveBits
<1>2. /\ n \div UintptrBits \in Nat
      /\ n % UintptrBits \in 0..UintptrBits - 1
      /\ n = (n \div UintptrBits) * UintptrBits + (n % UintptrBits)
  BY <1>1, DivMod
<1>3. n \div UintptrBits <= (n \div UintptrBits) * UintptrBits
  BY <1>1, <1>2
<1>4. (n \div UintptrBits) * UintptrBits \in Nat
  BY <1>1, <1>2
<1>5. QED BY <1>1, <1>2, <1>3, <1>4 DEF Bit

LEMMA PositionOf ==
    ASSUME NEW w \in Nat, NEW b \in Bit
    PROVE  /\ w * UintptrBits \in Nat /\ b \in Nat /\ b < UintptrBits
           /\ w * UintptrBits + b \in Nat
           /\ (w * UintptrBits + b) \div UintptrBits = w
           /\ (w * UintptrBits + b) % UintptrBits = b
<1>1. UintptrBits \in Nat \ {0} /\ b \in 0..UintptrBits - 1
  BY WordsHaveBits DEF Bit
<1>2. w * UintptrBits \in Nat
  BY <1>1
<1>3. QED BY <1>1, <1>2, Quotient

\* There are exactly as many words as the bits need.
LEMMA WordsCover ==
    ASSUME NEW bits \in Nat
    PROVE  /\ WordCount(bits) \in Nat
           /\ \A w \in Nat : w \in 0..WordCount(bits) - 1 <=> w * UintptrBits < bits
<1> DEFINE c == WordCount(bits)
           m == bits + UintptrBits - 1
<1>1. UintptrBits \in Nat \ {0}
  BY WordsHaveBits
<1>2. m \in Nat
  BY <1>1
<1>3. c \in Nat /\ m % UintptrBits \in 0..UintptrBits - 1 /\ m = c * UintptrBits + (m % UintptrBits)
  BY <1>1, <1>2, DivMod DEF WordCount
<1>4. ASSUME NEW w \in Nat PROVE w \in 0..c - 1 <=> w * UintptrBits < bits
  <2> DEFINE wu == w * UintptrBits
             cu == c * UintptrBits
  <2>1. wu \in Nat /\ cu \in Nat
    BY <1>1, <1>3
  <2>2. w < c => wu + UintptrBits <= cu
    BY <1>1, <1>3, NextMultiple
  <2>3. ~(w < c) => cu <= wu
    <3>1. c < w => cu + UintptrBits <= wu
      BY <1>1, <1>3, NextMultiple
    <3>2. w = c => cu = wu
      OBVIOUS
    <3> HIDE DEF wu, cu, c
    <3>3. QED BY <3>1, <3>2, <2>1, <1>1, <1>3
  <2>4. m = cu + (m % UintptrBits)
    BY <1>3
  <2> HIDE DEF wu, cu, c
  <2>5. QED BY <2>1, <2>2, <2>3, <2>4, <1>1, <1>3 DEF wu
<1>5. QED BY <1>3, <1>4

-----------------------------------------------------------------------------
(* bitset.c: what a range covers *)

\* The loop over the words of a range, with its first, full and last words, covers exactly the
\* bits from pos to pos + count - 1, whatever the bounds have to do with those of the words.
THEOREM RangeMaskExact ==
    ASSUME NEW pos \in Nat, NEW count \in Nat, NEW w \in Nat, NEW b \in Bit
    PROVE  b \in RangeMask(pos, count, w) <=>
              pos <= w * UintptrBits + b /\ w * UintptrBits + b < pos + count
<1> DEFINE q == pos \div UintptrBits
           r == pos % UintptrBits
           qu == q * UintptrBits
           wu == w * UintptrBits
           k == w - q
           ends == (pos + count) % UintptrBits
<1>1. UintptrBits \in Nat /\ UintptrBits > 0 /\ b \in Nat /\ b < UintptrBits
  BY WordsHaveBits DEF Bit
<1>2. q \in Nat /\ r \in Nat /\ r < UintptrBits /\ pos = qu + r
  <2>1. q \in Nat /\ r \in Bit /\ pos = qu + r
    BY Position
  <2> HIDE DEF q, r, qu
  <2>2. QED BY <2>1, <1>1 DEF Bit
<1>3. qu \in Nat /\ wu \in Nat
  BY <1>1, <1>2
<1>4. k \in Int
  BY <1>2
<1>5. b \in RangeMask(pos, count, w) <=>
        /\ ~(k < 0 \/ Remaining(pos, count, k) <= 0)
        /\ b \in Mask(pos, k)
        /\ Remaining(pos, count, k) >= BitsPerWord(pos, k) \/ b < ends
  BY DEF RangeMask
<1>6. ASSUME NEW v \in 1..UintptrBits - 1, pos + count = wu + v PROVE ends = v
  <2>1. v \in 0..UintptrBits - 1 /\ UintptrBits \in Nat \ {0}
    BY <1>1
  <2>2. (wu + v) % UintptrBits = v
    BY <2>1, Quotient
  <2>3. QED BY <2>2, <1>6
<1>7. CASE k < 0
  <2>1. wu + UintptrBits <= qu
    BY <1>1, <1>2, <1>7, NextMultiple
  <2> HIDE DEF k, wu, qu, q, r, ends
  <2>2. pos > wu + b
    BY <2>1, <1>1, <1>2, <1>3
  <2>3. QED BY <2>2, <1>1, <1>3, <1>5, <1>7 DEF wu
<1>8. CASE k = 0
  <2>1. wu = qu
    BY <1>2, <1>8
  <2>2. Remaining(pos, count, k) = count /\ BitsPerWord(pos, k) = UintptrBits - r
        /\ (b \in Mask(pos, k) <=> b >= r)
    BY <1>8 DEF Remaining, BitsPerWord, Mask
  <2> HIDE DEF k, wu, qu, q, r, ends
  <2>3. count > 0 /\ count < UintptrBits - r => ends = r + count
    BY <1>6, <2>1, <1>1, <1>2, <1>3
  <2>4. QED BY <2>1, <2>2, <2>3, <1>1, <1>2, <1>3, <1>5, <1>8 DEF wu
<1>9. CASE k > 0
  <2> DEFINE full == (k - 1) * UintptrBits
  <2>1. k - 1 \in Nat /\ q + 1 + (k - 1) = w /\ q + 1 \in Nat
    BY <1>2, <1>4, <1>9
  <2>2. full \in Nat /\ wu = qu + UintptrBits + full
    <3>1. (q + 1) * UintptrBits = qu + UintptrBits /\ full \in Nat
      BY <1>1, <1>2, <2>1, NextMultiple
    <3>2. (q + 1 + (k - 1)) * UintptrBits = (q + 1) * UintptrBits + full
      BY <1>1, <2>1, NextMultiple
    <3>3. QED BY <3>1, <3>2, <2>1
  <2>3. Remaining(pos, count, k) = count - (UintptrBits - r) - full
        /\ BitsPerWord(pos, k) = UintptrBits /\ b \in Mask(pos, k)
    BY <1>9, <1>4 DEF Remaining, BitsPerWord, Mask
  <2> HIDE DEF k, wu, qu, q, r, ends, full
  <2>4. Remaining(pos, count, k) = pos + count - wu
    BY <2>2, <2>3, <1>1, <1>2, <1>3
  <2>5. pos <= wu + b
    BY <2>2, <1>1, <1>2, <1>3
  <2>6. 0 < pos + count - wu /\ pos + count - wu < UintptrBits => ends = pos + count - wu
    BY <1>6, <1>1, <1>2, <1>3
  <2>7. QED BY <2>3, <2>4, <2>5, <2>6, <1>1, <1>2, <1>3, <1>4, <1>5, <1>9 DEF wu
<1>10. QED BY <1>4, <1>7, <1>8, <1>9

LEMMA RangeMaskBits == \A pos, count, w : RangeMask(pos, count, w) \subseteq Bit
BY DEF RangeMask, Mask

\* The n-th bit of the bitset is one.
Marked(ws, n) == n \div UintptrBits \in DOMAIN ws /\ n % UintptrBits \in ws[n \div UintptrBits]

Bitset(bits) == [0..WordCount(bits) - 1 -> SUBSET Bit]

LEMMA SetRangeMarks ==
    ASSUME NEW bits \in Nat, NEW ws \in Bitset(bits), NEW pos \in Nat, NEW count \in Nat,
           pos + count <= bits
    PROVE  /\ SetRange(ws, pos, count) \in Bitset(bits)
           /\ \A n \in Nat : Marked(SetRange(ws, pos, count), n) <=>
                                 Marked(ws, n) \/ n \in pos..pos + count - 1
<1> DEFINE set == SetRange(ws, pos, count)
<1>1. DOMAIN ws = 0..WordCount(bits) - 1 /\ \A w \in DOMAIN ws : ws[w] \in SUBSET Bit
  BY DEF Bitset
<1>2. set \in Bitset(bits)
  BY <1>1, RangeMaskBits DEF SetRange, Bitset
<1>3. ASSUME NEW n \in Nat PROVE Marked(set, n) <=> Marked(ws, n) \/ n \in pos..pos + count - 1
  <2> DEFINE w == n \div UintptrBits
             b == n % UintptrBits
  <2>1. w \in Nat /\ b \in Bit /\ n = w * UintptrBits + b
    BY Position
  <2>2. b \in RangeMask(pos, count, w) <=> pos <= n /\ n < pos + count
    <3> HIDE DEF w, b
    <3>1. QED BY <2>1, RangeMaskExact
  <2>3. n < pos + count => w \in DOMAIN ws
    <3>1. b \in Nat /\ w * UintptrBits \in Nat
      BY <2>1, PositionOf
    <3> HIDE DEF w, b
    <3>2. n < pos + count => w * UintptrBits < bits
      BY <2>1, <3>1
    <3>3. QED BY <3>2, <2>1, <1>1, WordsCover
  <2>4. Marked(set, n) <=> w \in DOMAIN ws /\ b \in ws[w] \cup RangeMask(pos, count, w)
    BY DEF Marked, SetRange
  <2>5. Marked(ws, n) <=> w \in DOMAIN ws /\ b \in ws[w]
    BY DEF Marked
  <2>6. n \in pos..pos + count - 1 <=> pos <= n /\ n < pos + count
    OBVIOUS
  <2> HIDE DEF w, b, set
  <2>7. QED BY <2>2, <2>3, <2>4, <2>5, <2>6
<1>4. QED BY <1>2, <1>3

LEMMA ResetRangeMarks ==
    ASSUME NEW bits \in Nat, NEW ws \in Bitset(bits), NEW pos \in Nat, NEW count \in Nat
    PROVE  /\ ResetRange(ws, pos, count) \in Bitset(bits)
           /\ \A n \in Nat : Marked(ResetRange(ws, pos, count), n) <=>
                                 Marked(ws, n) /\ n \notin pos..pos + count - 1
<1> DEFINE reset == ResetRange(ws, pos, count)
<1>1. DOMAIN ws = 0..WordCount(bits) - 1 /\ \A w \in DOMAIN ws : ws[w] \in SUBSET Bit
  BY DEF Bitset
<1>2. reset \in Bitset(bits)
  BY <1>1 DEF ResetRange, Bitset
<1>3. ASSUME NEW n \in Nat PROVE Marked(reset, n) <=> Marked(ws, n) /\ n \notin pos..pos + count - 1
  <2> DEFINE w == n \div UintptrBits
             b == n % UintptrBits
  <2>1. w \in Nat /\ b \in Bit /\ n = w * UintptrBits + b
    BY Position
  <2>2. b \in RangeMask(pos, count, w) <=> pos <= n /\ n < pos + count
    <3> HIDE DEF w, b
    <3>1. QED BY <2>1, RangeMaskExact
  <2>3. Marked(reset, n) <=> w \in DOMAIN ws /\ b \in ws[w] \ RangeMask(pos, count, w)
    BY DEF Marked, ResetRange
  <2>4. Marked(ws, n) <=> w \in DOMAIN ws /\ b \in ws[w]
    BY DEF Marked
  <2>5. n \in pos..pos + count - 1 <=> pos <= n /\ n < pos + count
    OBVIOUS
  <2> HIDE DEF w, b, reset
  <2>6. QED BY <2>2, <2>3, <2>4, <2>5
<1>4. QED BY <1>2, <1>3
-----------------------------------------------------------------------------
(* bitset.c: the searches *)

\* The n-th bit is of the kind that is looked for.
Wanted(ws, n, invert) == n % UintptrBits \in Look(ws, n \div UintptrBits, invert)

LEMMA WordStartIs ==
    ASSUME NEW pos \in Nat, NEW k \in Nat
    PROVE  /\ pos \div UintptrBits + k \in Nat
           /\ WordStart(pos, k) = (pos \div UintptrBits + k) * UintptrBits
<1> DEFINE q == pos \div UintptrBits
<1>1. q \in Nat /\ pos % UintptrBits \in Bit /\ pos = q * UintptrBits + (pos % UintptrBits)
  BY Position
<1>2. q * UintptrBits \in Nat /\ k * UintptrBits \in Nat /\ pos % UintptrBits \in Nat
  BY <1>1, WordsHaveBits DEF Bit
<1>3. (q + k) * UintptrBits = q * UintptrBits + k * UintptrBits
  BY <1>1, WordsHaveBits, NextMultiple
<1>4. WordStart(pos, k) = pos - (pos % UintptrBits) + k * UintptrBits
  BY DEF WordStart
<1> HIDE DEF q
<1>5. QED BY <1>1, <1>2, <1>3, <1>4 DEF q

\* A bit of a round's word is one that is looked for.
LEMMA BitOfWord ==
    ASSUME NEW ws, NEW pos \in Nat, NEW k \in Nat, NEW invert \in BOOLEAN, NEW b \in Bit,
           b \in Word(ws, pos, k, invert)
    PROVE  /\ WordStart(pos, k) + b \in Nat
           /\ WordStart(pos, k) + b >= pos
           /\ Wanted(ws, WordStart(pos, k) + b, invert)
<1> DEFINE q == pos \div UintptrBits
           r == pos % UintptrBits
           wu == (q + k) * UintptrBits
           n == WordStart(pos, k) + b
<1>1. q \in Nat /\ r \in Bit /\ pos = q * UintptrBits + r
  BY Position
<1>2. q + k \in Nat /\ n = wu + b
  BY WordStartIs
<1>3. wu \in Nat /\ n \in Nat /\ n \div UintptrBits = q + k /\ n % UintptrBits = b
  BY <1>2, PositionOf
<1>4. b \in Look(ws, q + k, invert) /\ (k = 0 => b >= r)
  BY DEF Word
<1>5. Wanted(ws, n, invert)
  <2> HIDE DEF q, n
  <2>1. QED BY <1>3, <1>4 DEF Wanted
<1>6. n >= pos
  <2> DEFINE qu == q * UintptrBits
  <2>1. qu \in Nat
    BY <1>1, WordsHaveBits
  <2>2. k = 0 => wu = qu
    BY <1>1
  <2>3. k > 0 => qu + UintptrBits <= wu
    <3>1. q < q + k <=> k > 0
      BY <1>1
    <3>2. QED BY <1>1, <1>2, <3>1, WordsHaveBits, NextMultiple
  <2>4. pos = qu + r /\ r \in Nat /\ r < UintptrBits /\ UintptrBits \in Nat /\ b \in Nat
    BY <1>1, WordsHaveBits DEF Bit
  <2> HIDE DEF q, r, wu, n, qu
  <2>5. QED BY <2>1, <2>2, <2>3, <2>4, <1>2, <1>3, <1>4
<1>7. QED BY <1>3, <1>5, <1>6

\* A bit that is looked for belongs to the word of some round, which is a hit.
LEMMA WordOfBit ==
    ASSUME NEW bits \in Nat, NEW ws \in Bitset(bits), NEW pos \in Nat, NEW invert \in BOOLEAN,
           NEW n \in pos..bits - 1, Wanted(ws, n, invert)
    PROVE  \E k \in Hits(ws, bits, pos, invert) :
              /\ n % UintptrBits \in Word(ws, pos, k, invert)
              /\ n = WordStart(pos, k) + (n % UintptrBits)
<1> DEFINE q == pos \div UintptrBits
           r == pos % UintptrBits
           w == n \div UintptrBits
           b == n % UintptrBits
           k == w - q
<1>1. n \in Nat /\ pos <= n /\ n < bits
  OBVIOUS
<1>2. q \in Nat /\ r \in Bit /\ pos = q * UintptrBits + r
  BY Position
<1>3. w \in Nat /\ b \in Bit /\ n = w * UintptrBits + b /\ w <= n
  BY <1>1, Position
<1>4. q * UintptrBits \in Nat /\ w * UintptrBits \in Nat /\ r \in Nat /\ b \in Nat
      /\ b < UintptrBits /\ r < UintptrBits /\ UintptrBits \in Nat
  BY <1>2, <1>3, WordsHaveBits DEF Bit
<1>5. q <= w
  <2>1. w < q => w * UintptrBits + UintptrBits <= q * UintptrBits
    BY <1>2, <1>3, <1>4, NextMultiple
  <2> HIDE DEF q, w, r, b
  <2>2. QED BY <2>1, <1>1, <1>2, <1>3, <1>4
<1>6. k \in Nat /\ k <= w /\ q + k = w
  BY <1>1, <1>2, <1>3, <1>5
<1>7. WordStart(pos, k) = w * UintptrBits
  <2> HIDE DEF k
  <2>1. QED BY <1>6, WordStartIs
<1>8. k = 0 => b >= r
  <2>1. k = 0 => q * UintptrBits = w * UintptrBits
    BY <1>6, <1>2
  <2> HIDE DEF q, w, r, b, k
  <2>2. QED BY <2>1, <1>1, <1>2, <1>3, <1>4
<1>9. b \in Word(ws, pos, k, invert)
  <2>1. b \in Look(ws, q + k, invert)
    <3>1. b \in Look(ws, w, invert)
      BY DEF Wanted
    <3> HIDE DEF k
    <3>2. QED BY <3>1, <1>6
  <2> HIDE DEF b, k
  <2>2. QED BY <2>1, <1>3, <1>8 DEF Word
<1>10. k \in Hits(ws, bits, pos, invert)
  <2> HIDE DEF q, w, b, k
  <2>1. w * UintptrBits < bits
    BY <1>1, <1>3, <1>4
  <2>2. w \in 0..WordCount(bits) - 1 /\ WordCount(bits) \in Nat
    BY <1>3, <2>1, WordsCover
  <2>3. k \in DOMAIN ws
    BY <1>3, <1>6, <2>2 DEF Bitset
  <2>4. QED BY <1>6, <1>7, <1>9, <2>1, <2>3 DEF Hits
<1> HIDE DEF k, w
<1>11. QED BY <1>3, <1>7, <1>9, <1>10

\* _find_next_bit returns the first bit at or behind pos that is looked for, or the size.
THEOREM NextBitExact ==
    ASSUME NEW bits \in Nat, NEW ws \in Bitset(bits), NEW pos \in Nat, NEW invert \in BOOLEAN
    PROVE  LET r == FindNextBit(ws, bits, pos, invert)
           IN  /\ r \in Nat /\ r <= bits
               /\ pos <= bits => pos <= r
               /\ r < bits => Wanted(ws, r, invert)
               /\ \A n \in pos..bits - 1 : Wanted(ws, n, invert) => r <= n
<1> DEFINE r == FindNextBit(ws, bits, pos, invert)
           hits == Hits(ws, bits, pos, invert)
           k == Min(hits)
           b == Min(Word(ws, pos, k, invert))
           hit == BitFound(ws, bits, pos, invert)
<1>1. CASE pos >= bits
  <2>1. r = bits
    BY <1>1 DEF FindNextBit
  <2>2. QED BY <2>1, <1>1
<1>2. CASE pos < bits /\ hits = {}
  <2>1. r = bits
    BY <1>2 DEF FindNextBit
  <2>2. \A n \in pos..bits - 1 : ~Wanted(ws, n, invert)
    BY <1>2, WordOfBit
  <2>3. QED BY <2>1, <2>2, <1>2
<1>3. CASE pos < bits /\ hits # {}
  <2>1. \A j \in hits : j \in Nat /\ Word(ws, pos, j, invert) # {}
    BY DEF Hits, Bitset
  <2>2. hits \in SUBSET Nat
    BY <2>1
  <2>3. k \in hits /\ \A j \in hits : k <= j
    <3> HIDE DEF hits
    <3>1. QED BY <2>2, <1>3, MinOf
  <2>4. k \in Nat /\ Word(ws, pos, k, invert) # {}
    BY <2>1, <2>3
  <2>5. Word(ws, pos, k, invert) \subseteq Bit /\ Bit \subseteq Nat
    <3>1. Bit \subseteq Nat
      BY WordsHaveBits DEF Bit
    <3> DEFINE w == pos \div UintptrBits + k
    <3>2. w \in Nat /\ w * UintptrBits < bits
      <4>1. WordStart(pos, k) < bits
        BY <2>3 DEF Hits
      <4> HIDE DEF k
      <4>2. QED BY <4>1, <2>4, WordStartIs
    <3>3. ws[w] \subseteq Bit
      <4> HIDE DEF w
      <4>1. QED BY <3>2, WordsCover DEF Bitset
    <3> HIDE DEF k
    <3>4. Look(ws, w, invert) \subseteq Bit
      BY <3>3 DEF Look
    <3>5. Word(ws, pos, k, invert) \subseteq Look(ws, w, invert)
      BY DEF Word
    <3>6. QED BY <3>1, <3>4, <3>5
  <2>6. b \in Word(ws, pos, k, invert) /\ \A c \in Word(ws, pos, k, invert) : b <= c
    <3> HIDE DEF k
    <3>1. Word(ws, pos, k, invert) \in SUBSET Nat
      BY <2>5
    <3>2. QED BY <3>1, <2>4, MinOf
  <2>7. b \in Bit
    BY <2>5, <2>6
  <2>8. hit = WordStart(pos, k) + b
    BY DEF BitFound
  <2>9. hit \in Nat /\ hit >= pos /\ Wanted(ws, hit, invert)
    <3> HIDE DEF k, b, hit
    <3>1. QED BY <2>4, <2>6, <2>7, <2>8, BitOfWord
  <2>10. ASSUME NEW n \in pos..bits - 1, Wanted(ws, n, invert)
         PROVE  hit <= n
    <3>1. PICK j \in hits : /\ n % UintptrBits \in Word(ws, pos, j, invert)
                            /\ n = WordStart(pos, j) + (n % UintptrBits)
      <4>1. \E j \in Hits(ws, bits, pos, invert) :
               /\ n % UintptrBits \in Word(ws, pos, j, invert)
               /\ n = WordStart(pos, j) + (n % UintptrBits)
        BY <2>10, WordOfBit
      <4>2. QED BY <4>1
    <3>2. j \in Nat /\ k <= j
      BY <2>1, <2>3
    <3> DEFINE q == pos \div UintptrBits
               c == n % UintptrBits
               ku == (q + k) * UintptrBits
               ju == (q + j) * UintptrBits
    <3>3. /\ q + k \in Nat /\ WordStart(pos, k) = ku
          /\ q + j \in Nat /\ WordStart(pos, j) = ju
      BY <2>4, <3>2, WordStartIs
    <3>4. c \in Word(ws, pos, j, invert) /\ c \in Bit
      <4>1. n \in Nat
        OBVIOUS
      <4>2. QED BY <4>1, <3>1, Position
    <3>5. k = j => b <= c
      BY <2>6, <3>4
    <3>6. k < j => ku + UintptrBits <= ju
      <4>1. k < j => q + k < q + j
        BY <2>4, <3>2, <3>3, Position
      <4>2. QED BY <4>1, <3>3, NextMultiple, WordsHaveBits
    <3>7. k = j => ku = ju
      OBVIOUS
    <3>8. ku \in Nat /\ ju \in Nat /\ UintptrBits \in Nat
          /\ b \in Nat /\ b < UintptrBits /\ c \in Nat
      BY <3>3, <2>7, <3>4, WordsHaveBits DEF Bit
    <3>9. n = ju + c /\ hit = ku + b
      BY <3>1, <3>3, <2>8
    <3> HIDE DEF q, c, ku, ju, k, b, hit
    <3>10. QED BY <3>2, <3>5, <3>6, <3>7, <3>8, <3>9, <2>4
  <2>11. r = IF hit >= bits THEN bits ELSE hit
    BY <1>3 DEF FindNextBit
  <2>12. /\ r \in Nat /\ r <= bits
         /\ pos <= bits => pos <= r
         /\ r < bits => Wanted(ws, r, invert)
         /\ \A n \in pos..bits - 1 : Wanted(ws, n, invert) => r <= n
    <3> HIDE DEF r, hit, hits
    <3>1. QED BY <2>9, <2>10, <2>11, <1>3
  <2>13. QED BY <2>12
<1>4. QED BY <1>1, <1>2, <1>3

\* For bits of the bitset: no bit of the other kind is passed over.
LEMMA WantedMarks ==
    ASSUME NEW bits \in Nat, NEW ws \in Bitset(bits), NEW n \in Nat, n < bits
    PROVE  /\ Wanted(ws, n, FALSE) <=> Marked(ws, n)
           /\ Wanted(ws, n, TRUE) <=> ~Marked(ws, n)
<1> DEFINE w == n \div UintptrBits
           b == n % UintptrBits
<1>1. w \in Nat /\ b \in Bit /\ n = w * UintptrBits + b
  BY Position
<1>2. w * UintptrBits \in Nat /\ b \in Nat
  BY <1>1, PositionOf
<1>3. w * UintptrBits < bits
  <2> HIDE DEF w, b
  <2>1. QED BY <1>1, <1>2
<1>4. w \in DOMAIN ws
  <2> HIDE DEF w
  <2>1. QED BY <1>1, <1>3, WordsCover DEF Bitset
<1>5. QED BY <1>1, <1>4 DEF Wanted, Marked, Look

\* No bit of the kind that is looked for is passed over.
LEMMA NextMarked ==
    ASSUME NEW bits \in Nat, NEW ws \in Bitset(bits), NEW pos \in 0..bits
    PROVE  LET r == FindNextBit(ws, bits, pos, FALSE)
           IN  /\ r \in pos..bits
               /\ r < bits => Marked(ws, r)
               /\ \A n \in pos..bits - 1 : Marked(ws, n) => r <= n
<1> DEFINE r == FindNextBit(ws, bits, pos, FALSE)
<1>1. /\ r \in Nat /\ r <= bits /\ pos <= r
      /\ r < bits => Wanted(ws, r, FALSE)
      /\ \A n \in pos..bits - 1 : Wanted(ws, n, FALSE) => r <= n
  <2>1. pos \in Nat /\ pos <= bits
    OBVIOUS
  <2>2. QED BY <2>1, NextBitExact
<1>2. \A n \in Nat : n < bits => (Wanted(ws, n, FALSE) <=> Marked(ws, n))
  BY WantedMarks
<1>3. /\ r \in pos..bits
      /\ r < bits => Marked(ws, r)
      /\ \A n \in pos..bits - 1 : Marked(ws, n) => r <= n
  <2> HIDE DEF r
  <2>1. r \in pos..bits
    BY <1>1
  <2>2. r < bits => Marked(ws, r)
    BY <1>1, <1>2
  <2>3. ASSUME NEW n \in pos..bits - 1, Marked(ws, n) PROVE r <= n
    <3>1. n \in Nat /\ n < bits
      OBVIOUS
    <3>2. Wanted(ws, n, FALSE)
      BY <3>1, <2>3, <1>2
    <3>3. QED BY <3>2, <1>1
  <2>4. QED BY <2>1, <2>2, <2>3
<1>4. QED BY <1>3

LEMMA NextUnmarked ==
    ASSUME NEW bits \in Nat, NEW ws \in Bitset(bits), NEW pos \in 0..bits
    PROVE  LET r == FindNextBit(ws, bits, pos, TRUE)
           IN  /\ r \in pos..bits
               /\ r < bits => ~Marked(ws, r)
               /\ \A n \in pos..bits - 1 : ~Marked(ws, n) => r <= n
<1> DEFINE r == FindNextBit(ws, bits, pos, TRUE)
<1>1. /\ r \in Nat /\ r <= bits /\ pos <= r
      /\ r < bits => Wanted(ws, r, TRUE)
      /\ \A n \in pos..bits - 1 : Wanted(ws, n, TRUE) => r <= n
  <2>1. pos \in Nat /\ pos <= bits
    OBVIOUS
  <2>2. QED BY <2>1, NextBitExact
<1>2. \A n \in Nat : n < bits => (Wanted(ws, n, TRUE) <=> ~Marked(ws, n))
  BY WantedMarks
<1>3. /\ r \in pos..bits
      /\ r < bits => ~Marked(ws, r)
      /\ \A n \in pos..bits - 1 : ~Marked(ws, n) => r <= n
  <2> HIDE DEF r
  <2>1. r \in pos..bits
    BY <1>1
  <2>2. r < bits => ~Marked(ws, r)
    BY <1>1, <1>2
  <2>3. ASSUME NEW n \in pos..bits - 1, ~Marked(ws, n) PROVE r <= n
    <3>1. n \in Nat /\ n < bits
      OBVIOUS
    <3>2. Wanted(ws, n, TRUE)
      BY <3>1, <2>3, <1>2
    <3>3. QED BY <3>2, <1>1
  <2>4. QED BY <2>1, <2>2, <2>3
<1>4. QED BY <1>3

\* The places at or behind i where count bits that are zero begin.
Gaps(ws, bits, count, i) ==
    {p \in i..bits - count : \A n \in p..p + count - 1 : ~Marked(ws, n)}
FirstGap(ws, bits, count, i) ==
    IF Gaps(ws, bits, count, i) = {} THEN NotFound ELSE Min(Gaps(ws, bits, count, i))

\* One round of find_unset_range.
LEMMA GapRound ==
    ASSUME NEW bits \in Nat, NEW ws \in Bitset(bits), NEW count \in Nat \ {0}, NEW i \in 0..bits
    PROVE  LET pos0 == FindNextBit(ws, bits, i, TRUE)
               pos1 == FindNextBit(ws, bits, pos0, FALSE)
           IN  IF pos0 + count > bits THEN FirstGap(ws, bits, count, i) = NotFound
               ELSE IF pos1 >= pos0 + count THEN FirstGap(ws, bits, count, i) = pos0
               ELSE /\ pos1 + 1 \in i + 1..bits
                    /\ FirstGap(ws, bits, count, i) = FirstGap(ws, bits, count, pos1 + 1)
<1> DEFINE pos0 == FindNextBit(ws, bits, i, TRUE)
           pos1 == FindNextBit(ws, bits, pos0, FALSE)
           gaps == Gaps(ws, bits, count, i)
<1>1. /\ pos0 \in i..bits
      /\ pos0 < bits => ~Marked(ws, pos0)
      /\ \A n \in i..bits - 1 : ~Marked(ws, n) => pos0 <= n
  BY NextUnmarked
<1>2. /\ pos1 \in pos0..bits
      /\ pos1 < bits => Marked(ws, pos1)
      /\ \A n \in pos0..bits - 1 : Marked(ws, n) => pos1 <= n
  <2>1. pos0 \in 0..bits
    <3> HIDE DEF pos0
    <3>1. QED BY <1>1
  <2>2. QED BY <2>1, NextMarked
<1> HIDE DEF pos0, pos1
<1>3. ASSUME NEW p \in gaps
      PROVE  p \in Nat /\ p >= pos0 /\ p + count <= bits /\ p >= i
             /\ \A n \in p..p + count - 1 : ~Marked(ws, n)
  <2>1. p \in i..bits - count /\ \A n \in p..p + count - 1 : ~Marked(ws, n)
    BY DEF Gaps
  <2>2. p \in p..p + count - 1 /\ p \in i..bits - 1
    BY <2>1
  <2>3. QED BY <2>1, <2>2, <1>1
<1>4. CASE pos0 + count > bits
  <2>1. gaps = {}
    BY <1>3, <1>1, <1>4
  <2>2. FirstGap(ws, bits, count, i) = NotFound
    BY <2>1 DEF FirstGap
  <2>3. QED BY <2>2, <1>4 DEF pos0
<1>5. CASE ~(pos0 + count > bits) /\ pos1 >= pos0 + count
  <2>1. pos0 \in gaps
    <3>1. \A n \in pos0..pos0 + count - 1 : ~Marked(ws, n)
      BY <1>1, <1>2, <1>5
    <3>2. pos0 \in i..bits - count
      BY <1>1, <1>5
    <3>3. QED BY <3>1, <3>2 DEF Gaps
  <2>2. Min(gaps) = pos0
    <3> HIDE DEF gaps
    <3>1. gaps \in SUBSET Nat
      BY <1>3
    <3>2. QED BY <3>1, <2>1, <1>3, MinIs
  <2>3. FirstGap(ws, bits, count, i) = pos0
    BY <2>1, <2>2 DEF FirstGap
  <2>4. QED BY <2>3, <1>5 DEF pos0, pos1
<1>6. CASE ~(pos0 + count > bits) /\ ~(pos1 >= pos0 + count)
  <2>1. pos1 + 1 \in i + 1..bits /\ pos1 \in Nat /\ Marked(ws, pos1)
    BY <1>1, <1>2, <1>6
  <2>2. ASSUME NEW p \in gaps PROVE p \in pos1 + 1..bits - count
    <3>1. p \in Nat /\ p >= pos0 /\ p + count <= bits
          /\ \A n \in p..p + count - 1 : ~Marked(ws, n)
      BY <1>3
    <3>2. ~(pos1 \in p..p + count - 1)
      BY <3>1, <2>1
    <3>3. pos0 \in Nat
      BY <1>1
    <3>4. QED BY <3>1, <3>2, <3>3, <2>1, <1>6
  <2>3. gaps = Gaps(ws, bits, count, pos1 + 1)
    <3>1. gaps \subseteq Gaps(ws, bits, count, pos1 + 1)
      BY <2>2, <1>3 DEF Gaps
    <3>2. Gaps(ws, bits, count, pos1 + 1) \subseteq gaps
      BY <2>1 DEF Gaps
    <3>3. QED BY <3>1, <3>2
  <2>4. FirstGap(ws, bits, count, i) = FirstGap(ws, bits, count, pos1 + 1)
    BY <2>3 DEF FirstGap
  <2>5. QED BY <2>1, <2>4, <1>6 DEF pos0, pos1
<1>7. QED BY <1>4, <1>5, <1>6

\* The rounds together: the first gap of all.
THEOREM UnsetRangeExact ==
    ASSUME NEW bits \in Nat, NEW ws \in Bitset(bits), NEW count \in Nat \ {0}
    PROVE  FindUnsetRange(ws, bits, count) = FirstGap(ws, bits, count, 0)
<1> DEFINE pos0(i) == FindNextBit(ws, bits, i, TRUE)
           pos1(i) == FindNextBit(ws, bits, pos0(i), FALSE)
           body(f) == [i \in 0..bits |->
                          IF pos0(i) + count > bits THEN NotFound
                          ELSE IF pos1(i) >= pos0(i) + count THEN pos0(i)
                          ELSE f[pos1(i) + 1]]
           from == CHOOSE f : f = body(f)
           g == [i \in 0..bits |-> FirstGap(ws, bits, count, i)]
<1>1. FindUnsetRange(ws, bits, count) = from[0]
  BY DEF FindUnsetRange
<1>2. ASSUME NEW i \in 0..bits
      PROVE  IF pos0(i) + count > bits THEN g[i] = NotFound
             ELSE IF pos1(i) >= pos0(i) + count THEN g[i] = pos0(i)
             ELSE pos1(i) + 1 \in i + 1..bits /\ pos1(i) + 1 \in 0..bits /\ g[i] = g[pos1(i) + 1]
  <2>1. IF pos0(i) + count > bits THEN FirstGap(ws, bits, count, i) = NotFound
        ELSE IF pos1(i) >= pos0(i) + count THEN FirstGap(ws, bits, count, i) = pos0(i)
        ELSE /\ pos1(i) + 1 \in i + 1..bits
             /\ FirstGap(ws, bits, count, i) = FirstGap(ws, bits, count, pos1(i) + 1)
    BY GapRound
  <2> HIDE DEF pos0, pos1
  <2>2. i + 1..bits \subseteq 0..bits
    OBVIOUS
  <2>3. QED BY <2>1, <2>2
<1>3. g = body(g)
  <2>1. ASSUME NEW i \in 0..bits
        PROVE  g[i] = IF pos0(i) + count > bits THEN NotFound
                      ELSE IF pos1(i) >= pos0(i) + count THEN pos0(i)
                      ELSE g[pos1(i) + 1]
    <3> HIDE DEF pos0, pos1, g
    <3>1. QED BY <1>2
  <2>2. g = [i \in 0..bits |-> g[i]]
    OBVIOUS
  <2> HIDE DEF g, pos0, pos1
  <2>3. QED BY <2>1, <2>2
<1>4. from = body(from)
  <2> HIDE DEF g, pos0, pos1
  <2>1. QED BY <1>3
<1>5. ASSUME NEW i \in 0..bits
      PROVE  from[i] = IF pos0(i) + count > bits THEN NotFound
                       ELSE IF pos1(i) >= pos0(i) + count THEN pos0(i)
                       ELSE from[pos1(i) + 1]
  <2> HIDE DEF from, pos0, pos1
  <2>1. QED BY <1>4
<1> HIDE DEF from, pos0, pos1, body, g
<1>6. \A i \in 0..bits : from[i] = g[i]
  <2> DEFINE wrong == {m \in Nat : \E i \in 0..bits : m = bits - i /\ from[i] # g[i]}
  <2>1. CASE wrong = {}
    <3>1. \A i \in 0..bits : bits - i \in Nat
      OBVIOUS
    <3>2. QED BY <2>1, <3>1
  <2>2. CASE wrong # {}
    <3>1. PICK m \in wrong : \A n \in wrong : m <= n
      <4>1. wrong \in SUBSET Nat
        OBVIOUS
      <4> HIDE DEF wrong
      <4>2. QED BY <4>1, <2>2, LeastElement
    <3>2. PICK i \in 0..bits : m = bits - i /\ from[i] # g[i]
      OBVIOUS
    <3>3. ~(pos0(i) + count > bits) /\ ~(pos1(i) >= pos0(i) + count)
      BY <3>2, <1>2, <1>5
    <3> DEFINE j == pos1(i) + 1
    <3>4. j \in i + 1..bits /\ j \in 0..bits /\ from[j] # g[j]
      BY <3>2, <3>3, <1>2, <1>5
    <3> HIDE DEF j
    <3>5. bits - j \in wrong /\ bits - j < m
      BY <3>2, <3>4
    <3>6. QED
      <4> HIDE DEF wrong
      <4>1. bits - j \in Int /\ m \in Int
        BY <3>2, <3>4
      <4>2. QED BY <4>1, <3>1, <3>5
  <2>3. QED BY <2>1, <2>2
<1>7. from[0] = g[0] /\ g[0] = FirstGap(ws, bits, count, 0)
  BY <1>6 DEF g
<1>8. QED BY <1>1, <1>7
-----------------------------------------------------------------------------
(* Mman *)

HeapTypeOK ==
    /\ fullSize \in HeapPages
    /\ size \in Nat
    /\ words \in Bitset(size)

\* The bitmap's own pages mark the pages that are mapped, once each.
HeapInv ==
    /\ HeapTypeOK
    /\ owners \in [Page -> 0..2]
    /\ \A n \in Reserved : /\ Marked(words, n) <=> n \in Page /\ owners[n] = 1
                           /\ n \in Page => owners[n] <= 1

LEMMA OnesMarked ==
    ASSUME size \in Nat, words \in Bitset(size)
    PROVE  \A n : n \in Ones <=> n \in Nat /\ Marked(words, n)
<1>1. DOMAIN words = 0..WordCount(size) - 1 /\ WordCount(size) \in Nat
      /\ \A w \in DOMAIN words : words[w] \in SUBSET Bit
  BY WordsCover DEF Bitset
<1>2. ASSUME NEW n \in Ones PROVE n \in Nat /\ Marked(words, n)
  <2>1. PICK w \in DOMAIN words : n \in {w * UintptrBits + b : b \in words[w]}
    BY DEF Ones
  <2>2. PICK b \in words[w] : n = w * UintptrBits + b
    BY <2>1
  <2>3. w \in Nat /\ b \in Bit
    BY <1>1, <2>1
  <2>4. n \in Nat /\ n \div UintptrBits = w /\ n % UintptrBits = b
    BY <2>2, <2>3, PositionOf
  <2>5. QED BY <2>1, <2>2, <2>4 DEF Marked
<1>3. ASSUME NEW n \in Nat, Marked(words, n) PROVE n \in Ones
  <2> DEFINE w == n \div UintptrBits
             b == n % UintptrBits
  <2>1. n = w * UintptrBits + b
    BY Position
  <2>2. w \in DOMAIN words /\ b \in words[w]
    BY <1>3 DEF Marked
  <2> HIDE DEF w, b
  <2>3. n \in {w * UintptrBits + c : c \in words[w]}
    BY <2>1, <2>2
  <2>4. QED BY <2>2, <2>3 DEF Ones
<1>4. QED BY <1>2, <1>3

LEMMA HeapInvExact == HeapInv => BitmapExact
<1> SUFFICES ASSUME HeapInv PROVE BitmapExact
  OBVIOUS
<1>1. size \in Nat /\ words \in Bitset(size)
  BY DEF HeapInv, HeapTypeOK
<1>2. \A n : n \in Ones <=> n \in Nat /\ Marked(words, n)
  BY <1>1, OnesMarked
<1>3. \A n \in Reserved : n \in Nat
  BY DEF Reserved
<1>4. \A p \in Page \cap Reserved : owners[p] \in 0..2 /\ owners[p] <= 1
  BY DEF HeapInv
<1>5. \A n \in Reserved : n \in Ones <=> n \in Page /\ owners[n] > 0
  BY <1>2, <1>3, <1>4 DEF HeapInv
<1>6. QED BY <1>4, <1>5 DEF BitmapExact

\* A gap is a place where a mapping fits.
LEMMA GapsFit ==
    ASSUME HeapTypeOK, NEW count \in Nat \ {0}
    PROVE  {p \in Page : Fits(p, count)} = Gaps(words, size, count, 0)
<1>1. size \in Nat
  BY DEF HeapTypeOK
<1>2. \A n \in Nat : n \in Ones <=> Marked(words, n)
  BY OnesMarked DEF HeapTypeOK
<1>3. ASSUME NEW p \in Page, Fits(p, count) PROVE p \in Gaps(words, size, count, 0)
  <2>1. p \in Nat /\ p + count <= size /\ p..p + count - 1 \cap Ones = {}
    BY <1>1, <1>3 DEF Fits, Page, Pages, AddrInRange
  <2>2. p \in 0..size - count
    BY <2>1, <1>1
  <2>3. \A n \in p..p + count - 1 : n \in Nat /\ n \notin Ones
    BY <2>1
  <2>4. QED BY <2>2, <2>3, <1>2 DEF Gaps
<1>4. ASSUME NEW p \in Gaps(words, size, count, 0) PROVE p \in Page /\ Fits(p, count)
  <2>1. p \in 0..size - count /\ \A n \in p..p + count - 1 : ~Marked(words, n)
    BY DEF Gaps
  <2>2. p \in Page /\ AddrInRange(p, count)
    BY <2>1, <1>1 DEF Page, AddrInRange
  <2>3. \A n \in p..p + count - 1 : n \in Nat
    BY <2>1
  <2>4. QED BY <2>1, <2>2, <2>3, <1>2 DEF Fits, Pages
<1>5. QED BY <1>3, <1>4

LEMMA HeapInvSearch == HeapInv => SearchExact
<1> SUFFICES ASSUME HeapTypeOK PROVE SearchExact
  BY DEF HeapInv
<1>1. size \in Nat /\ words \in Bitset(size)
  BY DEF HeapTypeOK
<1>2. ASSUME NEW count \in 1..size
      PROVE  LET fits == {p \in Page : Fits(p, count)}
             IN  FindUnsetRange(words, size, count) = IF fits = {} THEN NotFound ELSE Min(fits)
  <2>1. count \in Nat \ {0}
    BY <1>1
  <2>2. FindUnsetRange(words, size, count) = FirstGap(words, size, count, 0)
    BY <1>1, <2>1, UnsetRangeExact
  <2>3. {p \in Page : Fits(p, count)} = Gaps(words, size, count, 0)
    BY <2>1, GapsFit
  <2>4. QED BY <2>2, <2>3 DEF FirstGap
<1>3. ASSUME NEW pos \in Page
      PROVE  LET ahead == {p \in Ones : p >= pos /\ p < size}
                 first == Min(ahead)
                 end == Min({p \in first..size : p = size \/ p \notin Ones})
             IN  FindSetRange(words, size, pos) = IF ahead = {} THEN <<NotFound, 0>>
                                                  ELSE <<first, end - first>>
  <2> DEFINE ahead == {p \in Ones : p >= pos /\ p < size}
             first == Min(ahead)
             zeros == {p \in first..size : p = size \/ p \notin Ones}
             pos0 == FindNextBit(words, size, pos, FALSE)
             pos1 == FindNextBit(words, size, pos0, TRUE)
  <2>1. pos \in 0..size
    BY <1>1 DEF Page
  <2>2. /\ pos0 \in pos..size
        /\ pos0 < size => Marked(words, pos0)
        /\ \A n \in pos..size - 1 : Marked(words, n) => pos0 <= n
    BY <1>1, <2>1, NextMarked
  <2>3. /\ pos1 \in pos0..size
        /\ pos1 < size => ~Marked(words, pos1)
        /\ \A n \in pos0..size - 1 : ~Marked(words, n) => pos1 <= n
    <3>1. pos0 \in 0..size
      <4> HIDE DEF pos0
      <4>1. QED BY <2>1, <2>2
    <3> HIDE DEF pos0
    <3>2. QED BY <1>1, <3>1, NextUnmarked
  <2>4. \A n : n \in Ones <=> n \in Nat /\ Marked(words, n)
    BY <1>1, OnesMarked
  <2>5. \A n \in ahead : n \in Nat /\ n < size /\ Marked(words, n)
    BY <2>4
  <2>6. FindSetRange(words, size, pos) = IF pos0 = size THEN <<NotFound, 0>> ELSE <<pos0, pos1 - pos0>>
    BY DEF FindSetRange
  <2> HIDE DEF pos0, pos1
  <2>7. CASE pos0 = size
    <3>1. ahead = {}
      BY <2>2, <2>5, <2>7, <2>1
    <3>2. QED BY <3>1, <2>6, <2>7
  <2>8. CASE pos0 # size
    <3>1. pos0 \in Nat /\ pos0 < size /\ pos0 \in ahead
      BY <2>1, <2>2, <2>4, <2>8, <1>1
    <3>2. first = pos0
      <4>1. ahead \in SUBSET Nat
        BY <2>5
      <4>2. \A n \in ahead : pos0 <= n
        <5>1. ASSUME NEW n \in ahead PROVE pos0 <= n
          <6>1. n \in Nat /\ n < size /\ Marked(words, n) /\ n >= pos
            BY <2>5
          <6> HIDE DEF ahead
          <6>2. n \in pos..size - 1
            BY <6>1, <2>1, <1>1
          <6>3. QED BY <6>1, <6>2, <2>2
        <5>2. QED BY <5>1
      <4> HIDE DEF ahead
      <4>3. QED BY <4>1, <4>2, <3>1, MinIs
    <3> HIDE DEF first
    <3>3. Min(zeros) = pos1
      <4>1. zeros \in SUBSET Nat
        BY <3>1, <3>2
      <4>2. pos1 \in zeros
        BY <2>3, <2>4, <3>1, <3>2, <1>1
      <4>3. \A n \in zeros : pos1 <= n
        <5>1. ASSUME NEW n \in zeros PROVE pos1 <= n
          <6>1. n \in Nat /\ n <= size /\ n >= pos0 /\ (n = size \/ ~Marked(words, n))
            BY <2>4, <3>1, <3>2, <1>1
          <6>2. n < size => pos1 <= n
            BY <6>1, <2>3, <3>1, <1>1
          <6>3. pos1 <= size /\ pos1 \in Nat
            BY <2>3, <3>1, <1>1
          <6>4. QED BY <6>1, <6>2, <6>3, <1>1
        <5>2. QED BY <5>1
      <4> HIDE DEF zeros
      <4>4. QED BY <4>1, <4>2, <4>3, MinIs
    <3>4. ahead # {}
      BY <3>1
    <3>5. FindSetRange(words, size, pos) = <<first, Min(zeros) - first>>
      BY <2>6, <2>8, <3>2, <3>3
    <3> HIDE DEF zeros
    <3>6. FindSetRange(words, size, pos) = IF ahead = {} THEN <<NotFound, 0>>
                                           ELSE <<first, Min(zeros) - first>>
      BY <3>4, <3>5
    <3>7. QED BY <3>6 DEF zeros, first
  <2>9. QED BY <2>7, <2>8
<1>4. QED BY <1>2, <1>3 DEF SearchExact

\* The bitmap is never larger than the heap.
LEMMA ManagedNat == ASSUME NEW pages \in HeapPages PROVE Managed(pages) \in Nat
<1> DEFINE bytes == pages \div CharBit
           sum == bytes + PageSize - 1
           q == sum \div PageSize
<1>1. pages \in Nat /\ CharBit \in Nat \ {0} /\ PageSize \in Nat \ {0}
  BY PositiveSizes
<1>2. bytes \in Nat /\ bytes <= bytes * CharBit /\ bytes * CharBit <= pages
  <2>1. bytes \in Nat /\ pages % CharBit \in 0..CharBit - 1
        /\ pages = bytes * CharBit + (pages % CharBit)
    BY <1>1, DivMod
  <2>2. bytes * CharBit \in Nat
    BY <2>1, <1>1
  <2>3. bytes <= bytes * CharBit
    <3> HIDE DEF bytes
    <3>1. QED BY <2>1, <1>1
  <2> HIDE DEF bytes
  <2>4. QED BY <2>1, <2>2, <2>3, <1>1
<1> HIDE DEF bytes
<1>3. sum \in Nat
  BY <1>1, <1>2
<1>4. q \in Nat /\ sum % PageSize \in 0..PageSize - 1 /\ sum = q * PageSize + (sum % PageSize)
  <2> HIDE DEF sum
  <2>1. QED BY <1>1, <1>3, DivMod
<1>5. q <= bytes
  <2>1. bytes < q => bytes * PageSize + PageSize <= q * PageSize
    <3> HIDE DEF q
    <3>1. QED BY <1>1, <1>2, <1>4, NextMultiple
  <2>2. bytes <= bytes * PageSize /\ bytes * PageSize \in Nat /\ q * PageSize \in Nat
    BY <1>1, <1>2, <1>4
  <2>3. sum = bytes + PageSize - 1
    OBVIOUS
  <2> HIDE DEF q, sum
  <2>4. QED BY <2>1, <2>2, <2>3, <1>1, <1>2, <1>4
<1>6. bytes <= pages
  <2>1. bytes * CharBit \in Nat
    BY <1>1, <1>2
  <2>2. QED BY <1>1, <1>2, <2>1
<1>7. Managed(pages) = pages - q
  BY DEF Managed, BitmapPages, bytes
<1> HIDE DEF q
<1>8. QED BY <1>1, <1>2, <1>4, <1>5, <1>6, <1>7

LEMMA HeapInitExact == HeapInit => HeapInv
<1> SUFFICES ASSUME HeapInit PROVE HeapInv
  OBVIOUS
<1>1. fullSize \in HeapPages /\ size \in Nat
  BY ManagedNat DEF HeapInit
<1>2. words \in Bitset(size)
  BY DEF HeapInit, Bitset
<1>3. owners \in [Page -> {0}] /\ \A p \in Page : owners[p] = 0
  BY DEF HeapInit
<1>4. \A n \in Nat : ~Marked(words, n)
  BY DEF HeapInit, Marked
<1>5. \A n \in Reserved : n \in Nat
  BY DEF Reserved
<1>6. owners \in [Page -> 0..2]
  BY <1>3
<1>7. QED BY <1>1, <1>2, <1>3, <1>4, <1>5, <1>6 DEF HeapInv, HeapTypeOK

LEMMA PagesNat ==
    ASSUME NEW pages \in HeapPages
    PROVE  PageBits \in Nat \ {0} /\ BitmapPages(pages) \in Nat
<1>1. pages \in Nat /\ CharBit \in Nat \ {0} /\ PageSize \in Nat \ {0}
  BY PositiveSizes
<1>2. PageBits \in Nat \ {0}
  BY <1>1 DEF PageBits
<1>3. pages \div CharBit \in Nat
  BY <1>1, DivMod
<1> DEFINE sum == (pages \div CharBit) + PageSize - 1
<1>4. sum \in Nat
  BY <1>1, <1>3
<1> HIDE DEF sum
<1>5. sum \div PageSize \in Nat
  BY <1>1, <1>4, DivMod
<1>6. QED BY <1>2, <1>5 DEF BitmapPages, sum

\* No word with a bit in the bitmap's own pages is part of a page that is handed out.
LEMMA WordsApart ==
    ASSUME HeapTypeOK, NEW n \in Reserved
    PROVE  n \in Nat /\ PageOf(n \div UintptrBits) < 0
<1> DEFINE w == n \div UintptrBits
           start == w * UintptrBits
           own == BitmapPages(fullSize)
           page == start \div PageBits
<1>1. PageBits \in Nat \ {0} /\ own \in Nat /\ own * PageBits \in Nat
  BY PagesNat DEF HeapTypeOK
<1>2. n \in Nat /\ n < own * PageBits
  BY <1>1 DEF Reserved
<1>3. w \in Nat /\ n % UintptrBits \in Nat /\ n = start + (n % UintptrBits)
  BY <1>2, Position DEF Bit
<1>4. start \in Nat /\ start < own * PageBits
  <2>1. start \in Nat
    BY <1>3, WordsHaveBits
  <2> HIDE DEF start, own
  <2>2. QED BY <1>1, <1>2, <1>3, <2>1
<1>5. PageOf(w) = page - own
  BY DEF PageOf
<1> HIDE DEF w, start, own
<1>6. /\ page \in Nat /\ start % PageBits \in 0..PageBits - 1
      /\ start = page * PageBits + (start % PageBits)
  BY <1>1, <1>4, DivMod
<1> HIDE DEF page
<1>7. page < own
  <2> SUFFICES ASSUME own <= page PROVE FALSE
    BY <1>1, <1>6
  <2>1. page * PageBits \in Nat
    BY <1>1, <1>6
  <2>2. own * PageBits <= page * PageBits
    <3>1. own < page => own * PageBits + PageBits <= page * PageBits
      BY <1>1, <1>6, NextMultiple
    <3>2. QED BY <3>1, <2>1, <1>1, <1>6
  <2>3. QED BY <2>1, <2>2, <1>1, <1>4, <1>6
<1>8. QED BY <1>1, <1>2, <1>5, <1>6, <1>7 DEF w

\* Clearing pages that are handed out leaves the bitmap's own pages as they are.
LEMMA ClearedKeeps ==
    ASSUME HeapTypeOK, NEW ws \in Bitset(size), NEW pos \in Nat, NEW count
    PROVE  /\ Cleared(ws, Pages(pos, count)) \in Bitset(size)
           /\ \A n \in Reserved : Marked(Cleared(ws, Pages(pos, count)), n) <=> Marked(ws, n)
<1> DEFINE cleared == Cleared(ws, Pages(pos, count))
<1>1. DOMAIN ws = 0..WordCount(size) - 1 /\ \A w \in DOMAIN ws : ws[w] \in SUBSET Bit
  BY DEF Bitset
<1>2. cleared \in Bitset(size)
  BY <1>1 DEF Cleared, Bitset
<1>3. ASSUME NEW n \in Reserved PROVE Marked(cleared, n) <=> Marked(ws, n)
  <2> DEFINE w == n \div UintptrBits
  <2>1. PageOf(w) < 0
    BY <1>3, WordsApart
  <2> HIDE DEF w
  <2>2. PageOf(w) \notin Pages(pos, count)
    BY <2>1 DEF Pages
  <2>3. DOMAIN cleared = DOMAIN ws /\ (w \in DOMAIN ws => cleared[w] = ws[w])
    BY <2>2 DEF Cleared
  <2> HIDE DEF cleared
  <2>4. QED BY <2>3 DEF Marked, w
<1>4. QED BY <1>2, <1>3

\* mmap hands out only pages that are not mapped.
LEMMA MapKeeps == ASSUME HeapInv, NEW count \in 1..size, Map(count) PROVE HeapInv'
<1> DEFINE pos == FindUnsetRange(words, size, count)
           set == SetRange(words, pos, count)
<1>1. HeapTypeOK /\ size \in Nat /\ words \in Bitset(size) /\ count \in Nat \ {0}
  BY DEF HeapInv, HeapTypeOK
<1>2. pos = FirstGap(words, size, count, 0)
  BY <1>1, UnsetRangeExact
<1>3. /\ pos # NotFound /\ words' = Cleared(set, Pages(pos, count))
      /\ size' = size /\ fullSize' = fullSize
      /\ owners' = [p \in Page |-> IF p \notin Pages(pos, count) THEN owners[p]
                                   ELSE IF owners[p] = 0 THEN 1 ELSE 2]
  BY DEF Map
<1>4. pos \in Gaps(words, size, count, 0)
  <2>1. Gaps(words, size, count, 0) \in SUBSET Nat
    BY DEF Gaps
  <2>2. Gaps(words, size, count, 0) # {} /\ pos = Min(Gaps(words, size, count, 0))
    BY <1>2, <1>3 DEF FirstGap
  <2>3. QED BY <2>1, <2>2, MinOf
<1> HIDE DEF pos
<1>5. pos \in Nat /\ pos + count <= size /\ \A n \in Pages(pos, count) : ~Marked(words, n)
  BY <1>1, <1>4 DEF Gaps, Pages
<1>6. /\ set \in Bitset(size)
      /\ \A n \in Nat : Marked(set, n) <=> Marked(words, n) \/ n \in Pages(pos, count)
  BY <1>1, <1>5, SetRangeMarks DEF Pages
<1> HIDE DEF set
<1>7. words' \in Bitset(size) /\ \A n \in Reserved : Marked(words', n) <=> Marked(set, n)
  BY <1>1, <1>3, <1>5, <1>6, ClearedKeeps
<1>8. HeapTypeOK' /\ Page' = Page /\ Reserved' = Reserved
  BY <1>1, <1>3, <1>7 DEF HeapTypeOK, Page, Reserved
<1>9. owners' \in [Page -> 0..2]
  BY <1>3 DEF HeapInv
<1>10. ASSUME NEW n \in Reserved
       PROVE  /\ Marked(words', n) <=> n \in Page /\ owners'[n] = 1
              /\ n \in Page => owners'[n] <= 1
  <2>1. n \in Nat
    BY DEF Reserved
  <2>2. n \in Pages(pos, count) => n \in Page
    BY <1>1, <1>5 DEF Pages, Page
  <2>3. /\ Marked(words, n) <=> n \in Page /\ owners[n] = 1
        /\ n \in Page => owners[n] \in 0..2 /\ owners[n] <= 1
    BY DEF HeapInv
  <2>4. Marked(words', n) <=> Marked(words, n) \/ n \in Pages(pos, count)
    BY <1>6, <1>7, <2>1
  <2>5. CASE n \in Pages(pos, count)
    <3>1. owners[n] = 0
      BY <2>2, <2>3, <2>5, <1>5
    <3>2. owners'[n] = 1
      BY <3>1, <2>2, <2>5, <1>3
    <3>3. QED BY <3>2, <2>2, <2>4, <2>5
  <2>6. CASE n \notin Pages(pos, count)
    BY <2>3, <2>4, <2>6, <1>3
  <2>7. QED BY <2>5, <2>6
<1>11. QED BY <1>8, <1>9, <1>10 DEF HeapInv

LEMMA MapFixedKeeps ==
    ASSUME HeapInv, NEW pos \in Page, NEW count \in 1..size, MapFixed(pos, count)
    PROVE  HeapInv'
<1> DEFINE set == SetRange(words, pos, count)
<1>1. HeapTypeOK /\ size \in Nat /\ words \in Bitset(size) /\ count \in Nat \ {0}
  BY DEF HeapInv, HeapTypeOK
<1>2. /\ words' = Cleared(set, Pages(pos, count)) /\ size' = size /\ fullSize' = fullSize
      /\ owners' = [p \in Page |-> IF p \in Pages(pos, count) THEN 1 ELSE owners[p]]
  BY DEF MapFixed
<1>3. pos \in Nat /\ pos + count <= size
  BY <1>1 DEF MapFixed, AddrInRange, Page
<1>4. /\ set \in Bitset(size)
      /\ \A n \in Nat : Marked(set, n) <=> Marked(words, n) \/ n \in Pages(pos, count)
  BY <1>1, <1>3, SetRangeMarks DEF Pages
<1> HIDE DEF set
<1>5. words' \in Bitset(size) /\ \A n \in Reserved : Marked(words', n) <=> Marked(set, n)
  BY <1>1, <1>2, <1>3, <1>4, ClearedKeeps
<1>6. HeapTypeOK' /\ Page' = Page /\ Reserved' = Reserved
  BY <1>1, <1>2, <1>5 DEF HeapTypeOK, Page, Reserved
<1>7. owners' \in [Page -> 0..2]
  BY <1>2 DEF HeapInv
<1>8. ASSUME NEW n \in Reserved
      PROVE  /\ Marked(words', n) <=> n \in Page /\ owners'[n] = 1
             /\ n \in Page => owners'[n] <= 1
  <2>1. n \in Nat
    BY DEF Reserved
  <2>2. n \in Pages(pos, count) => n \in Page
    BY <1>1, <1>3 DEF Pages, Page
  <2>3. /\ Marked(words, n) <=> n \in Page /\ owners[n] = 1
        /\ n \in Page => owners[n] <= 1
    BY DEF HeapInv
  <2>4. Marked(words', n) <=> Marked(words, n) \/ n \in Pages(pos, count)
    BY <1>4, <1>5, <2>1
  <2>5. QED BY <2>2, <2>3, <2>4, <1>2
<1>9. QED BY <1>6, <1>7, <1>8 DEF HeapInv

LEMMA UnmapKeeps ==
    ASSUME HeapInv, NEW pos \in Page, NEW count \in 1..size, Unmap(pos, count)
    PROVE  HeapInv'
<1>1. HeapTypeOK /\ size \in Nat /\ words \in Bitset(size) /\ count \in Nat \ {0}
  BY DEF HeapInv, HeapTypeOK
<1>2. /\ words' = ResetRange(words, pos, count) /\ size' = size /\ fullSize' = fullSize
      /\ owners' = [p \in Page |-> IF p \in Pages(pos, count) THEN 0 ELSE owners[p]]
  BY DEF Unmap
<1>3. pos \in Nat
  BY <1>1 DEF Page
<1>4. /\ words' \in Bitset(size)
      /\ \A n \in Nat : Marked(words', n) <=> Marked(words, n) /\ n \notin Pages(pos, count)
  BY <1>1, <1>2, <1>3, ResetRangeMarks DEF Pages
<1>5. HeapTypeOK' /\ Page' = Page /\ Reserved' = Reserved
  BY <1>1, <1>2, <1>4 DEF HeapTypeOK, Page, Reserved
<1>6. owners' \in [Page -> 0..2]
  BY <1>2 DEF HeapInv
<1>7. ASSUME NEW n \in Reserved
      PROVE  /\ Marked(words', n) <=> n \in Page /\ owners'[n] = 1
             /\ n \in Page => owners'[n] <= 1
  <2>1. n \in Nat
    BY DEF Reserved
  <2>2. /\ Marked(words, n) <=> n \in Page /\ owners[n] = 1
        /\ n \in Page => owners[n] <= 1
    BY DEF HeapInv
  <2>3. QED BY <2>1, <2>2, <1>2, <1>4
<1>8. QED BY <1>5, <1>6, <1>7 DEF HeapInv

\* Neither madvise nor the program's own writes reach the bitmap's own pages.
LEMMA AdviseKeeps ==
    ASSUME HeapInv, NEW pos \in Page, NEW count \in 1..size, Advise(pos, count)
    PROVE  HeapInv'
<1>1. HeapTypeOK /\ size \in Nat /\ words \in Bitset(size)
  BY DEF HeapInv, HeapTypeOK
<1>2. /\ words' = Cleared(words, Pages(pos, count))
      /\ size' = size /\ fullSize' = fullSize /\ owners' = owners
  BY DEF Advise
<1>3. words' \in Bitset(size) /\ \A n \in Reserved : Marked(words', n) <=> Marked(words, n)
  BY <1>1, <1>2, ClearedKeeps DEF Page
<1>4. HeapTypeOK' /\ Page' = Page /\ Reserved' = Reserved
  BY <1>1, <1>2, <1>3 DEF HeapTypeOK, Page, Reserved
<1>5. QED BY <1>2, <1>3, <1>4 DEF HeapInv

LEMMA StoreKeeps ==
    ASSUME HeapInv, NEW w \in DOMAIN words, NEW value \in SUBSET Bit, Store(w, value)
    PROVE  HeapInv'
<1>1. HeapTypeOK /\ size \in Nat /\ words \in Bitset(size)
  BY DEF HeapInv, HeapTypeOK
<1>2. /\ words' = [words EXCEPT ![w] = value] /\ PageOf(w) \in Page
      /\ size' = size /\ fullSize' = fullSize /\ owners' = owners
  BY DEF Store
<1>3. words' \in Bitset(size)
  BY <1>1, <1>2 DEF Bitset
<1>4. ASSUME NEW n \in Reserved PROVE Marked(words', n) <=> Marked(words, n)
  <2> DEFINE v == n \div UintptrBits
  <2>1. PageOf(v) < 0
    BY <1>1, WordsApart
  <2> HIDE DEF v
  <2>2. v # w
    BY <2>1, <1>2 DEF Page
  <2>3. DOMAIN words' = DOMAIN words /\ (v \in DOMAIN words => words'[v] = words[v])
    BY <2>2, <1>2
  <2>4. QED BY <2>3 DEF Marked, v
<1>5. HeapTypeOK' /\ Page' = Page /\ Reserved' = Reserved
  BY <1>1, <1>2, <1>3 DEF HeapTypeOK, Page, Reserved
<1>6. QED BY <1>2, <1>4, <1>5 DEF HeapInv

LEMMA HeapStep == HeapInv /\ [HeapNext]_heapVars => HeapInv'
<1> SUFFICES ASSUME HeapInv, [HeapNext]_heapVars PROVE HeapInv'
  OBVIOUS
<1>1. CASE HeapNext
  BY <1>1, MapKeeps, MapFixedKeeps, UnmapKeeps, AdviseKeeps, StoreKeeps DEF HeapNext
<1>2. CASE UNCHANGED heapVars
  BY <1>2 DEF heapVars, HeapInv, HeapTypeOK, Reserved, Page
<1>3. QED BY <1>1, <1>2

\* However mappings are cut, joined and replaced and whatever the program writes to them, of the pages
\* that have their bit in the bitmap's own pages exactly the mapped ones are marked, and none belongs
\* to two mappings (mman.c: _map, _map_fixed, munmap, madvise). FitExact says when these are all.
THEOREM HeapExact == HeapSpec => []BitmapExact
BY HeapInitExact, HeapStep, HeapInvExact, PTL DEF HeapSpec

\* find_unset_range and find_set_range find the first range in every bitmap, also in one that the
\* program has written over: mmap fails only if no gap is long enough.
THEOREM SearchesExact == HeapSpec => []SearchExact
BY HeapInitExact, HeapStep, HeapInvSearch, PTL DEF HeapSpec

\* For which sizes _init reserves a bit for each page (mman.c:31-36): rounding the bitmap down to bytes loses it the last
\* bits if the heap has fewer pages than bits in a byte beyond a multiple of what a page of bitmap
\* describes, and more than the bitmap has pages of its own, which need no bit.
THEOREM FitExact ==
    ASSUME NEW pages \in HeapPages
    PROVE  LET beyond == pages % PageBits
           IN  Managed(pages) <= BitmapPages(pages) * PageBits
                  <=> beyond >= CharBit \/ beyond <= pages \div PageBits
<1> DEFINE full == pages \div PageBits
           beyond == pages % PageBits
           bytes == beyond \div CharBit
<1>1. /\ pages \in Nat /\ CharBit \in Nat \ {0} /\ PageSize \in Nat \ {0}
      /\ PageBits \in Nat \ {0} /\ BitmapPages(pages) \in Nat
  BY PositiveSizes, PagesNat
<1>2. full \in Nat /\ beyond \in 0..PageBits - 1 /\ pages = full * PageBits + beyond
  BY <1>1, DivMod
<1> HIDE DEF full, beyond
<1>3. /\ bytes \in Nat /\ beyond % CharBit \in 0..CharBit - 1
      /\ beyond = bytes * CharBit + (beyond % CharBit)
  <2>1. beyond \in Nat
    BY <1>1, <1>2
  <2>2. QED BY <1>1, <2>1, DivMod
<1> HIDE DEF bytes
<1>4. full * PageSize \in Nat /\ full * PageBits = (full * PageSize) * CharBit /\ full * PageBits \in Nat
  BY <1>1, <1>2 DEF PageBits
<1>5. pages \div CharBit = full * PageSize + bytes
  <2> DEFINE q == full * PageSize + bytes
             r == beyond % CharBit
  <2>1. q \in Nat /\ r \in 0..CharBit - 1
    BY <1>3, <1>4
  <2>2. q * CharBit = (full * PageSize) * CharBit + bytes * CharBit
    BY <1>1, <1>3, <1>4, NextMultiple
  <2>3. pages = q * CharBit + r
    <3>1. bytes * CharBit \in Nat
      BY <1>1, <1>3
    <3> HIDE DEF q, r
    <3>2. beyond = bytes * CharBit + r
      BY <1>3 DEF r
    <3>3. QED BY <1>1, <1>2, <1>4, <2>1, <2>2, <3>1, <3>2
  <2> HIDE DEF q, r
  <2>4. (q * CharBit + r) \div CharBit = q
    BY <1>1, <2>1, Quotient
  <2>5. QED BY <2>3, <2>4 DEF q
<1>6. CASE beyond < CharBit
  <2>1. bytes = 0
    <3>1. 0 < bytes => 0 * CharBit + CharBit <= bytes * CharBit
      BY <1>1, <1>3, NextMultiple
    <3>2. bytes * CharBit \in Nat
      BY <1>1, <1>3
    <3>3. QED BY <1>1, <1>2, <1>3, <1>6, <3>1, <3>2
  <2>2. (full * PageSize + (PageSize - 1)) \div PageSize = full
    BY <1>1, <1>2, Quotient
  <2>3. BitmapPages(pages) = full
    <3>1. (pages \div CharBit) + PageSize - 1 = full * PageSize + (PageSize - 1)
      BY <1>1, <1>4, <1>5, <2>1
    <3>2. QED BY <2>2, <3>1 DEF BitmapPages
  <2>4. Managed(pages) = full * PageBits + beyond - full
    BY <1>1, <1>2, <2>3 DEF Managed
  <2>5. QED BY <1>1, <1>2, <1>4, <1>6, <2>3, <2>4 DEF full, beyond
<1>7. CASE beyond >= CharBit
  <2>1. bytes \in 1..PageSize - 1
    <3>1. bytes # 0
      <4>1. bytes = 0 => bytes * CharBit = 0
        BY <1>1
      <4>2. QED BY <1>1, <1>2, <1>3, <1>7, <4>1
    <3>2. bytes < PageSize
      <4>1. PageSize <= bytes => PageSize * CharBit <= bytes * CharBit
        <5>1. PageSize < bytes => PageSize * CharBit + CharBit <= bytes * CharBit
          BY <1>1, <1>3, NextMultiple
        <5>2. PageSize * CharBit \in Nat /\ bytes * CharBit \in Nat
          BY <1>1, <1>3
        <5>3. QED BY <5>1, <5>2, <1>1, <1>3
      <4>2. beyond < PageSize * CharBit /\ PageSize * CharBit \in Nat /\ bytes * CharBit \in Nat
        BY <1>1, <1>2, <1>3 DEF PageBits
      <4>3. QED BY <4>1, <4>2, <1>1, <1>2, <1>3
    <3>3. QED BY <1>1, <1>3, <3>1, <3>2
  <2>2. (full + 1) * PageSize = full * PageSize + PageSize
    BY <1>1, <1>2, NextMultiple
  <2>3. ((full + 1) * PageSize + (bytes - 1)) \div PageSize = full + 1
    <3> DEFINE q == full + 1
               r == bytes - 1
    <3>1. q \in Nat /\ r \in 0..PageSize - 1
      BY <1>1, <1>2, <2>1
    <3> HIDE DEF q, r
    <3>2. (q * PageSize + r) \div PageSize = q
      BY <1>1, <3>1, Quotient
    <3>3. QED BY <3>2 DEF q, r
  <2>4. BitmapPages(pages) = full + 1
    <3>1. (pages \div CharBit) + PageSize - 1 = (full + 1) * PageSize + (bytes - 1)
      BY <1>1, <1>4, <1>5, <2>1, <2>2
    <3>2. QED BY <2>3, <3>1 DEF BitmapPages
  <2>5. (full + 1) * PageBits = full * PageBits + PageBits
    BY <1>1, <1>2, NextMultiple
  <2>6. Managed(pages) = full * PageBits + beyond - full - 1
    BY <1>1, <1>2, <2>4 DEF Managed
  <2>7. Managed(pages) <= BitmapPages(pages) * PageBits
    BY <1>1, <1>2, <1>4, <2>4, <2>5, <2>6
  <2>8. QED BY <1>7, <2>7 DEF beyond
<1>8. QED
  <2>1. beyond < CharBit \/ beyond >= CharBit
    BY <1>1, <1>2
  <2>2. QED BY <1>6, <1>7, <2>1
=============================================================================
