----------------------------- MODULE RingBuffer -----------------------------
(***************************************************************************)
(* src/ert/common/ringbuffer.c: the byte buffer behind every internal      *)
(* socket, in both directions, and behind a listener's backlog.  The       *)
(* buffer is an array with two indices that coincide both when it is empty *)
(* and when it is full, and a flag that tells the two apart.  A call copies *)
(* at most two contiguous chunks: up to the end of the array, then from    *)
(* its start.                                                              *)
(*                                                                         *)
(* The callers serialise their calls with the buffer's mutex, so a call is *)
(* one step here.                                                          *)
(***************************************************************************)
EXTENDS Naturals, Sequences

CONSTANTS Byte,      \* the values a byte may have
          Capacity,  \* the size given to ert_ringbuffer_alloc
          OpSizes    \* the sizes the callers pass to read and write

\* listen() raises a backlog <= 0 to 1 and connect() allocates 16384 bytes, so
\* no caller allocates a buffer of size zero (where % would trap).
ASSUME CapacityAssumption == Capacity \in Nat \ {0}
ASSUME OpSizesAssumption == OpSizes \subseteq Nat
ASSUME ByteAssumption == 0 \in Byte

VARIABLES rb,    \* the ert_ringbuffer_t
          last   \* the last call: the size passed, the count and bytes returned

vars == <<rb, last>>

Index == 0..Capacity - 1

Lesser(a, b) == IF a < b THEN a ELSE b

Result(op, size, n, data) == [op |-> op, size |-> size, n |-> n, data |-> data]
-----------------------------------------------------------------------------
\* ert_ringbuffer_empty
Empty(r) == r.front = r.back /\ ~r.full

\* The contiguous part that can be read from r.front on.
ReadEnd(r) == IF r.back > r.front THEN r.back ELSE Capacity

\* _read: how much one chunk yields, the bytes, and the buffer afterwards.
ReadChunkLen(r, size) ==
    IF size = 0 \/ Empty(r) THEN 0 ELSE Lesser(size, ReadEnd(r) - r.front)

ReadChunk(r, n) == [i \in 1..n |-> r.buf[r.front + i - 1]]

AfterReadChunk_NoWrap(r, n) ==
    IF n = 0 THEN r
    ELSE [front |-> r.front + n, back |-> r.back, full |-> FALSE, buf |-> r.buf]
AfterReadChunk(r, n) ==
    IF n = 0 THEN r
    ELSE [front |-> (r.front + n) % Capacity, back |-> r.back, full |-> FALSE,
          buf |-> r.buf]

\* The contiguous part that can be written from r.back on.
WriteEnd(r) == IF r.front > r.back THEN r.front ELSE Capacity

\* _write, likewise.
WriteChunkLen(r, size) ==
    IF size = 0 \/ r.full THEN 0 ELSE Lesser(size, WriteEnd(r) - r.back)

AfterWriteChunk(r, data, off, n) ==
    IF n = 0 THEN r
    ELSE LET back == (r.back + n) % Capacity
         IN  [front |-> r.front,
              back  |-> back,
              full  |-> back = r.front,
              buf   |-> [i \in Index |->
                           IF r.back <= i /\ i < r.back + n
                           THEN data[off + i - r.back + 1]
                           ELSE r.buf[i]]]
-----------------------------------------------------------------------------
\* ert_ringbuffer_alloc; oe_calloc zeroes the indices, the flag and the bytes.
Alloc == [front |-> 0, back |-> 0, full |-> FALSE, buf |-> [i \in Index |-> 0]]

Init == /\ rb = Alloc
        /\ last = Result("alloc", 0, 0, <<>>)

\* ert_ringbuffer_write: two chunks.
Write(data) ==
    LET n1 == WriteChunkLen(rb, Len(data))
        r1 == AfterWriteChunk(rb, data, 0, n1)
        n2 == WriteChunkLen(r1, Len(data) - n1)
    IN  /\ rb' = AfterWriteChunk(r1, data, n1, n2)
        /\ last' = Result("write", Len(data), n1 + n2, <<>>)

\* ert_ringbuffer_read: two chunks.
Read_OneChunk(size) ==
    LET n1 == ReadChunkLen(rb, size)
    IN  /\ rb' = AfterReadChunk(rb, n1)
        /\ last' = Result("read", size, n1, ReadChunk(rb, n1))

Read(size) ==
    LET n1 == ReadChunkLen(rb, size)
        r1 == AfterReadChunk(rb, n1)
        n2 == ReadChunkLen(r1, size - n1)
    IN  /\ rb' = AfterReadChunk(r1, n2)
        /\ last' = Result("read", size, n1 + n2,
                           ReadChunk(rb, n1) \o ReadChunk(r1, n2))

IsEmpty == /\ last' = Result("empty", 0, IF Empty(rb) THEN 1 ELSE 0, <<>>)
           /\ UNCHANGED rb

Next == \/ \E size \in OpSizes : \E data \in [1..size -> Byte] : Write(data)
        \/ \E size \in OpSizes : Read(size)
        \/ IsEmpty

Spec == Init /\ [][Next]_vars
-----------------------------------------------------------------------------
(* Properties *)

\* The fields keep their ranges: ringbuffer.h's _front and _back always index
\* the array, so that no memcpy of _read or _write leaves it, and _full is set
\* only while the two indices coincide.
BufferOK(r) == /\ r \in [front : Index, back : Index, full : BOOLEAN,
                         buf : [Index -> Byte]]
               /\ r.full => r.front = r.back

TypeOK == /\ BufferOK(rb)
          /\ last.op \in {"alloc", "write", "read", "empty"}
          /\ last.n \in Nat

\* The number of bytes held, as the indices and the flag encode it.
Occupancy(r) == IF r.full THEN Capacity
                ELSE IF r.back >= r.front THEN r.back - r.front
                ELSE Capacity - r.front + r.back

\* The bytes held, oldest first.
Contents(r) == [i \in 1..Occupancy(r) |-> r.buf[(r.front + i - 1) % Capacity]]

\* The two-chunk arithmetic of ringbuffer.c implements a bounded FIFO queue:
\* every read returns the oldest bytes written and not yet read, in order, and
\* as many as were asked for and are there, across the wrap and at full.
Fifo == INSTANCE BoundedFifo WITH queue <- Contents(rb), last <- last

ImplementsFifo == Fifo!Spec
=============================================================================
