---------------------------- MODULE BoundedFifo ----------------------------
(***************************************************************************)
(* What the enclave's byte buffer promises to the internal sockets: a      *)
(* first-in first-out queue of at most Capacity bytes.  A write appends as *)
(* much of its argument as fits and reports how much that was; a read      *)
(* takes as much as was asked for and is there.  Neither ever blocks.      *)
(***************************************************************************)
EXTENDS Naturals, Sequences

CONSTANTS Byte,      \* the values a byte may have
          Capacity,  \* bytes the buffer can hold
          OpSizes    \* the sizes the callers pass to read and write

VARIABLES queue, last

fifoVars == <<queue, last>>

Lesser(a, b) == IF a < b THEN a ELSE b

\* The last call: the size passed, the count returned and, for a read, the bytes.
Result(op, size, n, data) == [op |-> op, size |-> size, n |-> n, data |-> data]

Init == /\ queue = <<>>
        /\ last = Result("alloc", 0, 0, <<>>)

Write(data) ==
    LET n == Lesser(Len(data), Capacity - Len(queue))
    IN  /\ queue' = queue \o SubSeq(data, 1, n)
        /\ last' = Result("write", Len(data), n, <<>>)

Read(size) ==
    LET n == Lesser(size, Len(queue))
    IN  /\ queue' = SubSeq(queue, n + 1, Len(queue))
        /\ last' = Result("read", size, n, SubSeq(queue, 1, n))

Empty == /\ last' = Result("empty", 0, IF queue = <<>> THEN 1 ELSE 0, <<>>)
         /\ UNCHANGED queue

Next == \/ \E size \in OpSizes : \E data \in [1..size -> Byte] : Write(data)
        \/ \E size \in OpSizes : Read(size)
        \/ Empty

Spec == Init /\ [][Next]_fifoVars
=============================================================================
