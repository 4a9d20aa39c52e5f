-------------------------------- MODULE Lists --------------------------------
(* Linked lists and lists of C++ from which entries are removed. *)
EXTENDS Naturals, Sequences

\* The entries of a list that are in S, in their order.
Filter(s, S) ==
    LET kept[n \in 0 .. Len(s)] ==
            IF n = 0 THEN <<>>
            ELSE IF s[n] \in S THEN Append(kept[n - 1], s[n]) ELSE kept[n - 1]
    IN  kept[Len(s)]
=============================================================================
