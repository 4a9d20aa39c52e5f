--------------------------- MODULE MCThreadSystem ---------------------------
(* Main creates two threads, and each of the three can be creating one more at *)
(* the same time.                                                            *)
EXTENDS ThreadSystem

CONSTANTS main, w1, w2, p1, p2, p3, p4

TwoWorkers == {w1, w2}
FourPthreads == {p1, p2, p3, p4}
All == {"join", "cancel", "exit", "fail"}
=============================================================================
