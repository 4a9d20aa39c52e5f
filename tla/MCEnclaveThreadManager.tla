----------------------- MODULE MCEnclaveThreadManager -----------------------
(* Main and two threads that may create more. *)
EXTENDS EnclaveThreadManager

CONSTANTS main, w1, w2

TwoWorkers == {w1, w2}
Cancel == {"cancel"}
=============================================================================
