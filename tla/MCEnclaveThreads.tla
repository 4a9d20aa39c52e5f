-------------------------- MODULE MCEnclaveThreads --------------------------
(* Main, the first thread it creates, and two more: two creators and two *)
(* threads on their way into the enclave at the same time.              *)
EXTENDS EnclaveThreads, TLC

CONSTANTS main, w1, w2, w3, p1, p2, p3

ThreeWorkers == {w1, w2, w3}
ThreePthreads == {p1, p2, p3}

ThreadSymmetry == Permutations(Worker)
=============================================================================
