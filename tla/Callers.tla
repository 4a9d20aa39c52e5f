-------------------------------- MODULE Callers --------------------------------
(* The threads of the program that make system calls (ertlibc/syscall.cpp). *)
CONSTANTS Thread, None

ASSUME CallersAssumption == None \notin Thread
=============================================================================
