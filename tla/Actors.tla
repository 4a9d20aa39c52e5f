------------------------------- MODULE Actors -------------------------------
(* The threads that the modules about threads speak of. *)
CONSTANTS Main,    \* the thread that creates, enters and terminates the enclave
          Worker,  \* the threads that the host's thread manager can create
          None

ASSUME ActorAssumption == Main \notin Worker /\ None \notin Worker \cup {Main}

Actor == Worker \cup {Main}
=============================================================================
