---------------------------- MODULE ThreadSystem ----------------------------
(***************************************************************************)
(* The threads of an enclave, inside (EnclaveThreads) and on the host      *)
(* (EnclaveThreadManager).  They meet in the ocall and the ecall of        *)
(* create_thread: the ocall of pthread_create runs create_thread; a host   *)
(* thread runs ert_create_thread_ecall and ends when that returns; a host  *)
(* thread that pthread_cancel has ended leaves its pthread where it was.   *)
(***************************************************************************)
EXTENDS EnclaveThreads

CONSTANT Calls

VARIABLES destructorMutex, mutex, destructed, list, assigned, finished,
          cancelState, canceled, place, new, created, position, outcome

H == INSTANCE EnclaveThreadManager

hostVars == <<destructorMutex, mutex, destructed, list, assigned, finished,
              cancelState, canceled, place, new, created, position, outcome>>
vars == <<enclaveVars, hostVars>>

InEnclave(a) == place[a] = IF a = Main THEN "idle" ELSE "enclave"
\* oe_terminate_enclave has canceled the threads and runs the atexit functions.
exiting == outcome = "canceled"
\* A use after free or an abort ends the process.
Running == fault = "none"
-----------------------------------------------------------------------------
(* Inside the enclave.  An atexit function of Main joins threads, it creates *)
(* none.                                                                     *)

Inside(a) == Running /\ InEnclave(a) /\ UNCHANGED hostVars
MayCreate(a) == a # Main \/ outcome = "none"

Create(a) == /\ Inside(a) /\ MayCreate(a)
             /\ Push(a) \/ CreateWait(a) \/ CreateDetach(a)
Work(w)   == Inside(w) /\ (Enter(w) \/ Done(w) \/ Leave(w))
Join(a)   == /\ Inside(a) /\ outcome # "failed"
             /\ JoinBegin(a) \/ JoinEnd(a, exiting)
DetachOne(a) == Inside(a) /\ MayCreate(a) /\ Detach(a)
-----------------------------------------------------------------------------
(* On the host. *)

\* An ocall of a worker: for pthread_create, or any other, such as a wait. 
Ocall(w) ==
    /\ Running /\ w \notin entering
    /\ H!Ocall(w)
    /\ UNCHANGED enclaveVars
OtherOcallReturn(w) ==
    /\ Running /\ place[w] = "ocall" /\ step[w] # "create_ocall"
    /\ H!OcallReturn(w)
    /\ UNCHANGED enclaveVars
Canceled(w) == Running /\ H!CanceledInOcall(w) /\ UNCHANGED enclaveVars
Finish(w) == Running /\ step[w] = "left" /\ H!Finish(w) /\ UNCHANGED enclaveVars

CreateBegin(a) ==
    /\ Running /\ step[a] = "create_ocall"
    /\ H!CreateBegin(a)
    /\ UNCHANGED enclaveVars

CreateThread(a) ==
    /\ Running
    /\ H!CreateLock(a) \/ H!CreateTry(a) \/ H!CreateSleep(a) \/ H!CreateAssign(a)
    /\ UNCHANGED enclaveVars

CreateStart(a) ==
    /\ Running
    /\ H!CreateStart(a)
    /\ IF new'[a] = None THEN UNCHANGED enclaveVars ELSE Launch(a, new[a])

\* The ocall of pthread_create returns, unless the thread is canceled now.
CreateReturn(a) ==
    /\ Running /\ place[a] = "ocall_end"
    /\ H!OcallReturn(a)
    /\ IF place'[a] = "ended" THEN UNCHANGED enclaveVars
       ELSE \/ created[a] = "true" /\ OcallTrue(a)
            \/ created[a] = "false" /\ (OcallFalse(a) \/ OcallFalseCanceled(a))

\* Main leaves the enclave and waits for its threads, terminates it, or exits.
Terminate ==
    /\ Running /\ step[Main] = "app"
    /\ \/ \E call \in {"join", "cancel"} : H!TakeMutex(call)
       \/ \E w \in Worker : H!CancelMark(w) \/ H!CancelSend(w) \/ H!Join(w)
       \/ H!AllJoined \/ H!Destruct
    /\ UNCHANGED enclaveVars
-----------------------------------------------------------------------------
Init == EnclaveInit /\ H!Init

Next == \/ \E a \in Actor : \/ Create(a) \/ Join(a) \/ DetachOne(a)
                            \/ CreateBegin(a) \/ CreateThread(a)
                            \/ CreateStart(a) \/ CreateReturn(a)
        \/ \E w \in Worker : \/ Work(w) \/ Ocall(w) \/ OtherOcallReturn(w)
                             \/ Canceled(w) \/ Finish(w)
        \/ Terminate

Spec == Init /\ [][Next]_vars

\* A thread that can run does, also Main in an atexit function, a mutex that keeps being released is obtained,
\* and a thread of the enclave makes an ocall now and then, as the comment of
\* cancel_all_threads demands, or ends.  Nobody is obliged to create threads.
FairSpec == /\ Spec
            /\ \A w \in Worker : /\ WF_vars(Ocall(w) \/ Finish(w) \/ Work(w))
                                 /\ WF_vars(OtherOcallReturn(w) \/ Canceled(w))
            /\ \A a \in Actor : /\ WF_vars(CreateBegin(a))
                                /\ SF_vars(CreateThread(a) \/ CreateStart(a) \/ CreateReturn(a))
            /\ WF_vars(Terminate)
            /\ WF_vars(Inside(Main) /\ exiting /\ JoinEnd(Main, exiting))
-----------------------------------------------------------------------------
(* Properties *)

\* Types.
TypeOK == EnclaveTypeOK /\ H!TypeOK

\* pthread_cancel never hits a thread that is inside the enclave, even when it
\* returns there between the check of its cancel_state and the call.
NotCanceledInEnclave == H!NotCanceledInEnclave

\* When cancel_all_threads or join_all_threads has joined its list, no thread of
\* the enclave is left, though threads may have been created meanwhile.
NoneOutlives == H!NoneOutlives

\* A Thread is joined and detached only once its creator has assigned its
\* std::thread, unless create_thread has failed.
AssignedBeforeJoined == H!AssignedBeforeJoined

\* cancel_all_threads returns, unless one creator of threads waits for another
\* one that waits for cancel_all_threads or a use after free ends the process.
CancelReturnsOrCycle ==
    place[Main] \in {"cancel", "cancel_send", "cancel_join"}
       ~> (place[Main] = "idle" \/ H!CreatorCycle \/ ~Running)

\* As long as nothing is canceled on the host and the process does not exit, each
\* queued object has a thread on its way to it or an ocall under way that will
\* start one, so that no creator waits in vain; but for each ocall that failed
\* when its object had been taken, or in a thread that was canceled in it, there
\* is one object in the queue for which nobody comes.
CreatorServed ==
    ~destructed /\ (\A w \in Worker : "Canceling" \notin cancelState[w])
       => Len(queue) = Cardinality(entering)
                       + Cardinality({a \in Actor : step[a] = "create_ocall"})
                       + Cardinality(robbed \cup orphaned)

\* The threads have been canceled, wherever they were, and an atexit function joins
\* one: pthread_join returns though the thread never gets done.
JoinAtExitReturns == exiting /\ step[Main] = "join_wait" ~> step[Main] # "join_wait"
=============================================================================
