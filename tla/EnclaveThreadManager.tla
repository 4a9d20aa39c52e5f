------------------------ MODULE EnclaveThreadManager ------------------------
(***************************************************************************)
(* src/ert/host/enclave_thread_manager.cpp: the host threads that run the  *)
(* pthreads of an enclave, from create_thread, which an enclave thread     *)
(* reaches through an ocall, to join_all_threads and cancel_all_threads,   *)
(* which the thread that terminates the enclave calls.                     *)
(*                                                                         *)
(* A host thread is either inside the enclave or, during an ocall, in the  *)
(* host, where pthread_cancel may end it at a cancelation point.  create_  *)
(* thread takes destructor_mutex_ and then polls mutex_ with a sleep in    *)
(* between; join_all_threads and cancel_all_threads hold mutex_ while they *)
(* join the threads of the list one after the other.                       *)
(***************************************************************************)
EXTENDS Actors, Lists, FiniteSets

CONSTANT Calls  \* bound: what Main does, and whether std::thread may fail

VARIABLES
    destructorMutex,  \* owner of destructor_mutex_
    mutex,            \* owner of mutex_
    destructed,       \* destructor_called_
    list,             \* threads_[enclave]
    assigned,         \* worker -> its Thread holds a joinable std::thread
    finished,         \* worker -> its Thread's finished
    cancelState,      \* worker -> the bits of its Thread's cancel_state
    canceled,         \* worker -> pthread_cancel has been called on it
    place,            \* thread -> where it is
    new,              \* thread -> the worker whose creation is under way
    created,          \* thread -> what the last ert_create_thread_ocall returned
    position,         \* Main's position in the list
    outcome           \* Main's last call: none, joined, canceled, failed, crashed

mutexes == <<destructorMutex, mutex, destructed>>
flags   == <<assigned, finished, cancelState, canceled>>
loop    == <<position, outcome>>
hostVars == <<mutexes, list, flags, place, new, created, loop>>

\* Where create_thread is called from.  Main is not managed and set_cancelable
\* ignores it: its ocalls other than this one are not told apart.
Before(a) == IF a = Main THEN "idle" ELSE "ocall"
Alive(w) == place[w] \notin {"none", "ended"}
Goto(a, label) == place' = [place EXCEPT ![a] = label]
-----------------------------------------------------------------------------
(* A worker: ocalls and its end. *)

\* set_cancelable, at the start (TRUE) and the end (FALSE) of an ocall: always
\* a cancelation point, whichever way the bit goes.
SetCancelable_OnlyAtStart(w, cancelable, label) ==
    /\ cancelState' = [cancelState EXCEPT
          ![w] = IF cancelable THEN @ \cup {"Cancelable"} ELSE @ \ {"Cancelable"}]
    /\ Goto(w, IF cancelable /\ "Canceling" \in cancelState[w] THEN "ended" ELSE label)
SetCancelable(w, cancelable, label) ==
    /\ cancelState' = [cancelState EXCEPT
          ![w] = IF cancelable THEN @ \cup {"Cancelable"} ELSE @ \ {"Cancelable"}]
    /\ Goto(w, IF "Canceling" \in cancelState[w] THEN "ended" ELSE label)

Ocall(w) ==
    /\ place[w] = "enclave"
    /\ SetCancelable(w, TRUE, "ocall")
    /\ UNCHANGED <<mutexes, list, assigned, finished, canceled, new, created, loop>>

OcallReturn(a) ==
    /\ place[a] \in {"ocall", "ocall_end"}
    /\ IF a = Main THEN Goto(a, "idle") /\ UNCHANGED cancelState
       ELSE SetCancelable(a, FALSE, "enclave")
    /\ UNCHANGED <<mutexes, list, assigned, finished, canceled, new, created, loop>>

\* A syscall of the ocall is a cancelation point.
CanceledInOcall(w) ==
    /\ place[w] = "ocall" /\ canceled[w]
    /\ Goto(w, "ended")
    /\ UNCHANGED <<mutexes, list, flags, new, created, loop>>

\* The thread's function has returned.
Finish(w) ==
    /\ place[w] = "enclave"
    /\ finished' = [finished EXCEPT ![w] = TRUE]
    /\ Goto(w, "ended")
    /\ UNCHANGED <<mutexes, list, assigned, cancelState, canceled, new, created, loop>>
-----------------------------------------------------------------------------
(* create_thread *)

CreateBegin(a) ==
    /\ place[a] = Before(a)
    /\ Goto(a, "create_lock")
    /\ created' = [created EXCEPT ![a] = "none"]
    /\ UNCHANGED <<mutexes, list, flags, new, loop>>

\* After the destructor: nothing is created, but the ocall returns true.
CreateLock(a) ==
    /\ place[a] = "create_lock" /\ destructorMutex = None
    /\ \/ /\ destructed
          /\ Goto(a, "ocall_end")
          /\ created' = [created EXCEPT ![a] = "true"]
          /\ UNCHANGED destructorMutex
       \/ /\ ~destructed
          /\ destructorMutex' = a
          /\ Goto(a, "create_try")
          /\ UNCHANGED created
    /\ UNCHANGED <<mutex, destructed, list, flags, new, loop>>

\* The workers not yet created differ in nothing but their names.
Unborn == CHOOSE w \in Worker : place[w] = "none"

\* try_lock succeeds: join the finished threads, remove them from the list and
\* append a Thread that has no std::thread yet.
CreateTry_KeepsFinished(a) ==
    /\ place[a] = "create_try" /\ mutex = None
    /\ \E w \in Worker :
          /\ place[w] = "none" /\ w = Unborn
          /\ list' = Append(Filter(list, {u \in Worker : finished[u]}), w)
          /\ new' = [new EXCEPT ![a] = w]
          /\ place' = [place EXCEPT ![w] = "listed", ![a] = "create_start"]
    /\ UNCHANGED <<mutexes, flags, created, loop>>
CreateTry_Front(a) ==
    /\ place[a] = "create_try" /\ mutex = None
    /\ \E w \in Worker :
          /\ place[w] = "none" /\ w = Unborn
          /\ list' = <<w>> \o Filter(list, {u \in Worker : ~finished[u]})
          /\ new' = [new EXCEPT ![a] = w]
          /\ place' = [place EXCEPT ![w] = "listed", ![a] = "create_start"]
    /\ UNCHANGED <<mutexes, flags, created, loop>>
CreateTry(a) ==
    /\ place[a] = "create_try" /\ mutex = None
    /\ \E w \in Worker :
          /\ place[w] = "none" /\ w = Unborn
          /\ list' = Append(Filter(list, {u \in Worker : ~finished[u]}), w)
          /\ new' = [new EXCEPT ![a] = w]
          /\ place' = [place EXCEPT ![w] = "listed", ![a] = "create_start"]
    /\ UNCHANGED <<mutexes, flags, created, loop>>

\* try_lock has failed and the sleep after it ends the canceled thread.
CreateSleep_Never(a) == FALSE
CreateSleep(a) ==
    /\ place[a] = "create_try" /\ mutex # None
    /\ a \in Worker /\ canceled[a]
    /\ destructorMutex' = None
    /\ Goto(a, "ended")
    /\ UNCHANGED <<mutex, destructed, list, flags, new, created, loop>>

\* The constructor of std::thread: the new thread runs before the creator has
\* assigned the std::thread to the list's entry.  If it throws, the entry stays.
CreateStart_FailureIsTrue(a) ==
    /\ place[a] = "create_start"
    /\ destructorMutex' = None
    /\ Goto(a, "ocall_end")
    /\ new' = [new EXCEPT ![a] = None]
    /\ created' = [created EXCEPT ![a] = "true"]
    /\ UNCHANGED <<mutex, destructed, list, flags, loop>>
CreateStart(a) ==
    /\ place[a] = "create_start"
    /\ \/ /\ place' = [place EXCEPT ![new[a]] = "enclave", ![a] = "create_assign"]
          /\ UNCHANGED <<destructorMutex, new, created>>
       \/ /\ "fail" \in Calls
          /\ destructorMutex' = None
          /\ Goto(a, "ocall_end")
          /\ new' = [new EXCEPT ![a] = None]
          /\ created' = [created EXCEPT ![a] = "false"]
    /\ UNCHANGED <<mutex, destructed, list, flags, loop>>

CreateAssign(a) ==
    /\ place[a] = "create_assign"
    /\ assigned' = [assigned EXCEPT ![new[a]] = TRUE]
    /\ destructorMutex' = None
    /\ Goto(a, "ocall_end")
    /\ new' = [new EXCEPT ![a] = None]
    /\ created' = [created EXCEPT ![a] = "true"]
    /\ UNCHANGED <<mutex, destructed, list, finished, cancelState, canceled, loop>>
-----------------------------------------------------------------------------
(* join_all_threads, cancel_all_threads and the destructor, by Main. *)

TakeMutex(call) ==
    /\ call \in Calls
    /\ place[Main] = "idle" /\ outcome = "none" /\ mutex = None
    /\ mutex' = Main
    /\ position' = 1
    /\ Goto(Main, call)
    /\ UNCHANGED <<destructorMutex, destructed, list, flags, new, created, outcome>>

\* cancel_state |= Canceling, and whether the thread was cancelable.
CancelMark(w) ==
    /\ place[Main] = "cancel"
    /\ position <= Len(list) /\ w = list[position]
    /\ \/ /\ ~finished[w]
          /\ cancelState' = [cancelState EXCEPT ![w] = @ \cup {"Canceling"}]
          /\ Goto(Main, IF "Cancelable" \in cancelState[w] THEN "cancel_send" ELSE "cancel_join")
       \/ /\ finished[w]
          /\ Goto(Main, "cancel_join")
          /\ UNCHANGED cancelState
    /\ UNCHANGED <<mutexes, list, assigned, finished, canceled, new, created, loop>>

\* pthread_cancel, and _wake_thread if it waits in HandleThreadWait.
CancelSend(w) ==
    /\ place[Main] = "cancel_send" /\ w = list[position]
    /\ canceled' = [canceled EXCEPT ![w] = TRUE]
    /\ Goto(Main, "cancel_join")
    /\ UNCHANGED <<mutexes, list, assigned, finished, cancelState, new, created, loop>>

\* t.thread.join(): it throws if there is no std::thread.
Join(w) ==
    /\ place[Main] \in {"join", "cancel_join"}
    /\ position <= Len(list) /\ w = list[position]
    /\ \/ /\ assigned[w] /\ place[w] = "ended"
          /\ position' = position + 1
          /\ Goto(Main, IF place[Main] = "join" THEN "join" ELSE "cancel")
          /\ UNCHANGED <<mutex, outcome>>
       \/ /\ ~assigned[w]
          /\ mutex' = None
          /\ outcome' = "failed"
          /\ Goto(Main, "idle")
          /\ UNCHANGED position
    /\ UNCHANGED <<destructorMutex, destructed, list, flags, new, created>>

AllJoined ==
    /\ place[Main] \in {"join", "cancel"} /\ position > Len(list)
    /\ list' = <<>>
    /\ mutex' = None
    /\ outcome' = IF place[Main] = "join" THEN "none" ELSE "canceled"
    /\ Goto(Main, "idle")
    /\ UNCHANGED <<destructorMutex, destructed, flags, new, created, position>>

\* ~EnclaveThreadManager, when the process exits: detach() terminates the
\* process if a Thread of the list has no std::thread.
Destruct ==
    /\ "exit" \in Calls
    /\ place[Main] = "idle" /\ destructorMutex = None
    /\ destructed' = TRUE
    /\ Goto(Main, "gone")
    /\ outcome' = IF \E i \in DOMAIN list : ~assigned[list[i]] THEN "crashed" ELSE outcome
    /\ UNCHANGED <<destructorMutex, mutex, list, flags, new, created, position>>
-----------------------------------------------------------------------------
Init ==
    /\ destructorMutex = None /\ mutex = None /\ destructed = FALSE
    /\ list = <<>>
    /\ assigned = [w \in Worker |-> FALSE]
    /\ finished = [w \in Worker |-> FALSE]
    /\ cancelState = [w \in Worker |-> {}]
    /\ canceled = [w \in Worker |-> FALSE]
    /\ place = [a \in Actor |-> IF a = Main THEN "idle" ELSE "none"]
    /\ new = [a \in Actor |-> None]
    /\ created = [a \in Actor |-> "none"]
    /\ position = 1
    /\ outcome = "none"

\* Main creates threads only before it has terminated the enclave.
MayCreate(a) == a \in Worker \/ outcome = "none"

WorkerStep(w) == Ocall(w) \/ CanceledInOcall(w) \/ Finish(w)
CreateStep(a) == \/ OcallReturn(a) \/ CreateLock(a) \/ CreateTry(a) \/ CreateSleep(a)
                 \/ CreateStart(a) \/ CreateAssign(a)
MainStep == \/ \E w \in Worker : CancelMark(w) \/ CancelSend(w) \/ Join(w)
            \/ AllJoined

Next == \/ \E w \in Worker : WorkerStep(w)
        \/ \E a \in Actor : (MayCreate(a) /\ CreateBegin(a)) \/ CreateStep(a)
        \/ \E call \in {"join", "cancel"} : TakeMutex(call)
        \/ MainStep
        \/ Destruct

Spec == Init /\ [][Next]_hostVars

\* A thread that can run does; it returns from the enclave or makes an ocall
\* now and then (the comment of cancel_all_threads demands it); a mutex that
\* keeps being released is obtained.  Nobody is obliged to create threads.
FairSpec == /\ Spec
            /\ \A w \in Worker : WF_hostVars(WorkerStep(w))
            /\ \A a \in Actor : SF_hostVars(CreateStep(a))
            /\ WF_hostVars(MainStep)
-----------------------------------------------------------------------------
(* Properties *)

Places == {"none", "listed", "enclave", "ocall", "ocall_end", "ended", "idle", "gone",
           "create_lock", "create_try", "create_start", "create_assign",
           "join", "cancel", "cancel_send", "cancel_join"}

TypeOK ==
    /\ {destructorMutex, mutex} \subseteq Actor \cup {None}
    /\ destructed \in BOOLEAN
    /\ list \in Seq(Worker)
    /\ assigned \in [Worker -> BOOLEAN] /\ finished \in [Worker -> BOOLEAN]
    /\ cancelState \in [Worker -> SUBSET {"Cancelable", "Canceling"}]
    /\ canceled \in [Worker -> BOOLEAN]
    /\ place \in [Actor -> Places]
    /\ new \in [Actor -> Worker \cup {None}]
    /\ created \in [Actor -> {"none", "true", "false"}]
    /\ position \in Nat \ {0}
    /\ outcome \in {"none", "canceled", "failed", "crashed"}

\* pthread_cancel never hits a thread that is inside the enclave, where the
\* thread context is the enclave's and canceling would crash the process.  The
\* check of cancel_state and the call of pthread_cancel are separate steps, and
\* the thread may be on its way back into the enclave in between.
NotCanceledInEnclave == \A w \in Worker : canceled[w] => place[w] # "enclave"

\* When cancel_all_threads or join_all_threads has joined its list, no thread of
\* the enclave is left, though threads may have been created meanwhile: the
\* enclave's memory is unmapped next.
NoneOutlives ==
    outcome = "canceled" \/ (mutex = Main /\ position > Len(list))
       => \A w \in Worker : ~Alive(w)

\* An entry of the list for which std::thread's constructor has thrown.
Broken(w) == place[w] = "listed" /\ \A a \in Actor : new[a] # w

\* Main never joins, and the destructor never detaches, a Thread whose
\* std::thread its creator has yet to assign: a creator precedes the threads it
\* creates in the list and so has been joined before them.  What does make
\* them throw is an entry that create_thread has left behind when it failed.
AssignedBeforeJoined ==
    outcome \in {"failed", "crashed"} => \E i \in DOMAIN list : Broken(list[i])

\* A creator waits for destructor_mutex_ and is to be joined, while the owner
\* of destructor_mutex_ polls mutex_, which the joiner holds.
CreatorCycle ==
    /\ mutex = Main
    /\ \E a, b \in Worker : /\ place[a] = "create_lock"
                            /\ place[b] = "create_try" /\ destructorMutex = b

-----------------------------------------------------------------------------
(* A statement of the source that the code does not live up to. *)

\* "this avoids a deadlock where this thread is joined in cancel_all_threads"
\* (create_thread): cancel_all_threads returns.
CancelReturns == place[Main] \in {"cancel", "cancel_send", "cancel_join"} ~> place[Main] = "idle"
=============================================================================
