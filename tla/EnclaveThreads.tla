--------------------------- MODULE EnclaveThreads ---------------------------
(***************************************************************************)
(* src/ertlibc/pthread.cpp and new_thread.cpp: the life of a pthread inside *)
(* the enclave.  pthread_create queues an oe_new_thread_t, asks the host   *)
(* for a thread and waits until one has taken an oe_new_thread_t, not      *)
(* necessarily that one, from the front of the queue.  The thread that     *)
(* took it runs its function, waits until it is joined or detached, and    *)
(* deletes it.                                                             *)
(*                                                                         *)
(* Each oe_new_thread_t is a monitor: its mutex guards _state and          *)
(* _detached, every change is broadcast, and every wait loops over its     *)
(* condition.  A wait is therefore a step that is taken when the condition *)
(* holds.  The memory it looks at may have been deleted meanwhile.         *)
(***************************************************************************)
EXTENDS Actors, Naturals, Sequences, FiniteSets

CONSTANT Pthread  \* the oe_new_thread_t objects

ASSUME PthreadAssumption == None \notin Pthread

VARIABLES
    queue,     \* _queue
    state,     \* pthread -> _state, or unused
    detached,  \* pthread -> _detached
    deleted,   \* pthread -> the object has been deleted
    runs,      \* worker -> the object it took from the queue
    entering,  \* the workers that the host has started and that will enter
    step,      \* thread -> where it is in its call
    target,    \* thread -> the object its call is about
    claim,     \* pthread -> who disposes of it: none, attr, join, detach, self
    returned,  \* pthread -> pthread_create has returned it to its caller
    fault,     \* none, use_after_free, abort
    robbed,    \* history: the objects that their creators deleted, when the ocall
               \* had failed, though another thread had taken them
    orphaned,  \* history: the objects that their creators left, being canceled
    misused    \* history: the objects that were used after they had been deleted

objects == <<state, detached, deleted, claim, returned>>
threads == <<runs, entering, step, target>>
faults  == <<fault, misused>>
failures == <<robbed, orphaned>>
enclaveVars == <<queue, objects, threads, faults, failures>>

At(a, label) == fault = "none" /\ step[a] = label
Goto(a, label) == step' = [step EXCEPT ![a] = label]

\* A thread reads or writes an object: it must not have been deleted.
Touch(o) ==
    /\ fault' = IF deleted[o] THEN "use_after_free" ELSE fault
    /\ misused' = IF deleted[o] THEN misused \cup {o} ELSE misused

InQueue(o) == \E i \in DOMAIN queue : queue[i] = o
Dequeue(o) == \E i \in DOMAIN queue :
                 /\ queue[i] = o
                 /\ queue' = SubSeq(queue, 1, i - 1) \o SubSeq(queue, i + 1, Len(queue))
-----------------------------------------------------------------------------
(* pthread_create *)

\* The objects differ in nothing but their names, so they are used in a fixed order.
Fresh == CHOOSE o \in Pthread : state[o] = "unused"

\* _thread_create up to the ocall; d: the attribute says detached.
Push(a) ==
    /\ At(a, "app")
    /\ \E o \in Pthread, d \in BOOLEAN :
          /\ state[o] = "unused" /\ o = Fresh
          /\ state' = [state EXCEPT ![o] = "queued"]
          /\ claim' = [claim EXCEPT ![o] = IF d THEN "attr" ELSE "none"]
          /\ queue' = Append(queue, o)
          /\ target' = [target EXCEPT ![a] = o]
    /\ Goto(a, "create_ocall")
    /\ UNCHANGED <<detached, deleted, returned, runs, entering, faults, failures>>

\* The host starts a thread for this ocall.
Launch(a, w) ==
    /\ At(a, "create_ocall") /\ step[w] = "none" /\ w \notin entering
    /\ entering' = entering \cup {w}
    /\ Goto(a, "create_launched")
    /\ UNCHANGED <<queue, objects, runs, target, faults, failures>>

\* The ocall returns true, whether or not the host has started a thread.
OcallTrue(a) ==
    /\ fault = "none" /\ step[a] \in {"create_ocall", "create_launched"}
    /\ Goto(a, "create_wait")
    /\ UNCHANGED <<queue, objects, runs, entering, target, faults, failures>>

\* The ocall fails: the object is taken out of the queue, if it is still
\* there, and deleted.
OcallFalse_CutsTail(a) ==
    /\ At(a, "create_ocall")
    /\ \E n \in 0 .. Len(queue) :
          /\ queue' = SubSeq(queue, 1, n)
          /\ \A i \in 1 .. n : queue[i] # target[a]
          /\ n < Len(queue) => queue[n + 1] = target[a]
    /\ deleted' = [deleted EXCEPT ![target[a]] = TRUE]
    /\ robbed' = IF InQueue(target[a]) THEN robbed ELSE robbed \cup {target[a]}
    /\ Touch(target[a])
    /\ Goto(a, "app")
    /\ target' = [target EXCEPT ![a] = None]
    /\ UNCHANGED <<state, detached, claim, returned, runs, entering, orphaned>>
OcallFalse(a) ==
    /\ At(a, "create_ocall")
    /\ IF InQueue(target[a]) THEN Dequeue(target[a]) ELSE UNCHANGED queue
    /\ deleted' = [deleted EXCEPT ![target[a]] = TRUE]
    /\ robbed' = IF InQueue(target[a]) THEN robbed ELSE robbed \cup {target[a]}
    /\ Touch(target[a])
    /\ Goto(a, "app")
    /\ target' = [target EXCEPT ![a] = None]
    /\ UNCHANGED <<state, detached, claim, returned, runs, entering, orphaned>>

\* The ocall fails in a canceled thread: pthread_testcancel, the last thing an
\* ocall does, leaves the object in the queue.
OcallFalseCanceled(w) ==
    /\ At(w, "create_ocall") /\ w \in Worker
    /\ state' = [state EXCEPT ![runs[w]] = "done"]
    /\ orphaned' = orphaned \cup {target[w]}
    /\ Touch(runs[w])
    /\ Goto(w, "exit_wait")
    /\ target' = [target EXCEPT ![w] = None]
    /\ UNCHANGED <<queue, detached, deleted, claim, returned, runs, entering, robbed>>

\* "wait until a thread enters and executes the queued new_thread"
CreateWait(a) ==
    /\ At(a, "create_wait")
    /\ state[target[a]] # "queued"
    /\ Touch(target[a])
    /\ IF claim[target[a]] = "attr"
       THEN /\ Goto(a, "create_detach")
            /\ UNCHANGED <<returned, target>>
       ELSE /\ Goto(a, "app")
            /\ returned' = [returned EXCEPT ![target[a]] = TRUE]
            /\ target' = [target EXCEPT ![a] = None]
    /\ UNCHANGED <<queue, state, detached, deleted, claim, runs, entering, failures>>

CreateDetach(a) ==
    /\ At(a, "create_detach")
    /\ Touch(target[a])
    /\ detached' = [detached EXCEPT ![target[a]] = TRUE]
    /\ returned' = [returned EXCEPT ![target[a]] = TRUE]
    /\ Goto(a, "app")
    /\ target' = [target EXCEPT ![a] = None]
    /\ UNCHANGED <<queue, state, deleted, claim, runs, entering, failures>>
-----------------------------------------------------------------------------
(* ert_create_thread_ecall *)

Enter(w) ==
    /\ fault = "none" /\ w \in entering
    /\ entering' = entering \ {w}
    /\ IF queue = <<>>
       THEN /\ fault' = "abort"
            /\ UNCHANGED <<queue, runs, state, step, misused>>
       ELSE /\ queue' = Tail(queue)
            /\ runs' = [runs EXCEPT ![w] = Head(queue)]
            /\ Touch(Head(queue))
            /\ state' = [state EXCEPT ![Head(queue)] = "running"]
            /\ Goto(w, "app")
    /\ UNCHANGED <<target, detached, deleted, claim, returned, failures>>

\* The thread's function has returned, has called pthread_exit, or has been
\* canceled, possibly while it waited for another thread.
Done(w) ==
    /\ fault = "none" /\ w \in Worker
    /\ step[w] \in {"app", "create_wait", "join_wait"}
    /\ state' = [state EXCEPT ![runs[w]] = "done"]
    /\ Touch(runs[w])
    /\ Goto(w, "exit_wait")
    /\ target' = [target EXCEPT ![w] = None]
    /\ UNCHANGED <<queue, detached, deleted, claim, returned, runs, entering, failures>>

\* "wait for join before releasing the thread"
Leave_AtOnce(w) ==
    /\ At(w, "exit_wait")
    /\ Touch(runs[w])
    /\ deleted' = [deleted EXCEPT ![runs[w]] = TRUE]
    /\ Goto(w, "left")
    /\ UNCHANGED <<queue, state, detached, claim, returned, runs, entering, target, failures>>
Leave(w) ==
    /\ At(w, "exit_wait")
    /\ state[runs[w]] = "joined" \/ detached[runs[w]]
    /\ Touch(runs[w])
    /\ deleted' = [deleted EXCEPT ![runs[w]] = TRUE]
    /\ Goto(w, "left")
    /\ UNCHANGED <<queue, state, detached, claim, returned, runs, entering, target, failures>>
-----------------------------------------------------------------------------
(* pthread_join and pthread_detach: of a thread that pthread_create has     *)
(* returned, or of the calling thread itself; each thread once.             *)

JoinBegin(a) ==
    /\ At(a, "app")
    /\ \E o \in Pthread :
          /\ returned[o] /\ claim[o] = "none"
          /\ a \in Worker => runs[a] # o
          /\ claim' = [claim EXCEPT ![o] = "join"]
          /\ target' = [target EXCEPT ![a] = o]
    /\ Goto(a, "join_wait")
    /\ UNCHANGED <<queue, state, detached, deleted, returned, runs, entering, faults, failures>>

\* exiting: ert_exiting, which is set before the atexit functions run and so
\* does not change while a thread is in pthread_join.
JoinEnd_Waits(a, exiting) ==
    /\ At(a, "join_wait")
    /\ state[target[a]] = "done"
    /\ Touch(target[a])
    /\ state' = [state EXCEPT ![target[a]] = "joined"]
    /\ Goto(a, "app")
    /\ target' = [target EXCEPT ![a] = None]
    /\ UNCHANGED <<queue, detached, deleted, claim, returned, runs, entering, failures>>
JoinEnd(a, exiting) ==
    /\ At(a, "join_wait")
    /\ exiting \/ state[target[a]] = "done"
    /\ Touch(target[a])
    /\ state' = [state EXCEPT ![target[a]] = "joined"]
    /\ Goto(a, "app")
    /\ target' = [target EXCEPT ![a] = None]
    /\ UNCHANGED <<queue, detached, deleted, claim, returned, runs, entering, failures>>

Detach(a) ==
    /\ At(a, "app")
    /\ \E o \in Pthread :
          /\ claim[o] = "none" /\ state[o] # "unused"
          /\ returned[o] \/ (a \in Worker /\ runs[a] = o)
          /\ claim' = [claim EXCEPT ![o] = IF returned[o] THEN "detach" ELSE "self"]
          /\ Touch(o)
          /\ detached' = [detached EXCEPT ![o] = TRUE]
    /\ UNCHANGED <<queue, state, deleted, returned, threads, failures>>
-----------------------------------------------------------------------------
EnclaveInit ==
    /\ queue = <<>>
    /\ state = [o \in Pthread |-> "unused"]
    /\ detached = [o \in Pthread |-> FALSE]
    /\ deleted = [o \in Pthread |-> FALSE]
    /\ claim = [o \in Pthread |-> "none"]
    /\ returned = [o \in Pthread |-> FALSE]
    /\ runs = [w \in Worker |-> None]
    /\ entering = {}
    /\ step = [a \in Actor |-> IF a = Main THEN "app" ELSE "none"]
    /\ target = [a \in Actor |-> None]
    /\ fault = "none"
    /\ robbed = {} /\ orphaned = {} /\ misused = {}

\* Of the enclave alone: an ocall starts a thread or fails.
EnclaveNext == \/ \E a \in Actor : \/ Push(a) \/ (\E w \in Worker : Launch(a, w))
                                   \/ (step[a] = "create_launched" /\ OcallTrue(a))
                                   \/ OcallFalse(a) \/ OcallFalseCanceled(a)
                                   \/ CreateWait(a) \/ CreateDetach(a)
                                   \/ JoinBegin(a) \/ JoinEnd(a, FALSE) \/ Detach(a)
               \/ \E w \in Worker : Enter(w) \/ Done(w) \/ Leave(w)

EnclaveSpec == EnclaveInit /\ [][EnclaveNext]_enclaveVars
-----------------------------------------------------------------------------
(* Properties *)

\* Types; what is in the queue waits to be run.
EnclaveTypeOK ==
    /\ queue \in Seq(Pthread)
    /\ \A o \in Pthread : InQueue(o) => state[o] = "queued"
    /\ state \in [Pthread -> {"unused", "queued", "running", "done", "joined"}]
    /\ detached \in [Pthread -> BOOLEAN] /\ deleted \in [Pthread -> BOOLEAN]
    /\ claim \in [Pthread -> {"none", "attr", "join", "detach", "self"}]
    /\ returned \in [Pthread -> BOOLEAN]
    /\ runs \in [Worker -> Pthread \cup {None}]
    /\ entering \subseteq Worker
    /\ step \in [Actor -> {"none", "app", "create_ocall", "create_launched", "create_wait",
                           "create_detach", "join_wait", "exit_wait", "left"}]
    /\ target \in [Actor -> Pthread \cup {None}]
    /\ fault \in {"none", "use_after_free", "abort"}
    /\ robbed \subseteq Pthread /\ orphaned \subseteq Pthread /\ misused \subseteq Pthread

\* Every thread that enters finds an object in the queue, whichever objects the threads take and
\* whichever ocalls fail, so that ert_create_thread_ecall does not abort; and no object is run by
\* two threads, or taken from the queue and still in it.
RunOnce ==
    /\ fault # "abort" /\ Cardinality(entering) <= Len(queue)
    /\ \A v, w \in Worker : runs[v] # None => /\ runs[v] = runs[w] => v = w
                                              /\ ~InQueue(runs[v])

\* An object is used after it has been deleted only if another thread had taken it when its own
\* creator's ocall failed, or if its thread has detached itself before its creator was done with it.
DeletedLast == \A o \in misused : o \in robbed \/ claim[o] = "self"
-----------------------------------------------------------------------------
(* A statement of the source that the code does not live up to. *)

\* "wait for join before releasing the thread" (ert_create_thread_ecall): the
\* object of a running thread is deleted only after a join or a detach.
ReleasedAfterJoin == \A w \in Worker :
    runs[w] # None /\ deleted[runs[w]] => state[runs[w]] = "joined" \/ detached[runs[w]]
=============================================================================
