------------------------ MODULE EnclaveThreadsProofs -------------------------
(***************************************************************************)
(* EnclaveThreads, for any number of threads and objects: each object  *)
(* that is queued is run by one thread, and no thread enters without one;  *)
(* an object is deleted when nobody uses it any more, but for two known    *)
(* cases.  The lemmas allow more steps, so that they hold for the   *)
(* enclave's part of ThreadSystem as well.                                 *)
(***************************************************************************)
EXTENDS EnclaveThreads, FiniteSetTheorems, TLAPS
-----------------------------------------------------------------------------
(* Who runs what *)

Creating == {"create_ocall", "create_launched", "create_wait", "create_detach"}

\* A thread that has entered runs an object that has left the queue, and no
\* other thread runs that; an object is in the queue once.
Runs(w) == /\ step[w] # "none" => runs[w] # None /\ w \notin entering
           /\ runs[w] # None => state[runs[w]] \notin {"unused", "queued"}
           /\ \A v \in Worker : runs[v] # None /\ runs[v] = runs[w] => v = w
QueuedOnce == \A i, j \in DOMAIN queue : queue[i] = queue[j] => i = j
\* A call is about an object, and pthread_create returns one that a thread has taken.
HasTarget(a) ==
    /\ step[a] \in Creating \cup {"join_wait"} => target[a] # None /\ state[target[a]] # "unused"
    /\ step[a] \in {"create_detach", "join_wait"} => state[target[a]] # "queued"
ReturnedTaken == \A o \in Pthread : returned[o] => state[o] \notin {"unused", "queued"}

RunInv == /\ EnclaveTypeOK /\ QueuedOnce /\ ReturnedTaken
          /\ (\A w \in Worker : Runs(w)) /\ (\A a \in Actor : HasTarget(a))

\* The steps of the enclave's threads in a process, where an ocall may return true although the host
\* has started no thread, and a join ends while the process exits.
ProcessNext == EnclaveNext \/ \E a \in Actor : OcallTrue(a) \/ JoinEnd(a, TRUE)
JoinEnds(a) == JoinEnd(a, FALSE) \/ JoinEnd(a, TRUE)
-----------------------------------------------------------------------------
\* Nothing is queued and nothing runs at the start.
LEMMA EnclaveStart ==
    ASSUME EnclaveInit
    PROVE  RunInv
<1> USE ActorAssumption DEF EnclaveInit, Actor
<1>1. queue = <<>> /\ DOMAIN queue = {}
    OBVIOUS
<1>2. EnclaveTypeOK
  <2>1. /\ queue \in Seq(Pthread) /\ \A o \in Pthread : ~InQueue(o)
        /\ state \in [Pthread -> {"unused", "queued", "running", "done", "joined"}]
      BY <1>1 DEF InQueue
  <2>2. /\ detached \in [Pthread -> BOOLEAN] /\ deleted \in [Pthread -> BOOLEAN]
        /\ returned \in [Pthread -> BOOLEAN] /\ entering \subseteq Worker
        /\ robbed \subseteq Pthread /\ orphaned \subseteq Pthread /\ misused \subseteq Pthread
        /\ fault \in {"none", "use_after_free", "abort"}
      BY Zenon
  <2>3. /\ claim \in [Pthread -> {"none", "attr", "join", "detach", "self"}]
        /\ runs \in [Worker -> Pthread \cup {None}] /\ target \in [Actor -> Pthread \cup {None}]
      OBVIOUS
  <2>4. step \in [Actor -> {"none", "app", "create_ocall", "create_launched", "create_wait",
                             "create_detach", "join_wait", "exit_wait", "left"}]
      OBVIOUS
  <2> HIDE DEF EnclaveInit
  <2>5. QED BY <2>1, <2>2, <2>3, <2>4, Zenon DEF EnclaveTypeOK
<1>3. (\A w \in Worker : Runs(w)) /\ (\A a \in Actor : HasTarget(a))
    BY DEF Runs, HasTarget, Creating
<1>4. QED BY <1>1, <1>2, <1>3 DEF RunInv, QueuedOnce, ReturnedTaken

\* A step that leaves the queue and who runs what.
LEMMA SameQueue ==
    ASSUME RunInv, UNCHANGED <<queue, runs>>,
           state' \in [Pthread -> {"unused", "queued", "running", "done", "joined"}],
           \A o \in Pthread : /\ state[o] = "queued" => state'[o] = "queued"
                              /\ state[o] \notin {"unused", "queued"} => state'[o] \notin {"unused", "queued"},
           \A w \in Worker : step'[w] # "none" => step[w] # "none" /\ (w \in entering' => w \in entering),
           EnclaveTypeOK', ReturnedTaken', \A a \in Actor : HasTarget(a)'
    PROVE  RunInv'
BY DEF RunInv, EnclaveTypeOK, QueuedOnce, Runs, InQueue

\* What pthread_create, pthread_join and pthread_detach do in between leaves the queue.
LEMMA CreateRuns ==
    ASSUME RunInv, NEW a \in Actor,
           \/ (\E w \in Worker : Launch(a, w)) \/ OcallTrue(a)
           \/ CreateWait(a) \/ CreateDetach(a) \/ JoinBegin(a) \/ JoinEnds(a) \/ Detach(a)
    PROVE  RunInv'
<1> USE ActorAssumption, PthreadAssumption DEF Actor, Goto, At, Touch, HasTarget, Creating, ReturnedTaken,
                                             faults, failures
<1>0. /\ state \in [Pthread -> {"unused", "queued", "running", "done", "joined"}]
      /\ step \in [Actor -> {"none", "app", "create_ocall", "create_launched", "create_wait",
                           "create_detach", "join_wait", "exit_wait", "left"}]
      /\ target \in [Actor -> Pthread \cup {None}]
    BY DEF RunInv, EnclaveTypeOK
<1>1. CASE \E w \in Worker : Launch(a, w)
    BY <1>0, <1>1, SameQueue DEF Launch, objects, RunInv, EnclaveTypeOK, InQueue
<1>2. CASE OcallTrue(a)
    BY <1>0, <1>2, SameQueue DEF OcallTrue, objects, RunInv, EnclaveTypeOK, InQueue
<1>3. CASE CreateWait(a)
  <2>1. EnclaveTypeOK'
    <3>1. PICK o \in Pthread : o = target[a]
        BY <1>0, <1>3 DEF CreateWait, RunInv
    <3>2. /\ fault' \in {fault, "use_after_free"} /\ misused' \in {misused, misused \cup {o}}
          /\ UNCHANGED <<queue, state, detached, deleted, claim, runs, entering, robbed, orphaned>>
        BY <1>3, <3>1 DEF CreateWait
    <3>3. \E l \in {"app", "create_detach"} : step' = [step EXCEPT ![a] = l]
        BY <1>3 DEF CreateWait
    <3>4. /\ returned' = returned \/ returned' = [returned EXCEPT ![o] = TRUE]
          /\ target' = target \/ target' = [target EXCEPT ![a] = None]
        BY <1>3, <3>1 DEF CreateWait
    <3>5. returned' \in [Pthread -> BOOLEAN] /\ target' \in [Actor -> Pthread \cup {None}]
      <4>1. returned \in [Pthread -> BOOLEAN]
          BY DEF RunInv, EnclaveTypeOK
      <4>2. returned' \in [Pthread -> BOOLEAN]
          BY <3>4, <4>1
      <4>3. target' \in [Actor -> Pthread \cup {None}]
          BY <1>0, <3>4
      <4>4. QED BY <4>2, <4>3
    <3>6. step' \in [Actor -> {"none", "app", "create_ocall", "create_launched", "create_wait",
                               "create_detach", "join_wait", "exit_wait", "left"}]
        BY <1>0, <3>3
    <3>7. \A p \in Pthread : InQueue(p)' => state'[p] = "queued"
        BY <3>2 DEF RunInv, EnclaveTypeOK, InQueue
    <3>8. QED BY <3>2, <3>5, <3>6, <3>7 DEF RunInv, EnclaveTypeOK
  <2>2. \A b \in Actor : HasTarget(b)'
      BY <1>0, <1>3 DEF CreateWait, RunInv
  <2>3. \A w \in Worker : step'[w] # "none" => step[w] # "none" /\ (w \in entering' => w \in entering)
      BY <1>0, <1>3 DEF CreateWait
  <2>4. UNCHANGED <<queue, runs, state>>
      BY <1>3 DEF CreateWait
  <2>5. ReturnedTaken'
      BY <1>0, <1>3 DEF CreateWait, RunInv, EnclaveTypeOK
  <2>6. QED BY <1>0, <2>1, <2>2, <2>3, <2>4, <2>5, SameQueue
<1>4. CASE CreateDetach(a)
    BY <1>0, <1>4, SameQueue DEF CreateDetach, RunInv, EnclaveTypeOK, InQueue
<1>5. CASE JoinBegin(a)
  <2>1. EnclaveTypeOK'
      BY <1>0, <1>5 DEF JoinBegin, RunInv, EnclaveTypeOK, InQueue
  <2>2. \A b \in Actor : HasTarget(b)'
      BY <1>0, <1>5 DEF JoinBegin, RunInv
  <2>3. \A w \in Worker : step'[w] # "none" => step[w] # "none" /\ (w \in entering' => w \in entering)
      BY <1>0, <1>5 DEF JoinBegin
  <2>4. UNCHANGED <<queue, runs, state>>
      BY <1>5 DEF JoinBegin
  <2>5. ReturnedTaken'
      BY <1>0, <1>5 DEF JoinBegin, RunInv, EnclaveTypeOK
  <2>6. QED BY <1>0, <2>1, <2>2, <2>3, <2>4, <2>5, SameQueue
<1>6. CASE JoinEnds(a)
  <2>1. PICK o \in Pthread : o = target[a] /\ state[o] \notin {"unused", "queued"}
      BY <1>0, <1>6 DEF JoinEnds, JoinEnd, RunInv
  <2>2. /\ state' = [state EXCEPT ![o] = "joined"] /\ target' = [target EXCEPT ![a] = None]
        /\ step' = [step EXCEPT ![a] = "app"] /\ step[a] = "join_wait"
        /\ fault' \in {fault, "use_after_free"} /\ misused' \in {misused, misused \cup {o}}
        /\ UNCHANGED <<queue, detached, deleted, claim, returned, runs, entering, robbed, orphaned>>
      BY <1>6, <2>1 DEF JoinEnds, JoinEnd
  <2>3. EnclaveTypeOK'
      BY <1>0, <2>1, <2>2 DEF RunInv, EnclaveTypeOK, InQueue
  <2>4. \A b \in Actor : HasTarget(b)'
      BY <1>0, <2>2 DEF RunInv
  <2>5. ReturnedTaken'
      BY <1>0, <2>2 DEF RunInv
  <2>6. QED BY <1>0, <2>1, <2>2, <2>3, <2>4, <2>5, SameQueue
<1>7. CASE Detach(a)
    BY <1>0, <1>7, SameQueue DEF Detach, threads, RunInv, EnclaveTypeOK, InQueue
<1>8. QED BY <1>1, <1>2, <1>3, <1>4, <1>5, <1>6, <1>7

\* An object whose thread ends stays its thread's own.
LEMMA EndRuns ==
    ASSUME RunInv, NEW w \in Worker, Done(w) \/ Leave(w) \/ OcallFalseCanceled(w)
    PROVE  RunInv'
<1> USE ActorAssumption, PthreadAssumption DEF Actor, Goto, At, Touch, Creating, failures
<1>0. /\ state \in [Pthread -> {"unused", "queued", "running", "done", "joined"}]
      /\ step \in [Actor -> {"none", "app", "create_ocall", "create_launched", "create_wait",
                           "create_detach", "join_wait", "exit_wait", "left"}]
      /\ target \in [Actor -> Pthread \cup {None}]
    BY DEF RunInv, EnclaveTypeOK
<1>1. PICK o \in Pthread : o = runs[w] /\ state[o] \notin {"unused", "queued"}
  <2>1. step[w] # "none"
      BY DEF Done, Leave, OcallFalseCanceled
  <2>2. QED BY <2>1 DEF RunInv, Runs, EnclaveTypeOK
<1>2. UNCHANGED <<queue, runs, returned>>
    BY DEF Done, Leave, OcallFalseCanceled
<1>3. state' = state \/ state' = [state EXCEPT ![o] = "done"]
    BY <1>1 DEF Done, Leave, OcallFalseCanceled
<1>4. PICK l \in {"exit_wait", "left"} : step' = [step EXCEPT ![w] = l]
    BY DEF Done, Leave, OcallFalseCanceled
<1>5. target' = target \/ target' = [target EXCEPT ![w] = None]
    BY DEF Done, Leave, OcallFalseCanceled
<1>6. EnclaveTypeOK'
  <2>1. \A p \in Pthread : InQueue(p)' => state'[p] = "queued"
      BY <1>0, <1>1, <1>2, <1>3 DEF RunInv, EnclaveTypeOK, InQueue
  <2>2. /\ deleted' \in [Pthread -> BOOLEAN] /\ fault' \in {"none", "use_after_free", "abort"}
        /\ misused' \subseteq Pthread /\ robbed' = robbed /\ robbed \subseteq Pthread
      BY <1>1 DEF Done, Leave, OcallFalseCanceled, RunInv, EnclaveTypeOK
  <2>7. orphaned' \subseteq Pthread
    <3>1. step[w] = "create_ocall" => target[w] \in Pthread
        BY <1>0 DEF RunInv, HasTarget
    <3>2. QED BY <3>1 DEF Done, Leave, OcallFalseCanceled, RunInv, EnclaveTypeOK
  <2>3. UNCHANGED <<detached, claim, entering>>
      BY DEF Done, Leave, OcallFalseCanceled
  <2>4. state' \in [Pthread -> {"unused", "queued", "running", "done", "joined"}]
      BY <1>0, <1>1, <1>3
  <2>5. /\ step' \in [Actor -> {"none", "app", "create_ocall", "create_launched", "create_wait",
                               "create_detach", "join_wait", "exit_wait", "left"}]
        /\ target' \in [Actor -> Pthread \cup {None}]
      BY <1>0, <1>4, <1>5
  <2>6. QED BY <1>2, <2>1, <2>2, <2>3, <2>4, <2>5, <2>7 DEF RunInv, EnclaveTypeOK
<1>7. \A p \in Pthread : /\ state[p] \in {"unused", "queued"} => state'[p] = state[p]
                         /\ state[p] \notin {"unused", "queued"} => state'[p] \notin {"unused", "queued"}
    BY <1>0, <1>1, <1>3
<1>8. \A a \in Actor : HasTarget(a)'
    BY <1>0, <1>4, <1>5, <1>7 DEF RunInv, HasTarget
<1>9. \A v \in Worker : step'[v] # "none" => step[v] # "none" /\ (v \in entering' => v \in entering)
  <2>1. step[w] # "none"
      BY DEF Done, Leave, OcallFalseCanceled
  <2>2. entering' = entering
      BY DEF Done, Leave, OcallFalseCanceled
  <2>3. QED BY <1>0, <1>4, <2>1, <2>2
<1>10. ReturnedTaken'
    BY <1>2, <1>7 DEF RunInv, ReturnedTaken
<1>11. QED BY <1>2, <1>6, <1>7, <1>8, <1>9, <1>10, SameQueue DEF EnclaveTypeOK

\* pthread_create queues an object that is in the queue nowhere else.
LEMMA PushRuns ==
    ASSUME RunInv, NEW a \in Actor, Push(a)
    PROVE  RunInv'
<1> USE ActorAssumption, PthreadAssumption DEF Actor, Goto, At
<1>0. /\ state \in [Pthread -> {"unused", "queued", "running", "done", "joined"}]
      /\ step \in [Actor -> {"none", "app", "create_ocall", "create_launched", "create_wait",
                           "create_detach", "join_wait", "exit_wait", "left"}]
      /\ target \in [Actor -> Pthread \cup {None}] /\ queue \in Seq(Pthread)
    BY DEF RunInv, EnclaveTypeOK
<1>1. PICK o \in Pthread, d \in BOOLEAN :
          /\ state[o] = "unused" /\ state' = [state EXCEPT ![o] = "queued"]
          /\ claim' = [claim EXCEPT ![o] = IF d THEN "attr" ELSE "none"]
          /\ queue' = Append(queue, o) /\ target' = [target EXCEPT ![a] = o]
    BY DEF Push
<1>2. /\ step[a] = "app" /\ step' = [step EXCEPT ![a] = "create_ocall"]
      /\ UNCHANGED <<detached, deleted, returned, runs, entering, fault, misused, robbed, orphaned>>
    BY DEF Push, faults, failures
<1>3. /\ queue' \in Seq(Pthread) /\ Len(queue') = Len(queue) + 1 /\ queue'[Len(queue) + 1] = o
      /\ \A i \in 1 .. Len(queue) : queue'[i] = queue[i]
    BY <1>0, <1>1
<1>4. ~InQueue(o)
    BY <1>1 DEF RunInv, EnclaveTypeOK
<1>5. \A p \in Pthread : InQueue(p)' <=> p = o \/ InQueue(p)
    BY <1>0, <1>3 DEF InQueue
<1>6. QueuedOnce'
    BY <1>0, <1>3, <1>4 DEF RunInv, QueuedOnce, InQueue
<1>7. EnclaveTypeOK'
  <2>1. \A p \in Pthread : InQueue(p)' => state'[p] = "queued"
      BY <1>0, <1>1, <1>5 DEF RunInv, EnclaveTypeOK
  <2>2. claim' \in [Pthread -> {"none", "attr", "join", "detach", "self"}]
      BY <1>1 DEF RunInv, EnclaveTypeOK
  <2>3. QED BY <1>0, <1>1, <1>2, <1>3, <2>1, <2>2 DEF RunInv, EnclaveTypeOK
<1>8. \A w \in Worker : Runs(w)'
    BY <1>0, <1>1, <1>2 DEF RunInv, Runs, EnclaveTypeOK
<1>9. \A b \in Actor : HasTarget(b)'
    BY <1>0, <1>1, <1>2 DEF RunInv, HasTarget, Creating
<1>10. ReturnedTaken'
    BY <1>0, <1>1, <1>2 DEF RunInv, ReturnedTaken
<1>11. QED BY <1>6, <1>7, <1>8, <1>9, <1>10 DEF RunInv

\* The ocall fails: what follows its object in the queue moves up.
LEMMA RefuseRuns ==
    ASSUME RunInv, NEW a \in Actor, OcallFalse(a)
    PROVE  /\ RunInv'
           /\ Len(queue') = IF InQueue(target[a]) THEN Len(queue) - 1 ELSE Len(queue)
           /\ \A p \in Pthread : InQueue(p)' => InQueue(p) /\ p # target[a]
<1> USE ActorAssumption, PthreadAssumption DEF Actor, Goto, At
<1>0. /\ step \in [Actor -> {"none", "app", "create_ocall", "create_launched", "create_wait",
                           "create_detach", "join_wait", "exit_wait", "left"}]
      /\ target \in [Actor -> Pthread \cup {None}] /\ queue \in Seq(Pthread)
      /\ deleted \in [Pthread -> BOOLEAN]
    BY DEF RunInv, EnclaveTypeOK
<1>1. PICK o \in Pthread : o = target[a]
    BY <1>0 DEF OcallFalse, RunInv, HasTarget, Creating
<1>2. /\ step' = [step EXCEPT ![a] = "app"] /\ target' = [target EXCEPT ![a] = None]
      /\ deleted' = [deleted EXCEPT ![o] = TRUE] /\ fault' \in {fault, "use_after_free"}
      /\ misused' \in {misused, misused \cup {o}} /\ robbed' \in {robbed, robbed \cup {o}}
      /\ UNCHANGED <<state, detached, claim, returned, runs, entering, orphaned>> /\ step[a] = "create_ocall"
    BY <1>1 DEF OcallFalse, Touch
<1>3. /\ queue' \in Seq(Pthread) /\ Len(queue') = IF InQueue(o) THEN Len(queue) - 1 ELSE Len(queue)
      /\ \E at \in [DOMAIN queue' -> DOMAIN queue] :
            /\ \A j \in DOMAIN queue' : queue'[j] = queue[at[j]] /\ queue[at[j]] # o
            /\ \A j, k \in DOMAIN queue' : at[j] = at[k] => j = k
  <2>1. CASE ~InQueue(o)
    <3>1. queue' = queue
        BY <1>1, <2>1 DEF OcallFalse
    <3> DEFINE at == [j \in DOMAIN queue |-> j]
    <3>2. at \in [DOMAIN queue' -> DOMAIN queue] /\ \A j \in DOMAIN queue' : at[j] = j
        BY <3>1
    <3> HIDE DEF at
    <3>3. /\ \A j \in DOMAIN queue' : queue'[j] = queue[at[j]] /\ queue[at[j]] # o
          /\ \A j, k \in DOMAIN queue' : at[j] = at[k] => j = k
        BY <2>1, <3>1, <3>2 DEF InQueue
    <3>4. QED BY <2>1, <3>1, <3>2, <3>3, <1>0
  <2>2. CASE InQueue(o)
    <3>1. PICK i \in DOMAIN queue :
             /\ queue[i] = o
             /\ queue' = SubSeq(queue, 1, i - 1) \o SubSeq(queue, i + 1, Len(queue))
        BY <1>1, <2>2 DEF OcallFalse, Dequeue
    <3>11. queue' = SubSeq(queue, 1, i - 1) \o SubSeq(queue, i + 1, Len(queue))
        BY <3>1
    <3> DEFINE at == [j \in 1 .. Len(queue) - 1 |-> IF j < i THEN j ELSE j + 1]
    <3>2. /\ i \in 1 .. Len(queue) /\ Len(queue) \in Nat
        BY <1>0
    <3>3. /\ queue' \in Seq(Pthread) /\ Len(queue') = Len(queue) - 1
        BY SMTT(30), <1>0, <3>11, <3>2
    <3>4. \A j \in 1 .. Len(queue) - 1 : queue'[j] = IF j < i THEN queue[j] ELSE queue[j + 1]
        BY SMTT(60), <1>0, <3>11, <3>2
    <3>5. DOMAIN queue' = 1 .. Len(queue) - 1 /\ DOMAIN queue = 1 .. Len(queue)
        BY <1>0, <3>3
    <3>6. at \in [DOMAIN queue' -> DOMAIN queue]
        BY <3>2, <3>5
    <3>7. \A j \in DOMAIN queue' : queue'[j] = queue[at[j]] /\ at[j] # i
        BY <3>2, <3>4, <3>5
    <3>10. \A j \in DOMAIN queue' : queue[at[j]] # o
        BY <3>1, <3>2, <3>6, <3>7 DEF RunInv, QueuedOnce
    <3>8. \A j, k \in DOMAIN queue' : at[j] = at[k] => j = k
        BY <3>2, <3>5
    <3> HIDE DEF at
    <3>9. QED BY <2>2, <3>2, <3>3, <3>6, <3>7, <3>8, <3>10
  <2>3. QED BY <2>1, <2>2
<1>4. QueuedOnce' /\ \A p \in Pthread : InQueue(p)' => InQueue(p) /\ p # o
    BY <1>3 DEF RunInv, QueuedOnce, InQueue
<1>5. EnclaveTypeOK'
    BY <1>0, <1>2, <1>3, <1>4 DEF RunInv, EnclaveTypeOK
<1>6. \A w \in Worker : Runs(w)'
    BY <1>0, <1>2 DEF RunInv, Runs
<1>7. \A b \in Actor : HasTarget(b)'
    BY <1>0, <1>2 DEF RunInv, HasTarget, Creating
<1>8. ReturnedTaken'
    BY <1>2 DEF RunInv, ReturnedTaken
<1>9. RunInv'
    BY <1>4, <1>5, <1>6, <1>7, <1>8 DEF RunInv
<1>10. QED BY <1>1, <1>3, <1>4, <1>9

\* A thread enters and takes the first object.
LEMMA EnterRuns ==
    ASSUME RunInv, NEW w \in Worker, Enter(w), queue # <<>>
    PROVE  RunInv' /\ Len(queue) > 0 /\ Len(queue') = Len(queue) - 1
<1> USE ActorAssumption, PthreadAssumption DEF Actor, Goto
<1>0. /\ state \in [Pthread -> {"unused", "queued", "running", "done", "joined"}]
      /\ step \in [Actor -> {"none", "app", "create_ocall", "create_launched", "create_wait",
                           "create_detach", "join_wait", "exit_wait", "left"}]
      /\ target \in [Actor -> Pthread \cup {None}] /\ queue \in Seq(Pthread)
      /\ runs \in [Worker -> Pthread \cup {None}]
    BY DEF RunInv, EnclaveTypeOK
<1>1. PICK o \in Pthread : o = Head(queue) /\ o = queue[1] /\ Len(queue) > 0
    BY <1>0
<1>2. /\ queue' = Tail(queue) /\ runs' = [runs EXCEPT ![w] = o]
      /\ state' = [state EXCEPT ![o] = "running"] /\ step' = [step EXCEPT ![w] = "app"]
      /\ entering' = entering \ {w} /\ fault' \in {fault, "use_after_free"}
      /\ misused' \in {misused, misused \cup {o}}
      /\ UNCHANGED <<target, detached, deleted, claim, returned, robbed, orphaned>>
    BY <1>1 DEF Enter, Touch, failures
<1>3. /\ queue' \in Seq(Pthread) /\ Len(queue') = Len(queue) - 1
      /\ \A i \in 1 .. Len(queue) - 1 : queue'[i] = queue[i + 1]
    BY <1>0, <1>1, <1>2
<1>4. QueuedOnce' /\ \A p \in Pthread : InQueue(p)' => InQueue(p) /\ p # o
  <2>1. \A i \in DOMAIN queue' : /\ i + 1 \in DOMAIN queue /\ i + 1 # 1 /\ queue'[i] = queue[i + 1]
      BY <1>0, <1>1, <1>3
  <2>2. 1 \in DOMAIN queue
      BY <1>0, <1>1
  <2>3. DOMAIN queue' \subseteq Nat
      BY <1>3
  <2>4. QED BY <2>1, <2>2, <2>3, <1>1 DEF RunInv, QueuedOnce, InQueue
<1>5. state[o] = "queued"
    BY <1>0, <1>1 DEF RunInv, EnclaveTypeOK, InQueue
<1>6. EnclaveTypeOK'
    BY <1>0, <1>2, <1>3, <1>4 DEF RunInv, EnclaveTypeOK
<1>7. \A v \in Worker : Runs(v)'
  <2>1. \A v \in Worker : runs[v] # o
      BY <1>5 DEF RunInv, Runs
  <2>2. QED BY <1>0, <1>2, <2>1 DEF RunInv, Runs
<1>8. \A a \in Actor : HasTarget(a)'
    BY <1>0, <1>2 DEF RunInv, HasTarget, Creating
<1>9. ReturnedTaken'
    BY <1>0, <1>2 DEF RunInv, ReturnedTaken
<1>10. QED BY <1>1, <1>3, <1>4, <1>6, <1>7, <1>8, <1>9 DEF RunInv
-----------------------------------------------------------------------------
(* How many objects are in the queue *)

Asking == {a \in Actor : step[a] = "create_ocall"}
\* Each thread that is to enter, and each ocall that may start one, has an object.
Enough == /\ IsFiniteSet(entering) /\ IsFiniteSet(Asking)
          /\ Cardinality(entering) + Cardinality(Asking) <= Len(queue)
          /\ fault # "abort"

\* Each action takes from the queue at most what it takes from those who need it.
LEMMA EnoughNext ==
    ASSUME RunInv, Enough, [ProcessNext]_enclaveVars
    PROVE  Enough'
<1> USE ActorAssumption DEF Actor, Goto, At, faults, failures
<1>0. /\ step \in [Actor -> {"none", "app", "create_ocall", "create_launched", "create_wait",
                           "create_detach", "join_wait", "exit_wait", "left"}]
      /\ queue \in Seq(Pthread) /\ Len(queue) \in Nat
      /\ Cardinality(entering) \in Nat /\ Cardinality(Asking) \in Nat
    BY FS_CardinalityType DEF RunInv, EnclaveTypeOK, Enough
<1>1. ASSUME NEW a \in Actor, Push(a) PROVE Enough'
  <2>1. Asking' = Asking \cup {a} /\ a \notin Asking
      BY <1>0, <1>1 DEF Push, Asking
  <2>2. Len(queue') = Len(queue) + 1 /\ entering' = entering /\ fault' = fault
      BY <1>0, <1>1 DEF Push
  <2>3. IsFiniteSet(Asking') /\ Cardinality(Asking') = Cardinality(Asking) + 1
      BY <2>1, FS_AddElement DEF Enough
  <2>4. QED BY <1>0, <2>2, <2>3 DEF Enough
<1>2. ASSUME NEW a \in Actor, NEW w \in Worker, Launch(a, w) PROVE Enough'
  <2>1. Asking' = Asking \ {a} /\ a \in Asking /\ entering' = entering \cup {w} /\ w \notin entering
      BY <1>0, <1>2 DEF Launch, Asking
  <2>2. queue' = queue /\ fault' = fault
      BY <1>2 DEF Launch
  <2>3. IsFiniteSet(Asking') /\ Cardinality(Asking') = Cardinality(Asking) - 1
      BY <2>1, FS_RemoveElement DEF Enough
  <2>4. IsFiniteSet(entering') /\ Cardinality(entering') = Cardinality(entering) + 1
      BY <2>1, FS_AddElement DEF Enough
  <2>5. QED BY <1>0, <2>2, <2>3, <2>4 DEF Enough
<1>3. ASSUME NEW a \in Actor, OcallFalse(a) \/ OcallFalseCanceled(a) PROVE Enough'
  <2>1. Asking' = Asking \ {a} /\ a \in Asking /\ entering' = entering
      BY <1>0, <1>3 DEF OcallFalse, OcallFalseCanceled, Asking
  <2>2. Len(queue') \in Nat /\ Len(queue') >= Len(queue) - 1 /\ fault' # "abort"
    <3>1. CASE OcallFalse(a)
      <4>1. fault' \in {fault, "use_after_free"} /\ fault # "abort"
          BY <3>1 DEF OcallFalse, Touch
      <4>2. Len(queue') \in {Len(queue) - 1, Len(queue)} /\ queue' \in Seq(Pthread)
          BY <3>1, RefuseRuns DEF RunInv, EnclaveTypeOK
      <4>3. QED BY <4>1, <4>2, <1>0
    <3>2. CASE OcallFalseCanceled(a)
        BY <1>0, <3>2 DEF OcallFalseCanceled, Touch
    <3>3. QED BY <1>3, <3>1, <3>2
  <2>3. IsFiniteSet(Asking') /\ Cardinality(Asking') = Cardinality(Asking) - 1
      BY <2>1, FS_RemoveElement DEF Enough
  <2>4. QED BY <1>0, <2>1, <2>2, <2>3 DEF Enough
<1>4. ASSUME NEW w \in Worker, Enter(w) PROVE Enough'
  <2>1. entering' = entering \ {w} /\ w \in entering
      BY <1>4 DEF Enter
  <2>2. IsFiniteSet(entering') /\ Cardinality(entering') = Cardinality(entering) - 1
      BY <2>1, FS_RemoveElement DEF Enough
  <2>3. Cardinality(entering') \in Nat
      BY <2>2, FS_CardinalityType
  <2>4. Len(queue) > 0 /\ queue # <<>>
      BY <1>0, <2>2, <2>3 DEF Enough
  <2>5. Len(queue') = Len(queue) - 1
      BY <1>4, <2>4, EnterRuns
  <2>6. Asking' = Asking
      BY <1>0, <1>4, <2>4 DEF Enter, Asking, RunInv, Runs
  <2>7. fault' # "abort"
      BY <1>4, <2>4 DEF Enter, Touch, Enough
  <2>8. QED BY <1>0, <2>2, <2>5, <2>6, <2>7 DEF Enough
<1>5. ASSUME UNCHANGED <<queue, entering>>, Asking' = Asking, fault' # "abort"
      PROVE  Enough'
    BY <1>5 DEF Enough
<1>6. ASSUME NEW a \in Actor,
             \/ (step[a] = "create_launched" /\ OcallTrue(a)) \/ CreateWait(a) \/ CreateDetach(a)
             \/ JoinBegin(a) \/ JoinEnds(a) \/ Detach(a)
      PROVE  Enough'
  <2>1. UNCHANGED <<queue, entering>> /\ fault' \in {fault, "use_after_free"}
      BY <1>6 DEF OcallTrue, CreateWait, CreateDetach, JoinBegin, JoinEnds, JoinEnd, Detach, threads, Touch
  <2>2. \/ step' = step
        \/ /\ step[a] # "create_ocall"
           /\ \E l \in {"app", "create_wait", "create_detach", "join_wait"} : step' = [step EXCEPT ![a] = l]
      BY <1>6 DEF OcallTrue, CreateWait, CreateDetach, JoinBegin, JoinEnds, JoinEnd, Detach, threads
  <2>3. Asking' = Asking
      BY <1>0, <2>2 DEF Asking
  <2>4. QED BY <2>1, <2>3, <1>5 DEF Enough
<1>7. ASSUME NEW w \in Worker, Done(w) \/ Leave(w) PROVE Enough'
  <2>1. UNCHANGED <<queue, entering>> /\ fault' \in {fault, "use_after_free"}
      BY <1>7 DEF Done, Leave, Touch
  <2>2. /\ step[w] # "create_ocall"
        /\ \E l \in {"exit_wait", "left"} : step' = [step EXCEPT ![w] = l]
      BY <1>7 DEF Done, Leave
  <2>3. Asking' = Asking
      BY <1>0, <2>2 DEF Asking
  <2>4. QED BY <2>1, <2>3, <1>5 DEF Enough
<1>8. ASSUME NEW a \in Actor, step[a] # "create_launched" /\ OcallTrue(a) PROVE Enough'
  <2>1. Asking' = Asking \ {a} /\ a \in Asking
      BY <1>0, <1>8 DEF OcallTrue, Asking
  <2>2. UNCHANGED <<queue, entering, fault>>
      BY <1>8 DEF OcallTrue
  <2>3. IsFiniteSet(Asking') /\ Cardinality(Asking') = Cardinality(Asking) - 1
      BY <2>1, FS_RemoveElement DEF Enough
  <2>4. QED BY <1>0, <2>2, <2>3 DEF Enough
<1>9. CASE UNCHANGED enclaveVars
    BY <1>5, <1>9 DEF enclaveVars, threads, objects, Asking, Enough
<1>10. QED BY <1>1, <1>2, <1>3, <1>4, <1>6, <1>7, <1>8, <1>9 DEF EnclaveNext, ProcessNext, JoinEnds

\* Every action keeps who runs what; a thread that enters finds an object.
LEMMA RunNext ==
    ASSUME RunInv, Enough, [ProcessNext]_enclaveVars
    PROVE  RunInv'
<1>1. ASSUME NEW w \in Worker, Enter(w) PROVE RunInv'
  <2>1. w \in entering /\ IsFiniteSet(entering) /\ Len(queue) \in Nat /\ Cardinality(Asking) \in Nat
      BY <1>1, FS_CardinalityType DEF Enter, Enough, RunInv, EnclaveTypeOK
  <2>2. Cardinality(entering) > 0
      BY <2>1, FS_EmptySet, FS_CardinalityType
  <2>3. queue # <<>>
      BY <2>1, <2>2, FS_CardinalityType DEF Enough, RunInv, EnclaveTypeOK
  <2>4. QED BY <1>1, <2>3, EnterRuns
<1>2. CASE UNCHANGED enclaveVars
    BY <1>2 DEF enclaveVars, objects, threads, faults, failures, RunInv, EnclaveTypeOK, InQueue, QueuedOnce, ReturnedTaken, Runs, HasTarget
<1>3. ASSUME NEW w \in Actor, OcallFalseCanceled(w) PROVE RunInv'
    BY <1>3, EndRuns DEF OcallFalseCanceled
<1>4. ASSUME NEW w \in Worker, Done(w) \/ Leave(w) PROVE RunInv'
    BY <1>4, EndRuns
<1>5. ASSUME NEW a \in Actor, Push(a) \/ OcallFalse(a) PROVE RunInv'
    BY <1>5, PushRuns, RefuseRuns
<1>6. ASSUME NEW a \in Actor,
             \/ (\E w \in Worker : Launch(a, w)) \/ OcallTrue(a)
             \/ CreateWait(a) \/ CreateDetach(a) \/ JoinBegin(a) \/ JoinEnds(a) \/ Detach(a)
      PROVE  RunInv'
    BY <1>6, CreateRuns
<1>7. QED BY <1>1, <1>2, <1>3, <1>4, <1>5, <1>6 DEF EnclaveNext, ProcessNext, JoinEnds

\* Both invariants hold at the start.
LEMMA RunInit ==
    ASSUME EnclaveInit
    PROVE  RunInv /\ Enough
<1>1. entering = {} /\ Asking = {} /\ queue = <<>> /\ fault = "none"
    BY DEF EnclaveInit, Asking
<1>2. QED BY <1>1, EnclaveStart, FS_EmptySet DEF Enough

\* Nothing else is needed: with the types, the counts say that a thread that enters finds an object.
LEMMA RunsOnce ==
    ASSUME RunInv, Enough
    PROVE  RunOnce
<1>1. Cardinality(entering) <= Len(queue)
    BY FS_CardinalityType DEF Enough, RunInv, EnclaveTypeOK
<1>2. \A w \in Worker : runs[w] # None => ~InQueue(runs[w])
    BY DEF RunInv, Runs, EnclaveTypeOK
<1>3. QED BY <1>1, <1>2 DEF RunInv, Runs, Enough, RunOnce

\* In a process, too, ert_create_thread_ecall finds an object for every thread
\* that the host has started, and no object is run twice, whichever threads
\* take which objects.
THEOREM ProcessRunsOnce == EnclaveInit /\ [][ProcessNext]_enclaveVars => []RunOnce
<1>1. EnclaveInit => RunInv /\ Enough
    BY RunInit
<1>2. RunInv /\ Enough /\ [ProcessNext]_enclaveVars => (RunInv /\ Enough)'
    BY RunNext, EnoughNext
<1>3. RunInv /\ Enough => RunOnce
    BY RunsOnce
<1>4. QED BY <1>1, <1>2, <1>3, PTL

\* The same of the enclave alone.
THEOREM EachRunOnce == EnclaveSpec => []RunOnce
<1>1. [EnclaveNext]_enclaveVars => [ProcessNext]_enclaveVars
    BY DEF ProcessNext
<1>2. QED BY <1>1, ProcessRunsOnce, PTL DEF EnclaveSpec

\* Types: what is in the queue waits to be run, at all times and in a process.
THEOREM ProcessTypes == EnclaveInit /\ [][ProcessNext]_enclaveVars => []EnclaveTypeOK
<1>1. EnclaveInit => RunInv /\ Enough
    BY RunInit
<1>2. RunInv /\ Enough /\ [ProcessNext]_enclaveVars => (RunInv /\ Enough)'
    BY RunNext, EnoughNext
<1>3. RunInv => EnclaveTypeOK
    BY DEF RunInv
<1>4. QED BY <1>1, <1>2, <1>3, PTL
-----------------------------------------------------------------------------
(* Who deletes what *)

\* An object that its creator has deleted under another thread, or whose thread has detached itself.
Wild(o) == o \in robbed \/ claim[o] = "self"
\* Nobody has, or can get, anything to do with the object any more.
Gone(o) == /\ state[o] # "unused" /\ ~InQueue(o)
           /\ \A w \in Worker : runs[w] = o => step[w] = "left"
           /\ \A a \in Actor : step[a] \in Creating \cup {"join_wait"} => target[a] # o
           /\ claim[o] = "none" => ~returned[o] /\ \A w \in Worker : runs[w] # o
Fate(o) == /\ deleted[o] => Wild(o) \/ Gone(o)
           /\ detached[o] => claim[o] \in {"attr", "detach", "self"}
           /\ state[o] = "joined" => claim[o] = "join"
           /\ state[o] = "unused" => claim[o] = "none" /\ ~deleted[o] /\ o \notin robbed \cup orphaned
\* A creator still has its object to itself; a joiner has a claim on its own.
Call(a) == /\ step[a] \in Creating => /\ ~returned[target[a]]
                                      /\ claim[target[a]] \in {"none", "attr", "self"}
                                      /\ detached[target[a]] => claim[target[a]] = "self"
                                      /\ target[a] \notin robbed \cup orphaned
           /\ step[a] = "create_detach" => claim[target[a]] = "attr"
           /\ step[a] = "join_wait" => claim[target[a]] = "join" /\ state[target[a]] # "joined"
Apart(a, b) == /\ step[a] \in Creating /\ step[b] \in Creating => target[a] # target[b]
               /\ step[a] = "join_wait" /\ step[b] = "join_wait" => target[a] # target[b]
FateInv == /\ \A o \in Pthread : Fate(o)
           /\ \A a \in Actor : Call(a)
           /\ \A a, b \in Actor : a # b => Apart(a, b)
           /\ \A o \in misused : Wild(o)

\* The types the steps below need.
EnclaveTypes ==
    /\ state \in [Pthread -> {"unused", "queued", "running", "done", "joined"}]
    /\ detached \in [Pthread -> BOOLEAN] /\ deleted \in [Pthread -> BOOLEAN]
    /\ claim \in [Pthread -> {"none", "attr", "join", "detach", "self"}]
    /\ returned \in [Pthread -> BOOLEAN]
    /\ runs \in [Worker -> Pthread \cup {None}]
    /\ step \in [Actor -> {"none", "app", "create_ocall", "create_launched", "create_wait",
                           "create_detach", "join_wait", "exit_wait", "left"}]
    /\ target \in [Actor -> Pthread \cup {None}]

\* They follow from the type invariant.
LEMMA TypesHeld ==
    ASSUME RunInv
    PROVE  EnclaveTypes
BY DEF RunInv, EnclaveTypeOK, EnclaveTypes

\* Where a call has an object, that is an object.
LEMMA TargetIsObject ==
    ASSUME RunInv, NEW a \in Actor, step[a] \in Creating \cup {"join_wait"}
    PROVE  target[a] \in Pthread /\ state[target[a]] # "unused"
BY DEF RunInv, EnclaveTypeOK, HasTarget

\* Who uses an object that is not gone misuses it only if it is wild.
LEMMA UseRight ==
    ASSUME FateInv, NEW o \in Pthread, ~Gone(o),
           misused' = IF deleted[o] THEN misused \cup {o} ELSE misused,
           \A p : Wild(p) => Wild(p)'
    PROVE  \A p \in misused' : Wild(p)'
BY DEF FateInv, Fate

\* An object that is gone stays so: a call is about the same object or about one that is not gone.
LEMMA GoneStays ==
    ASSUME NEW o \in Pthread, Gone(o), state'[o] # "unused",
           InQueue(o)' => InQueue(o),
           \A w \in Worker : runs'[w] = o => runs[w] = o /\ (step[w] = "left" => step'[w] = "left"),
           \A a \in Actor : step'[a] \in Creating \cup {"join_wait"} /\ target'[a] = o
                               => step[a] \in Creating \cup {"join_wait"} /\ target[a] = o,
           claim'[o] = "none" => claim[o] = "none", returned'[o] => returned[o]
    PROVE  Gone(o)'
BY DEF Gone

\* The object of a new pthread has no history.
LEMMA PushFate ==
    ASSUME RunInv, FateInv, NEW a \in Actor, Push(a)
    PROVE  FateInv'
<1> USE ActorAssumption, PthreadAssumption DEF Actor, Goto, At, faults, failures
<1>0. EnclaveTypes /\ queue \in Seq(Pthread)
    BY TypesHeld DEF RunInv, EnclaveTypeOK
<1>1. PICK o \in Pthread, c \in {"attr", "none"} :
          /\ state[o] = "unused" /\ state' = [state EXCEPT ![o] = "queued"]
          /\ claim' = [claim EXCEPT ![o] = c] /\ target' = [target EXCEPT ![a] = o]
          /\ queue' = Append(queue, o)
    BY DEF Push
<1>2. /\ step[a] = "app" /\ step' = [step EXCEPT ![a] = "create_ocall"]
      /\ UNCHANGED <<detached, deleted, returned, runs, entering, robbed, orphaned, misused>>
    BY DEF Push
<1>3. claim[o] = "none" /\ ~returned[o] /\ ~detached[o] /\ ~deleted[o] /\ o \notin robbed \cup orphaned
    BY <1>1, <1>0 DEF FateInv, Fate, RunInv, ReturnedTaken, EnclaveTypes
<1>4. \A b \in Actor : step[b] \in Creating \cup {"join_wait"} => target[b] # o /\ target[b] \in Pthread
    BY <1>1, TargetIsObject
<1>5. \A p \in Pthread : Wild(p)' = Wild(p)
    BY <1>0, <1>1, <1>2, <1>3 DEF Wild, EnclaveTypes
<1>6. \A p \in Pthread : Fate(p)'
  <2>1. ASSUME NEW p \in Pthread, p # o, Gone(p) PROVE Gone(p)'
    <3>1. InQueue(p)' => InQueue(p)
        BY <2>1, <1>0, <1>1 DEF InQueue
    <3>2. state'[p] # "unused" /\ claim'[p] = claim[p]
        BY <2>1, <1>0, <1>1 DEF EnclaveTypes, Gone
    <3>3. \A v \in Worker : step[v] = "left" => step'[v] = "left"
        BY <1>0, <1>2 DEF EnclaveTypes
    <3>4. \A b \in Actor : step'[b] \in Creating \cup {"join_wait"} /\ target'[b] = p
                             => step[b] \in Creating \cup {"join_wait"} /\ target[b] = p
        BY <2>1, <1>0, <1>1, <1>2 DEF EnclaveTypes
    <3>5. QED BY <2>1, <3>1, <3>2, <3>3, <3>4, <1>2, GoneStays
  <2>2. ASSUME NEW p \in Pthread, p # o PROVE Fate(p)'
      BY <2>1, <2>2, <1>0, <1>1, <1>2, <1>5 DEF FateInv, Fate, EnclaveTypes
  <2>3. Fate(o)'
      BY <1>0, <1>1, <1>2, <1>3 DEF Fate, EnclaveTypes
  <2>4. QED BY <2>2, <2>3
<1>7. \A b \in Actor : Call(b)'
  <2>1. ASSUME NEW b \in Actor, b # a PROVE Call(b)'
      BY <2>1, <1>0, <1>1, <1>2, <1>4 DEF FateInv, Call, EnclaveTypes, Creating
  <2>2. Call(a)'
      BY <1>0, <1>1, <1>2, <1>3 DEF Call, EnclaveTypes, Creating
  <2>3. QED BY <2>1, <2>2
<1>8. \A b, d \in Actor : b # d => Apart(b, d)'
    BY <1>0, <1>1, <1>2, <1>4 DEF FateInv, Apart, EnclaveTypes, Creating
<1>9. \A p \in misused' : Wild(p)'
    BY <1>2, <1>5 DEF FateInv, RunInv, EnclaveTypeOK
<1>10. QED BY <1>6, <1>7, <1>8, <1>9 DEF FateInv

\* A creating thread goes on, or is done with its object.
LEMMA CreateFate ==
    ASSUME RunInv, FateInv, NEW a \in Actor,
           \/ (\E w \in Worker : Launch(a, w)) \/ OcallTrue(a) \/ CreateWait(a) \/ CreateDetach(a)
    PROVE  FateInv'
<1> USE ActorAssumption, PthreadAssumption DEF Actor, Goto, At, faults, failures
<1>0. EnclaveTypes
    BY TypesHeld
<1>1. PICK o \in Pthread : o = target[a] /\ step[a] \in Creating
    BY TargetIsObject DEF Launch, OcallTrue, CreateWait, CreateDetach, Creating
<1>2. UNCHANGED <<queue, state, deleted, claim, runs, robbed, orphaned>>
    BY DEF Launch, OcallTrue, CreateWait, CreateDetach, objects
<1>3. \/ /\ UNCHANGED <<detached, returned, target>>
         /\ \E l \in {"create_launched", "create_wait", "create_detach"} :
               /\ step' = [step EXCEPT ![a] = l]
               /\ l = "create_detach" => claim[o] = "attr"
      \/ /\ step' = [step EXCEPT ![a] = "app"] /\ target' = [target EXCEPT ![a] = None]
         /\ returned' = [returned EXCEPT ![o] = TRUE]
         /\ \/ detached' = detached
            \/ detached' = [detached EXCEPT ![o] = TRUE] /\ step[a] = "create_detach"
  <2>1. CASE \E w \in Worker : Launch(a, w)
      BY <2>1 DEF Launch, objects
  <2>2. CASE OcallTrue(a)
      BY <2>2 DEF OcallTrue, objects
  <2>3. CASE CreateWait(a)
    <3>1. CASE claim[o] = "attr"
        BY <1>1, <2>3, <3>1 DEF CreateWait
    <3>2. CASE claim[o] # "attr"
        BY <1>1, <2>3, <3>2 DEF CreateWait
    <3>3. QED BY <3>1, <3>2
  <2>4. CASE CreateDetach(a)
      BY <1>1, <2>4 DEF CreateDetach
  <2>5. QED BY <2>1, <2>2, <2>3, <2>4
<1>4. \/ misused' = misused
      \/ misused' = IF deleted[o] THEN misused \cup {o} ELSE misused
  <2>1. CASE \E w \in Worker : Launch(a, w)
      BY <2>1 DEF Launch
  <2>2. CASE OcallTrue(a)
      BY <2>2 DEF OcallTrue
  <2>3. CASE CreateWait(a) \/ CreateDetach(a)
    <3>1. Touch(o)
        BY <1>1, <2>3 DEF CreateWait, CreateDetach
    <3>2. QED BY <3>1 DEF Touch
  <2>4. QED BY <2>1, <2>2, <2>3
<1>5. /\ ~returned[o] /\ claim[o] \in {"none", "attr", "self"}
      /\ step[a] = "create_detach" => claim[o] = "attr"
    BY <1>1 DEF FateInv, Call
<1>6. ~Gone(o)
    BY <1>1 DEF Gone
<1>7. \A b \in Actor : /\ step'[b] \in Creating => step[b] \in Creating /\ target'[b] = target[b]
                       /\ step'[b] = "join_wait" => step[b] = "join_wait" /\ target'[b] = target[b]
    BY <1>0, <1>1, <1>3 DEF EnclaveTypes, Creating
<1>8. \A p \in Pthread : Fate(p)'
  <2>1. \A w \in Worker : step[w] = "left" => step'[w] = "left"
      BY <1>0, <1>1, <1>3 DEF EnclaveTypes, Creating
  <2>2. \A p \in Pthread : detached'[p] => detached[p] \/ (p = o /\ claim[o] = "attr")
      BY <1>0, <1>3, <1>5 DEF EnclaveTypes
  <2>3. ASSUME NEW p \in Pthread, Gone(p) PROVE Gone(p)'
    <3>1. InQueue(p)' => InQueue(p)
        BY <1>2 DEF InQueue
    <3>2. returned'[p] => returned[p]
        BY <2>3, <1>0, <1>3, <1>6 DEF EnclaveTypes
    <3>3. state'[p] # "unused"
        BY <2>3, <1>2 DEF Gone
    <3>4. QED BY <2>1, <2>3, <3>1, <3>2, <3>3, <1>2, <1>7, GoneStays
  <2>4. QED BY <2>2, <2>3, <1>2 DEF FateInv, Fate, Wild
<1>9. \A b \in Actor : Call(b)'
  <2>1. ASSUME NEW b \in Actor, b # a PROVE Call(b)'
    <3>1. step'[b] = step[b] /\ target'[b] = target[b]
        BY <2>1, <1>0, <1>3 DEF EnclaveTypes
    <3>2. step[b] \in Creating => target[b] # o /\ target[b] \in Pthread
        BY <2>1, <1>1, TargetIsObject DEF FateInv, Apart
    <3>3. step[b] \in Creating => /\ returned'[target[b]] = returned[target[b]]
                                  /\ detached'[target[b]] = detached[target[b]]
        BY <3>2, <1>0, <1>3 DEF EnclaveTypes
    <3>4. QED BY <3>1, <3>3, <1>2 DEF FateInv, Call
  <2>2. Call(a)'
    <3>1. CASE step'[a] = "app"
        BY <3>1 DEF Call, Creating
    <3>2. CASE step'[a] # "app"
      <4>1. /\ UNCHANGED <<detached, returned, target>> /\ step'[a] \in Creating
            /\ step'[a] = "create_detach" => claim[o] = "attr"
          BY <3>2, <1>0, <1>3 DEF EnclaveTypes, Creating
      <4>2. QED BY <4>1, <1>1, <1>2 DEF FateInv, Call, Creating
    <3>3. QED BY <3>1, <3>2
  <2>3. QED BY <2>1, <2>2
<1>10. \A b, c \in Actor : b # c => Apart(b, c)'
    BY <1>7 DEF FateInv, Apart
<1>11. \A p \in misused' : Wild(p)'
    BY <1>2, <1>4, <1>6, UseRight DEF FateInv, Wild
<1>12. QED BY <1>8, <1>9, <1>10, <1>11 DEF FateInv

\* The creator of a failed ocall deletes its object: either it was in the queue, and now nobody has
\* anything to do with it, or it has been taken.
LEMMA RefuseFate ==
    ASSUME RunInv, RunInv', FateInv, NEW a \in Actor, OcallFalse(a)
    PROVE  FateInv'
<1> USE ActorAssumption, PthreadAssumption DEF Actor, Goto, At
<1>0. EnclaveTypes
    BY TypesHeld
<1>1. PICK o \in Pthread : o = target[a] /\ step[a] = "create_ocall" /\ state[o] # "unused"
    BY TargetIsObject DEF OcallFalse, Creating
<1>2. /\ deleted' = [deleted EXCEPT ![o] = TRUE]
      /\ robbed' = IF InQueue(o) THEN robbed ELSE robbed \cup {o}
      /\ misused' = IF deleted[o] THEN misused \cup {o} ELSE misused
      /\ step' = [step EXCEPT ![a] = "app"] /\ target' = [target EXCEPT ![a] = None]
      /\ UNCHANGED <<state, detached, claim, returned, runs, entering, orphaned>>
    BY <1>1 DEF OcallFalse, Touch
<1>3. ~Gone(o)
    BY <1>1 DEF Gone, Creating
<1>4. \A p : Wild(p) => Wild(p)'
    BY <1>2 DEF Wild
<1>5. \A b \in Actor : b # a /\ step[b] \in Creating => target[b] # o
    BY <1>1 DEF FateInv, Apart, Creating
<1>6. \A b \in Actor : step'[b] \in Creating \cup {"join_wait"} =>
                            step'[b] = step[b] /\ target'[b] = target[b] /\ b # a
    BY <1>0, <1>2 DEF EnclaveTypes, Creating
<1>7. \A p \in Pthread : InQueue(p)' => InQueue(p) /\ p # o
    BY <1>1, RefuseRuns
<1>8. \A w \in Worker : step[w] = "left" => step'[w] = "left"
    BY <1>0, <1>1, <1>2 DEF EnclaveTypes
<1>9. InQueue(o) => Gone(o)'
  <2>1. ASSUME InQueue(o) PROVE Gone(o)'
    <3>1. state[o] = "queued"
        BY <2>1 DEF RunInv, EnclaveTypeOK
    <3>2. /\ \A w \in Worker : runs[w] # o
          /\ ~returned[o] /\ \A b \in Actor : step[b] = "join_wait" => target[b] # o
        BY <3>1 DEF RunInv, Runs, ReturnedTaken, HasTarget
    <3>3. QED BY <3>1, <3>2, <1>2, <1>5, <1>6, <1>7 DEF Gone, Creating
  <2>2. QED BY <2>1
<1>10. \A p \in Pthread : Fate(p)'
  <2>1. ASSUME NEW p \in Pthread, Gone(p) PROVE Gone(p)'
    <3>1. state'[p] # "unused"
        BY <2>1, <1>2 DEF Gone
    <3>2. InQueue(p)' => InQueue(p)
        BY <1>7
    <3>3. QED BY <2>1, <3>1, <3>2, <1>2, <1>6, <1>8, GoneStays
  <2>2. ASSUME NEW p \in Pthread, p # o PROVE Fate(p)'
    <3>1. deleted'[p] = deleted[p] /\ (p \in robbed' <=> p \in robbed)
        BY <2>2, <1>0, <1>2 DEF EnclaveTypes
    <3>2. QED BY <2>1, <3>1, <1>2, <1>4 DEF FateInv, Fate
  <2>3. Fate(o)'
    <3>1. ~InQueue(o) => Wild(o)'
        BY <1>2 DEF Wild
    <3>2. QED BY <3>1, <1>1, <1>2, <1>9 DEF FateInv, Fate
  <2>4. QED BY <2>2, <2>3
<1>11. \A b \in Actor : Call(b)'
  <2>1. ASSUME NEW b \in Actor PROVE Call(b)'
    <3>1. step'[b] \in Creating => (target[b] \in robbed' <=> target[b] \in robbed)
        BY <1>2, <1>5, <1>6
    <3>2. QED BY <3>1, <1>2, <1>6 DEF FateInv, Call, Creating
  <2>2. QED BY <2>1
<1>12. \A b, c \in Actor : b # c => Apart(b, c)'
    BY <1>6 DEF FateInv, Apart
<1>13. \A p \in misused' : Wild(p)'
    BY <1>2, <1>3, <1>4, UseRight
<1>14. QED BY <1>10, <1>11, <1>12, <1>13 DEF FateInv

\* A thread's function has returned, or it is canceled in a failing ocall; it leaves when it has
\* been joined or detached, and deletes what nobody else needs any more.
LEMMA EndFate ==
    ASSUME RunInv, FateInv, NEW w \in Worker, Done(w) \/ Leave(w) \/ OcallFalseCanceled(w)
    PROVE  FateInv'
<1> USE ActorAssumption, PthreadAssumption DEF Actor, Goto, At, failures
<1>0. EnclaveTypes
    BY TypesHeld
<1>1. PICK o \in Pthread : o = runs[w] /\ state[o] \notin {"unused", "queued"} /\ step[w] \notin {"none", "left"}
  <2>1. step[w] \notin {"none", "left"}
      BY DEF Done, Leave, OcallFalseCanceled
  <2>2. QED BY <2>1, <1>0 DEF RunInv, Runs, EnclaveTypes
<1>2. /\ UNCHANGED <<queue, detached, claim, runs, returned, robbed>>
      /\ misused' = IF deleted[o] THEN misused \cup {o} ELSE misused
    BY <1>1 DEF Done, Leave, OcallFalseCanceled, Touch
<1>3. \/ /\ state' = [state EXCEPT ![o] = "done"] /\ UNCHANGED deleted
         /\ step' = [step EXCEPT ![w] = "exit_wait"] /\ target' = [target EXCEPT ![w] = None]
         /\ \/ orphaned' = orphaned
            \/ orphaned' = orphaned \cup {target[w]} /\ step[w] = "create_ocall"
      \/ /\ deleted' = [deleted EXCEPT ![o] = TRUE] /\ UNCHANGED <<state, target, orphaned>>
         /\ step' = [step EXCEPT ![w] = "left"] /\ step[w] = "exit_wait"
         /\ state[o] = "joined" \/ detached[o]
    BY <1>1 DEF Done, Leave, OcallFalseCanceled
<1>4. ~Gone(o)
    BY <1>1 DEF Gone
<1>5. \A p : Wild(p)' <=> Wild(p)
    BY <1>2 DEF Wild
<1>6. \A a \in Actor : step'[a] \in Creating \cup {"join_wait"} =>
                            step'[a] = step[a] /\ target'[a] = target[a] /\ a # w
    BY <1>0, <1>3 DEF EnclaveTypes, Creating
<1>7. \A v \in Worker : step[v] = "left" => step'[v] = "left"
    BY <1>0, <1>1, <1>3 DEF EnclaveTypes
<1>8. \A p \in Pthread : /\ state'[p] = "joined" => state[p] = "joined"
                         /\ state'[p] = "unused" <=> state[p] = "unused"
    BY <1>0, <1>1, <1>3 DEF EnclaveTypes
<1>9. \A p \in Pthread : InQueue(p)' <=> InQueue(p)
    BY <1>2 DEF InQueue
<1>10. \A p \in orphaned' : p \in orphaned \/ (step[w] = "create_ocall" /\ p = target[w])
    BY <1>3
<1>11. \A p \in Pthread : Fate(p)'
  <2>1. ASSUME NEW p \in Pthread, Gone(p) PROVE Gone(p)'
    <3>1. state'[p] # "unused"
        BY <2>1, <1>8 DEF Gone
    <3>2. QED BY <2>1, <3>1, <1>2, <1>6, <1>7, <1>9, GoneStays
  <2>2. ASSUME NEW p \in Pthread, state[p] = "unused" PROVE p \notin orphaned'
      BY <2>2, <1>10, TargetIsObject DEF FateInv, Fate, Creating
  <2>3. ASSUME NEW p \in Pthread, p # o PROVE Fate(p)'
    <3>1. deleted'[p] = deleted[p]
        BY <2>3, <1>0, <1>3 DEF EnclaveTypes
    <3>2. QED BY <2>1, <2>2, <3>1, <1>2, <1>5, <1>8 DEF FateInv, Fate
  <2>4. Fate(o)'
    <3>1. deleted'[o] => Wild(o)' \/ Gone(o)'
      <4>1. CASE deleted[o]
          BY <4>1, <1>4, <1>5 DEF FateInv, Fate
      <4>2. CASE ~deleted[o] /\ deleted'[o] /\ ~Wild(o)
        <5>1. /\ step' = [step EXCEPT ![w] = "left"] /\ state' = state
              /\ state[o] = "joined" \/ detached[o]
            BY <4>2, <1>3
        <5>2. claim[o] \in {"join", "attr", "detach"} /\ (claim[o] = "join" => state[o] = "joined")
            BY <4>2, <5>1 DEF FateInv, Fate, Wild
        <5>3. \A a \in Actor : step[a] \in Creating \cup {"join_wait"} => target[a] # o
            BY <4>2, <5>1, <5>2 DEF FateInv, Call, Fate, Wild
        <5>4. ~InQueue(o) /\ \A v \in Worker : runs[v] = o => v = w
            BY <1>1 DEF RunInv, EnclaveTypeOK, Runs
        <5>5. step'[w] = "left"
            BY <5>1, <1>0 DEF EnclaveTypes
        <5>6. QED BY <5>1, <5>2, <5>3, <5>4, <5>5, <1>1, <1>2, <1>6, <1>9 DEF Gone
      <4>3. QED BY <4>1, <4>2, <1>5
    <3>2. QED BY <3>1, <1>1, <1>2, <1>8 DEF FateInv, Fate
  <2>5. QED BY <2>3, <2>4
<1>12. \A a \in Actor : Call(a)'
  <2>1. ASSUME NEW a \in Actor PROVE Call(a)'
    <3>1. step'[a] \in Creating \cup {"join_wait"} => target[a] \in Pthread
        BY <1>6, TargetIsObject
    <3>2. step'[a] \in Creating => target[a] \notin orphaned'
        BY <1>6, <1>10 DEF FateInv, Call, Apart, Creating
    <3>3. QED BY <3>1, <3>2, <1>2, <1>6, <1>8 DEF FateInv, Call, Creating
  <2>2. QED BY <2>1
<1>13. \A a, b \in Actor : a # b => Apart(a, b)'
    BY <1>6 DEF FateInv, Apart
<1>14. \A p \in misused' : Wild(p)'
    BY <1>2, <1>4, <1>5, UseRight
<1>15. QED BY <1>11, <1>12, <1>13, <1>14 DEF FateInv

\* A thread enters and runs an object from the queue, which is not gone.
LEMMA EnterFate ==
    ASSUME RunInv, FateInv, NEW w \in Worker, Enter(w), queue # <<>>
    PROVE  FateInv'
<1> USE ActorAssumption, PthreadAssumption DEF Actor, Goto, At, failures
<1>0. EnclaveTypes /\ queue \in Seq(Pthread)
    BY TypesHeld DEF RunInv, EnclaveTypeOK
<1>1. PICK o \in Pthread : o = Head(queue) /\ state[o] = "queued" /\ InQueue(o)
    BY <1>0 DEF RunInv, EnclaveTypeOK, InQueue
<1>2. /\ runs' = [runs EXCEPT ![w] = o] /\ state' = [state EXCEPT ![o] = "running"]
      /\ step' = [step EXCEPT ![w] = "app"] /\ queue' = Tail(queue)
      /\ misused' = IF deleted[o] THEN misused \cup {o} ELSE misused
      /\ UNCHANGED <<target, detached, deleted, claim, returned, robbed, orphaned>> /\ step[w] = "none"
    BY <1>0, <1>1 DEF Enter, Touch, RunInv, Runs
<1>3. ~Gone(o)
    BY <1>1 DEF Gone
<1>4. \A a \in Actor : step'[a] \in Creating \cup {"join_wait"} => step'[a] = step[a]
    BY <1>0, <1>2 DEF EnclaveTypes, Creating
<1>5. \A p \in Pthread : /\ state'[p] = "joined" => state[p] = "joined"
                         /\ state'[p] = "unused" <=> state[p] = "unused"
    BY <1>0, <1>1, <1>2 DEF EnclaveTypes
<1>6. \A p \in Pthread : Fate(p)'
  <2>1. ASSUME NEW p \in Pthread, Gone(p) PROVE Gone(p)'
    <3>1. InQueue(p)' => InQueue(p)
      <4>1. \A i \in DOMAIN queue' : i + 1 \in DOMAIN queue /\ queue'[i] = queue[i + 1]
          BY <1>0, <1>2
      <4>2. QED BY <4>1 DEF InQueue
    <3>2. \A v \in Worker : runs'[v] = p => runs[v] = p /\ (step[v] = "left" => step'[v] = "left")
        BY <2>1, <1>0, <1>2, <1>3 DEF EnclaveTypes
    <3>3. state'[p] # "unused"
        BY <2>1, <1>5 DEF Gone
    <3>4. QED BY <2>1, <3>1, <3>2, <3>3, <1>2, <1>4, GoneStays
  <2>2. QED BY <2>1, <1>2, <1>5 DEF FateInv, Fate, Wild
<1>7. \A a \in Actor : Call(a)'
  <2>1. ASSUME NEW a \in Actor PROVE Call(a)'
    <3>1. step'[a] = "join_wait" => target[a] \in Pthread
        BY <1>4, TargetIsObject
    <3>2. QED BY <3>1, <1>2, <1>4, <1>5 DEF FateInv, Call, Creating
  <2>2. QED BY <2>1
<1>8. \A a, b \in Actor : a # b => Apart(a, b)'
    BY <1>2, <1>4 DEF FateInv, Apart
<1>9. \A p \in misused' : Wild(p)'
    BY <1>2, <1>3, UseRight DEF Wild
<1>10. QED BY <1>6, <1>7, <1>8, <1>9 DEF FateInv

\* Joins and detachments: one thread has the claim on an object.
LEMMA DisposeFate ==
    ASSUME RunInv, FateInv, NEW a \in Actor, JoinBegin(a) \/ JoinEnds(a) \/ Detach(a)
    PROVE  FateInv'
<1> USE ActorAssumption, PthreadAssumption DEF Actor, Goto, At, faults, failures
<1>0. EnclaveTypes
    BY TypesHeld
<1>1. CASE JoinBegin(a)
  <2>1. PICK o \in Pthread :
            /\ returned[o] /\ claim[o] = "none" /\ claim' = [claim EXCEPT ![o] = "join"]
            /\ target' = [target EXCEPT ![a] = o]
      BY <1>1 DEF JoinBegin
  <2>2. /\ step' = [step EXCEPT ![a] = "join_wait"] /\ step[a] = "app"
        /\ UNCHANGED <<queue, state, detached, deleted, returned, runs, robbed, orphaned, misused>>
      BY <1>1 DEF JoinBegin
  <2>3. ~detached[o] /\ state[o] \notin {"joined", "unused"} /\ ~Gone(o)
      BY <2>1 DEF FateInv, Fate, Gone, RunInv, ReturnedTaken
  <2>4. \A p \in Pthread : p # o => claim'[p] = claim[p]
      BY <2>1, <1>0 DEF EnclaveTypes
  <2>5. \A p : Wild(p) => Wild(p)'
      BY <2>1, <2>2, <1>0 DEF Wild, EnclaveTypes
  <2>6. \A b \in Actor : step[b] \in Creating \cup {"join_wait"} => target[b] # o /\ target[b] \in Pthread
      BY <2>1, TargetIsObject DEF FateInv, Call
  <2>7. \A b \in Actor : b # a => step'[b] = step[b] /\ target'[b] = target[b]
      BY <2>1, <2>2, <1>0 DEF EnclaveTypes
  <2>8. step'[a] = "join_wait" /\ target'[a] = o
      BY <2>1, <2>2, <1>0 DEF EnclaveTypes
  <2>9. \A p \in Pthread : Fate(p)'
    <3>1. ASSUME NEW p \in Pthread, Gone(p) PROVE Gone(p)'
      <4>1. InQueue(p)' => InQueue(p)
          BY <2>2 DEF InQueue
      <4>2. p # o /\ state'[p] # "unused" /\ claim'[p] = claim[p]
          BY <3>1, <2>2, <2>3, <2>4 DEF Gone
      <4>3. \A v \in Worker : step[v] = "left" => step'[v] = "left"
          BY <2>2, <2>7
      <4>4. \A b \in Actor : step'[b] \in Creating \cup {"join_wait"} /\ target'[b] = p
                               => step[b] \in Creating \cup {"join_wait"} /\ target[b] = p
          BY <4>2, <2>7, <2>8
      <4>5. QED BY <3>1, <4>1, <4>2, <4>3, <4>4, <2>2, GoneStays
    <3>2. ASSUME NEW p \in Pthread, p # o PROVE Fate(p)'
        BY <3>1, <3>2, <2>2, <2>4, <2>5 DEF FateInv, Fate
    <3>3. Fate(o)'
      <4>1. deleted[o] => Wild(o)
          BY <2>3 DEF FateInv, Fate
      <4>2. claim'[o] = "join"
          BY <2>1, <1>0 DEF EnclaveTypes
      <4>3. QED BY <4>1, <4>2, <2>2, <2>3, <2>5 DEF Fate
    <3>4. QED BY <3>2, <3>3
  <2>10. \A b \in Actor : Call(b)'
    <3>1. ASSUME NEW b \in Actor, b # a PROVE Call(b)'
        BY <3>1, <2>2, <2>4, <2>6, <2>7 DEF FateInv, Call, Creating
    <3>2. Call(a)'
        BY <2>1, <2>2, <2>3, <2>8, <1>0 DEF Call, EnclaveTypes, Creating
    <3>3. QED BY <3>1, <3>2
  <2>11. \A b, c \in Actor : b # c => Apart(b, c)'
      BY <2>6, <2>7, <2>8 DEF FateInv, Apart, Creating
  <2>12. QED BY <2>2, <2>5, <2>9, <2>10, <2>11 DEF FateInv
<1>2. CASE JoinEnds(a)
  <2>1. PICK o \in Pthread : o = target[a] /\ step[a] = "join_wait" /\ state[o] # "unused"
      BY <1>2, TargetIsObject DEF JoinEnds, JoinEnd
  <2>2. /\ state' = [state EXCEPT ![o] = "joined"]
        /\ misused' = IF deleted[o] THEN misused \cup {o} ELSE misused
        /\ step' = [step EXCEPT ![a] = "app"] /\ target' = [target EXCEPT ![a] = None]
        /\ UNCHANGED <<queue, detached, deleted, claim, returned, runs, robbed, orphaned>>
      BY <1>2, <2>1 DEF JoinEnds, JoinEnd, Touch
  <2>3. claim[o] = "join" /\ ~Gone(o)
      BY <2>1 DEF FateInv, Call, Gone
  <2>4. \A b \in Actor : step'[b] \in Creating \cup {"join_wait"} =>
                            step'[b] = step[b] /\ target'[b] = target[b] /\ b # a
      BY <1>0, <2>2 DEF EnclaveTypes, Creating
  <2>5. \A p \in Pthread : /\ p # o => state'[p] = state[p]
                           /\ state'[p] = "unused" <=> state[p] = "unused"
      BY <1>0, <2>1, <2>2 DEF EnclaveTypes
  <2>6. \A p \in Pthread : Fate(p)'
    <3>1. \A v \in Worker : step[v] = "left" => step'[v] = "left"
        BY <1>0, <2>1, <2>2 DEF EnclaveTypes
    <3>2. ASSUME NEW p \in Pthread, Gone(p) PROVE Gone(p)'
      <4>1. (InQueue(p)' => InQueue(p)) /\ state'[p] # "unused"
          BY <3>2, <2>2, <2>5 DEF InQueue, Gone
      <4>2. QED BY <3>1, <3>2, <4>1, <2>2, <2>4, GoneStays
    <3>3. QED BY <3>2, <2>2, <2>3, <2>5 DEF FateInv, Fate, Wild
  <2>7. \A b \in Actor : Call(b)'
    <3>1. ASSUME NEW b \in Actor PROVE Call(b)'
      <4>1. step'[b] = "join_wait" => target[b] # o /\ target[b] \in Pthread
          BY <2>1, <2>4, TargetIsObject DEF FateInv, Apart
      <4>2. QED BY <4>1, <2>2, <2>4, <2>5 DEF FateInv, Call, Creating
    <3>2. QED BY <3>1
  <2>8. \A b, c \in Actor : b # c => Apart(b, c)'
      BY <2>4 DEF FateInv, Apart
  <2>9. \A p \in misused' : Wild(p)'
      BY <2>2, <2>3, UseRight DEF Wild
  <2>10. QED BY <2>6, <2>7, <2>8, <2>9 DEF FateInv
<1>3. CASE Detach(a)
  <2>1. PICK o \in Pthread, c \in {"detach", "self"} :
            /\ claim[o] = "none" /\ state[o] # "unused" /\ claim' = [claim EXCEPT ![o] = c]
            /\ c = "detach" => returned[o]
            /\ returned[o] \/ \E w \in Worker : runs[w] = o
            /\ misused' = IF deleted[o] THEN misused \cup {o} ELSE misused
            /\ detached' = [detached EXCEPT ![o] = TRUE]
      BY <1>3 DEF Detach, Touch
  <2>2. UNCHANGED <<queue, state, deleted, returned, runs, step, target, robbed, orphaned>>
      BY <1>3 DEF Detach, threads
  <2>3. ~detached[o] /\ state[o] # "joined" /\ ~Gone(o)
      BY <2>1 DEF FateInv, Fate, Gone
  <2>4. \A p \in Pthread : p # o => claim'[p] = claim[p] /\ detached'[p] = detached[p]
      BY <2>1, <1>0 DEF EnclaveTypes
  <2>5. claim'[o] = c /\ detached'[o]
      BY <2>1, <1>0 DEF EnclaveTypes
  <2>6. \A p \in Pthread : Wild(p) => Wild(p)'
      BY <2>1, <2>2, <2>4 DEF Wild
  <2>7. \A p \in Pthread : Fate(p)'
    <3>1. ASSUME NEW p \in Pthread, Gone(p) PROVE Gone(p)'
        BY <3>1, <2>2, <2>3, <2>4 DEF Gone, InQueue
    <3>2. ASSUME NEW p \in Pthread, p # o PROVE Fate(p)'
        BY <3>1, <3>2, <2>2, <2>4, <2>6 DEF FateInv, Fate
    <3>3. Fate(o)'
      <4>1. deleted[o] => Wild(o)
          BY <2>3 DEF FateInv, Fate
      <4>2. QED BY <4>1, <2>1, <2>2, <2>3, <2>5, <2>6 DEF Fate
    <3>4. QED BY <3>2, <3>3
  <2>8. \A b \in Actor : Call(b)'
    <3>1. ASSUME NEW b \in Actor PROVE Call(b)'
      <4>1. CASE step[b] \in Creating \cup {"join_wait"} /\ target[b] = o
        <5>1. ~returned[o] /\ step[b] \in Creating /\ step[b] # "create_detach" /\ o \notin robbed \cup orphaned
            BY <4>1, <2>1 DEF FateInv, Call
        <5>2. c = "self"
            BY <5>1, <2>1
        <5>3. QED BY <4>1, <5>1, <5>2, <2>2, <2>5 DEF Call, Creating
      <4>2. CASE ~(step[b] \in Creating \cup {"join_wait"} /\ target[b] = o)
        <5>1. step[b] \in Creating \cup {"join_wait"} => target[b] \in Pthread /\ target[b] # o
            BY <4>2, TargetIsObject
        <5>2. QED BY <5>1, <2>2, <2>4 DEF FateInv, Call, Creating
      <4>3. QED BY <4>1, <4>2
    <3>2. QED BY <3>1
  <2>9. \A b, d \in Actor : b # d => Apart(b, d)'
      BY <2>2 DEF FateInv, Apart
  <2>10. \A p \in misused' : Wild(p)'
    <3>1. deleted[o] => Wild(o)
        BY <2>3 DEF FateInv, Fate
    <3>2. misused \subseteq Pthread
        BY DEF RunInv, EnclaveTypeOK
    <3>3. QED BY <3>1, <3>2, <2>1, <2>6 DEF FateInv
  <2>11. QED BY <2>7, <2>8, <2>9, <2>10 DEF FateInv
<1>4. QED BY <1>1, <1>2, <1>3

\* Every action keeps the fates of the objects.
LEMMA FateNext ==
    ASSUME RunInv, RunInv', FateInv, [ProcessNext]_enclaveVars
    PROVE  FateInv'
<1>1. ASSUME NEW w \in Worker, Enter(w) PROVE FateInv'
  <2>1. CASE queue = <<>>
    <3>1. UNCHANGED <<queue, state, detached, deleted, claim, returned, runs, step, target,
                      robbed, orphaned, misused>>
        BY <1>1, <2>1 DEF Enter, failures
    <3>2. QED BY <3>1 DEF FateInv, Fate, Gone, Wild, InQueue, Call, Apart
  <2>2. QED BY <1>1, <2>1, EnterFate
<1>2. ASSUME NEW a \in Actor, OcallFalseCanceled(a) PROVE FateInv'
    BY <1>2, EndFate DEF OcallFalseCanceled
<1>3. CASE UNCHANGED enclaveVars
    BY <1>3 DEF enclaveVars, objects, threads, faults, failures,
                FateInv, Fate, Gone, Wild, InQueue, Call, Apart
<1>4. QED BY <1>1, <1>2, <1>3, PushFate, CreateFate, RefuseFate, EndFate, DisposeFate
             DEF EnclaveNext, ProcessNext, JoinEnds

\* At the start nobody has a claim on anything.
LEMMA FateInit ==
    ASSUME EnclaveInit
    PROVE  FateInv
<1>1. /\ \A o \in Pthread : claim[o] = "none" /\ ~deleted[o] /\ ~detached[o] /\ state[o] # "joined"
      /\ \A a \in Actor : step[a] \in {"app", "none"}
      /\ robbed = {} /\ orphaned = {} /\ misused = {}
    BY DEF EnclaveInit
<1>2. QED BY <1>1 DEF FateInv, Fate, Call, Apart, Creating

\* In a process, too, a new_thread is used after it has been deleted only if another thread had
\* taken it when its own creator's ocall failed, or if its thread has detached itself before its
\* creator was done with it; ocalls that fail otherwise do not excuse anything.
THEOREM ProcessFreesLast == EnclaveInit /\ [][ProcessNext]_enclaveVars => []DeletedLast
<1>1. EnclaveInit => RunInv /\ Enough /\ FateInv
    BY RunInit, FateInit
<1>2. RunInv /\ Enough /\ FateInv /\ [ProcessNext]_enclaveVars => (RunInv /\ Enough /\ FateInv)'
    BY RunNext, EnoughNext, FateNext
<1>3. FateInv => DeletedLast
    BY DEF FateInv, Wild, DeletedLast
<1>4. QED BY <1>1, <1>2, <1>3, PTL

\* The same of the enclave alone.
THEOREM FreedLast == EnclaveSpec => []DeletedLast
<1>1. [EnclaveNext]_enclaveVars => [ProcessNext]_enclaveVars
    BY DEF ProcessNext
<1>2. QED BY <1>1, ProcessFreesLast, PTL DEF EnclaveSpec
=============================================================================
