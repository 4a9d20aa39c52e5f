------------------------- MODULE ThreadSystemProofs --------------------------
(***************************************************************************)
(* ThreadSystem, for any number of threads and pthreads.  Each of its      *)
(* behaviours is one of EnclaveThreadManager, so that what is proved of    *)
(* the host's thread manager alone holds for the enclave's threads and     *)
(* the host together: pthread_cancel never hits a thread inside the        *)
(* enclave, no thread outlives the calls that join them all, and no thread *)
(* is joined before its creator has assigned it.  Of both sides together:  *)
(* each creator that waits is served.  Seen from the enclave, the system's *)
(* steps are among those that EnclaveThreadsProofs allows.                 *)
(***************************************************************************)
EXTENDS ThreadSystem, EnclaveThreadsProofs, ListProofs
-----------------------------------------------------------------------------
(* The handshake over cancel_state: a thread sets Cancelable when it leaves *)
(* the enclave and looks for Canceling when it returns; the canceler sets   *)
(* Canceling and looks for Cancelable, each in one atomic operation, so     *)
(* that one of the two sees the other.                                      *)

\* Where a started thread is when it is not inside the enclave.
Outside == {"ocall", "ocall_end", "create_lock", "create_try", "create_start",
            "create_assign", "ended"}
\* A thread that may be canceled now, and cannot return into the enclave.
Caught(w) == "Canceling" \in cancelState[w] /\ place[w] \in Outside

CancelTypes ==
    /\ cancelState \in [Worker -> SUBSET {"Cancelable", "Canceling"}]
    /\ canceled \in [Worker -> BOOLEAN]
    /\ place \in [H!Actor -> H!Places]
    /\ new \in [H!Actor -> Worker \cup {None}]

CancelableOutside == \A w \in Worker : "Cancelable" \in cancelState[w] => place[w] \in Outside
CanceledCaught == \A w \in Worker : canceled[w] => Caught(w)
\* Between the check of cancel_state and pthread_cancel.
SendCaught ==
    place[Main] = "cancel_send" => \A w \in Worker : w = list[position] => Caught(w)
\* The list does not change while Main goes through it.
JoinerOwnsMutex ==
    place[Main] \in {"join", "cancel", "cancel_send", "cancel_join"} => mutex = Main
CreatorOwnsMutex ==
    \A a \in H!Actor : place[a] \in {"create_try", "create_start", "create_assign"}
                        => destructorMutex = a
\* A thread that is started is new: nobody has canceled it.
NewIsListed ==
    \A a \in H!Actor : place[a] = "create_start" => new[a] \in Worker /\ place[new[a]] = "listed"

CancelInv == /\ CancelTypes
        /\ CancelableOutside /\ CanceledCaught /\ SendCaught
        /\ JoinerOwnsMutex /\ CreatorOwnsMutex /\ NewIsListed
-----------------------------------------------------------------------------
\* The invariant holds when the manager is constructed.
LEMMA CancelInit == H!Init => CancelInv
BY ActorAssumption
   DEF H!Init, CancelInv, CancelTypes, CancelableOutside, CanceledCaught, SendCaught, JoinerOwnsMutex,
       CreatorOwnsMutex, NewIsListed, H!Actor, H!Places

\* A worker's own steps: it leaves the enclave, is canceled during an ocall, or
\* its function returns.
LEMMA WorkerCancel ==
    ASSUME CancelInv, NEW w \in Worker, H!WorkerStep(w)
    PROVE  CancelInv'
<1> USE ActorAssumption DEF H!Actor, H!Goto
<1> USE DEF CancelInv, CancelTypes, CancelableOutside, CanceledCaught, SendCaught, JoinerOwnsMutex,
            CreatorOwnsMutex, NewIsListed, Caught, Outside, H!Places
<1>1. CASE H!Ocall(w)
    BY <1>1 DEF H!Ocall, H!SetCancelable, H!mutexes, H!loop
<1>2. CASE H!CanceledInOcall(w)
    BY <1>2 DEF H!CanceledInOcall, H!mutexes, H!flags, H!loop
<1>3. CASE H!Finish(w)
    BY <1>3 DEF H!Finish, H!mutexes, H!loop
<1>4. QED BY <1>1, <1>2, <1>3 DEF H!WorkerStep

\* The steps of create_thread and the return into the enclave.
LEMMA CreateCancel ==
    ASSUME CancelInv, NEW a \in H!Actor, H!CreateBegin(a) \/ H!CreateStep(a)
    PROVE  CancelInv'
<1> USE ActorAssumption DEF H!Actor, H!Goto
<1> USE DEF CancelInv, CancelTypes, CancelableOutside, CanceledCaught, SendCaught, JoinerOwnsMutex,
            CreatorOwnsMutex, NewIsListed, Caught, Outside, H!Places
<1>1. CASE H!CreateBegin(a)
    BY <1>1 DEF H!CreateBegin, H!Before, H!mutexes, H!flags, H!loop
<1>2. CASE H!OcallReturn(a)
    BY <1>2 DEF H!OcallReturn, H!SetCancelable, H!mutexes, H!loop
<1>3. CASE H!CreateLock(a)
    BY <1>3 DEF H!CreateLock, H!flags, H!loop
<1>4. CASE H!CreateTry(a)
  <2>1. PICK w \in Worker :
              /\ place[w] = "none"
              /\ new' = [new EXCEPT ![a] = w]
              /\ place' = [place EXCEPT ![w] = "listed", ![a] = "create_start"]
      BY <1>4, Zenon DEF H!CreateTry, H!Filter, Filter
  <2>2. /\ place[a] = "create_try" /\ mutex = None
        /\ UNCHANGED <<destructorMutex, mutex, cancelState, canceled>>
      BY <1>4, Zenon DEF H!CreateTry, H!mutexes, H!flags
  <2>3. QED BY <2>1, <2>2
<1>5. CASE H!CreateSleep(a)
    BY <1>5 DEF H!CreateSleep, H!flags, H!loop
<1>6. CASE H!CreateStart(a)
    BY <1>6 DEF H!CreateStart, H!flags, H!loop
<1>7. CASE H!CreateAssign(a)
    BY <1>7 DEF H!CreateAssign, H!loop
<1>8. QED BY <1>1, <1>2, <1>3, <1>4, <1>5, <1>6, <1>7 DEF H!CreateStep

\* The steps of Main: join_all_threads, cancel_all_threads, the destructor.
LEMMA MainCancel ==
    ASSUME CancelInv, (\E call \in {"join", "cancel"} : H!TakeMutex(call)) \/ H!MainStep \/ H!Destruct
    PROVE  CancelInv'
<1> USE ActorAssumption DEF H!Actor, H!Goto
<1> USE DEF CancelInv, CancelTypes, CancelableOutside, CanceledCaught, SendCaught, JoinerOwnsMutex,
            CreatorOwnsMutex, NewIsListed, Caught, Outside, H!Places
<1>1. ASSUME NEW call \in {"join", "cancel"}, H!TakeMutex(call) PROVE CancelInv'
    BY <1>1 DEF H!TakeMutex, H!flags
<1>2. ASSUME NEW w \in Worker, H!CancelMark(w) PROVE CancelInv'
    BY <1>2 DEF H!CancelMark, H!mutexes, H!loop
<1>3. ASSUME NEW w \in Worker, H!CancelSend(w) PROVE CancelInv'
    BY <1>3 DEF H!CancelSend, H!mutexes, H!loop
<1>4. ASSUME NEW w \in Worker, H!Join(w) PROVE CancelInv'
    BY <1>4 DEF H!Join, H!flags
<1>5. CASE H!AllJoined
    BY <1>5 DEF H!AllJoined, H!flags
<1>6. CASE H!Destruct
    BY <1>6 DEF H!Destruct, H!flags
<1>7. QED BY <1>1, <1>2, <1>3, <1>4, <1>5, <1>6 DEF H!MainStep

\* Every step of the manager and of its threads preserves the invariant.
LEMMA CancelNext == CancelInv /\ [H!Next]_(H!hostVars) => CancelInv'
<1>1. ASSUME CancelInv, UNCHANGED H!hostVars PROVE CancelInv'
    BY <1>1 DEF CancelInv, CancelTypes, CancelableOutside, CanceledCaught, SendCaught, JoinerOwnsMutex,
                CreatorOwnsMutex, NewIsListed, Caught, H!hostVars, H!mutexes, H!flags, H!loop
<1>2. QED BY <1>1, WorkerCancel, CreateCancel, MainCancel DEF H!Next

\* enclave_thread_manager.cpp: a thread on which pthread_cancel has been called
\* (cancel_all_threads, 151) is not inside the enclave, for any number of
\* threads.
LEMMA NeverCanceledInEnclave == H!Spec => []H!NotCanceledInEnclave
<1>1. CancelInv => H!NotCanceledInEnclave
    BY DEF CancelInv, CanceledCaught, Caught, Outside, H!NotCanceledInEnclave
<1>2. QED BY CancelInit, CancelNext, <1>1, PTL DEF H!Spec
-----------------------------------------------------------------------------
(* The list of the threads: every thread that runs is in it; who creates a  *)
(* thread is before that one in the list, so that it has been joined, and   *)
(* has assigned the std::thread, before Main gets there.                    *)

Joining == {"join", "cancel", "cancel_send", "cancel_join"}
Making == {"create_start", "create_assign"}

\* Main joins under mutex_, before its calls have come to an end; who creates
\* a thread owns destructor_mutex_.
Owners == /\ place[Main] \in Joining => mutex = Main /\ outcome = "none"
          /\ mutex = Main => place[Main] \in Joining
          /\ \A a \in H!Actor : place[a] \in Making \cup {"create_try"} => destructorMutex = a

\* A thread that is being made is the last of the list, and is there once.
LastOfList(w) == /\ Len(list) > 0 /\ list[Len(list)] = w
                 /\ \A i \in 1 .. Len(list) - 1 : list[i] # w
Made(a) == /\ new[a] # None <=> place[a] \in Making
           /\ new[a] # None => new[a] # a /\ LastOfList(new[a])
           /\ place[a] = "create_start" => place[new[a]] = "listed"

InList(w) == \E i \in DOMAIN list : list[i] = w
Unfinished(w) == H!Broken(w) \/ \E a \in H!Actor : new[a] = w
\* The list holds every thread that runs; what has no std::thread yet is being
\* made, or was.
ListRight == /\ \A w \in Worker : H!Alive(w) => InList(w)
             /\ \A w \in Worker : finished[w] => place[w] = "ended"
             /\ \A i \in DOMAIN list : place[list[i]] # "none"
             /\ \A i \in DOMAIN list : assigned[list[i]] \/ Unfinished(list[i])

\* What Main has joined has ended, and what it has called has had its effect.
Joined == /\ mutex = Main => \A i \in DOMAIN list : i < position => place[list[i]] = "ended"
          /\ outcome = "canceled" => /\ place[Main] \in {"idle", "gone"}
                                     /\ \A w \in Worker : ~H!Alive(w)
          /\ H!AssignedBeforeJoined

ListInv == H!TypeOK /\ Owners /\ (\A a \in H!Actor : Made(a)) /\ ListRight /\ Joined

\* The list is empty at the start.
LEMMA ManagerInit ==
    ASSUME H!Init
    PROVE  ListInv
<1> USE ActorAssumption DEF H!Init, H!Actor
<1>1. list = <<>> /\ DOMAIN list = {}
    OBVIOUS
<1>2. H!TypeOK
  <2>1. list \in Seq(Worker) /\ place \in [H!Actor -> H!Places]
      BY <1>1 DEF H!Places
  <2>2. cancelState \in [Worker -> SUBSET {"Cancelable", "Canceling"}]
      OBVIOUS
  <2>3. /\ assigned \in [Worker -> BOOLEAN] /\ finished \in [Worker -> BOOLEAN]
        /\ canceled \in [Worker -> BOOLEAN]
      BY Zenon
  <2>4. /\ new \in [H!Actor -> Worker \cup {None}] /\ created \in [H!Actor -> {"none", "true", "false"}]
      OBVIOUS
  <2>5. {destructorMutex, mutex} \subseteq H!Actor \cup {None} /\ destructed \in BOOLEAN
      BY Zenon
  <2>6. position \in Nat \ {0} /\ outcome \in {"none", "canceled", "failed", "crashed"}
      OBVIOUS
  <2> HIDE DEF H!Init
  <2>7. QED BY <2>1, <2>2, <2>3, <2>4, <2>5, <2>6, Zenon DEF H!TypeOK
<1>3. \A a \in H!Actor : place[a] \in {"idle", "none"} /\ new[a] = None
    BY Zenon
<1>7. Owners
    BY <1>3 DEF Owners, Joining, Making
<1>8. \A a \in H!Actor : Made(a)
    BY <1>3 DEF Made, Making
<1>4. ListRight
    BY <1>1, <1>2 DEF ListRight, H!Alive
<1>5. Joined
    BY DEF Joined, H!AssignedBeforeJoined
<1>6. QED BY <1>2, <1>7, <1>8, <1>4, <1>5 DEF ListInv

\* Types.
LEMMA WorkerTypes ==
    ASSUME H!TypeOK, NEW w \in Worker, H!WorkerStep(w)
    PROVE  H!TypeOK'
<1> USE ActorAssumption DEF H!Actor, H!Goto, H!TypeOK, H!Places, H!SetCancelable
<1>1. CASE H!Ocall(w) BY <1>1 DEF H!Ocall, H!mutexes, H!loop
<1>2. CASE H!CanceledInOcall(w) BY <1>2 DEF H!CanceledInOcall, H!mutexes, H!flags, H!loop
<1>3. CASE H!Finish(w) BY <1>3 DEF H!Finish, H!mutexes, H!loop
<1>4. QED BY <1>1, <1>2, <1>3 DEF H!WorkerStep

\* The actions of create_thread keep the types.
LEMMA CreateTypes ==
    ASSUME H!TypeOK, NEW a \in H!Actor, H!CreateBegin(a) \/ H!CreateStep(a)
    PROVE  H!TypeOK'
<1> USE ActorAssumption DEF H!Actor, H!Goto, H!TypeOK, H!Places, H!SetCancelable
<1>1. CASE H!CreateBegin(a) BY <1>1 DEF H!CreateBegin, H!mutexes, H!flags, H!loop
<1>2. CASE H!OcallReturn(a) BY <1>2 DEF H!OcallReturn, H!mutexes, H!loop
<1>3. CASE H!CreateLock(a) BY SMTT(30), <1>3 DEF H!CreateLock, H!flags, H!loop
<1>4. CASE H!CreateTry(a)
  <2>1. PICK w \in Worker : /\ list' = Append(Filter(list, {u \in Worker : ~finished[u]}), w)
                            /\ new' = [new EXCEPT ![a] = w]
                            /\ place' = [place EXCEPT ![w] = "listed", ![a] = "create_start"]
      BY <1>4, Zenon DEF H!CreateTry, H!Filter, Filter
  <2>2. list \in Seq(Worker)
      OBVIOUS
  <2>3. Filter(list, {u \in Worker : ~finished[u]}) \in Seq(Worker)
      BY <2>2, FilterKeeps
  <2>4. list' \in Seq(Worker)
      BY <2>1, <2>3
  <2>5. QED BY <2>1, <2>4, <1>4 DEF H!CreateTry, H!mutexes, H!flags, H!loop
<1>5. CASE H!CreateSleep(a) BY <1>5 DEF H!CreateSleep, H!flags, H!loop
<1>6. CASE H!CreateStart(a) BY SMTT(30), <1>6 DEF H!CreateStart, H!flags, H!loop
<1>7. CASE H!CreateAssign(a) BY <1>7 DEF H!CreateAssign, H!loop
<1>8. QED BY <1>1, <1>2, <1>3, <1>4, <1>5, <1>6, <1>7 DEF H!CreateStep

\* So do those of join_all_threads, cancel_all_threads and the destructor.
LEMMA MainTypes ==
    ASSUME H!TypeOK, (\E call \in {"join", "cancel"} : H!TakeMutex(call)) \/ H!MainStep \/ H!Destruct
    PROVE  H!TypeOK'
<1> USE ActorAssumption DEF H!Actor, H!Goto, H!TypeOK, H!Places
<1>1. ASSUME NEW call \in {"join", "cancel"}, H!TakeMutex(call) PROVE H!TypeOK'
    BY <1>1 DEF H!TakeMutex, H!flags
<1>2. ASSUME NEW w \in Worker, H!CancelMark(w) PROVE H!TypeOK'
    BY <1>2 DEF H!CancelMark, H!mutexes, H!loop
<1>3. ASSUME NEW w \in Worker, H!CancelSend(w) PROVE H!TypeOK'
    BY <1>3 DEF H!CancelSend, H!mutexes, H!loop
<1>4. ASSUME NEW w \in Worker, H!Join(w) PROVE H!TypeOK'
    BY <1>4 DEF H!Join, H!flags
<1>5. CASE H!AllJoined
    BY <1>5 DEF H!AllJoined, H!flags
<1>6. CASE H!Destruct
    BY <1>6 DEF H!Destruct, H!flags
<1>7. QED BY <1>1, <1>2, <1>3, <1>4, <1>5, <1>6 DEF H!MainStep

-----------------------------------------------------------------------------
\* A step that moves one thread, which is not making another, and leaves the list.
Quiet(a, l) ==
    /\ place' = [place EXCEPT ![a] = l]
    /\ place[a] \notin Making \cup {"none", "listed", "ended", "gone"} /\ l \notin Making \cup {"none", "listed"}
    /\ a = Main /\ place[a] = "idle" => outcome = "none"
    /\ \/ finished' = finished
       \/ l = "ended" /\ a \in Worker /\ finished' = [finished EXCEPT ![a] = TRUE]
    /\ \/ a = Main /\ place[a] \in Joining /\ l \in Joining
       \/ place[a] \notin Joining /\ l \notin Joining
    /\ \/ destructorMutex' = destructorMutex /\ l # "create_try"
       \/ destructorMutex = None /\ destructorMutex' = a
       \/ place[a] = "create_try" /\ l # "create_try"
    /\ UNCHANGED <<mutex, list, new, assigned, position, outcome>>

\* Most actions are such steps.
LEMMA QuietSteps ==
    ASSUME H!TypeOK, Owners,
           \/ \E w \in Worker : H!WorkerStep(w) \/ H!CancelMark(w) \/ H!CancelSend(w)
           \/ \E a \in H!Actor : \/ H!MayCreate(a) /\ H!CreateBegin(a) 
                                 \/ H!OcallReturn(a) \/ H!CreateLock(a) \/ H!CreateSleep(a)
    PROVE  \E a \in H!Actor : \E l \in H!Places : Quiet(a, l)
<1> USE ActorAssumption DEF H!Actor, H!Goto, H!TypeOK, H!Places, Quiet, Making, Joining, H!SetCancelable
<1>1. ASSUME NEW w \in Worker, H!Ocall(w) PROVE \E l \in H!Places : Quiet(w, l)
    BY <1>1 DEF H!Ocall, H!mutexes, H!loop
<1>2. ASSUME NEW w \in Worker, H!CanceledInOcall(w) PROVE \E l \in H!Places : Quiet(w, l)
    BY <1>2 DEF H!CanceledInOcall, H!mutexes, H!flags, H!loop
<1>3. ASSUME NEW w \in Worker, H!Finish(w) PROVE \E l \in H!Places : Quiet(w, l)
    BY <1>3 DEF H!Finish, H!mutexes, H!loop
<1>4. ASSUME NEW w \in Worker, H!CancelMark(w) PROVE \E l \in H!Places : Quiet(Main, l)
    BY <1>4 DEF H!CancelMark, H!mutexes, H!loop
<1>5. ASSUME NEW w \in Worker, H!CancelSend(w) PROVE \E l \in H!Places : Quiet(Main, l)
    BY <1>5 DEF H!CancelSend, H!mutexes, H!loop
<1>6. ASSUME NEW a \in H!Actor, H!MayCreate(a), H!CreateBegin(a) PROVE \E l \in H!Places : Quiet(a, l)
    BY <1>6 DEF H!CreateBegin, H!Before, H!MayCreate, H!mutexes, H!flags, H!loop
<1>7. ASSUME NEW a \in H!Actor, H!OcallReturn(a) PROVE \E l \in H!Places : Quiet(a, l)
    BY <1>7 DEF H!OcallReturn, H!mutexes, H!loop
<1>8. ASSUME NEW a \in H!Actor, H!CreateLock(a) PROVE \E l \in H!Places : Quiet(a, l)
    BY <1>8 DEF H!CreateLock, H!flags, H!loop
<1>9. ASSUME NEW a \in H!Actor, H!CreateSleep(a) PROVE \E l \in H!Places : Quiet(a, l)
    BY <1>9 DEF H!CreateSleep, H!flags, H!loop
<1> HIDE DEF Quiet, H!Goto, H!TypeOK, H!Places, Making, Joining, H!SetCancelable
<1>10. QED BY <1>1, <1>2, <1>3, <1>4, <1>5, <1>6, <1>7, <1>8, <1>9 DEF H!WorkerStep

\* They keep what is known of the list.
LEMMA QuietKeeps ==
    ASSUME ListInv, H!TypeOK', NEW a \in H!Actor, NEW l \in H!Places, Quiet(a, l)
    PROVE  ListInv'
<1> USE ActorAssumption DEF H!Actor
<1>1. Owners'
    BY DEF ListInv, Owners, H!TypeOK, Quiet, Joining, Making
<1>2. ASSUME NEW b \in H!Actor PROVE Made(b)'
  <2>1. new[b] # None => new[b] # a \/ place[b] # "create_start"
      BY DEF ListInv, Made, Quiet
  <2>2. QED BY <2>1 DEF ListInv, Made, Quiet, H!TypeOK, Making, LastOfList
<1>3. \A w \in Worker : H!Broken(w)' <=> H!Broken(w)
    BY DEF ListInv, H!TypeOK, Quiet, H!Broken
<1>4. ListRight'
  <2>1. \A w \in Worker : H!Alive(w)' => H!Alive(w)
      BY DEF ListInv, H!TypeOK, Quiet, H!Alive
  <2>2. \A w \in Worker : finished'[w] => place'[w] = "ended"
      BY DEF ListInv, ListRight, H!TypeOK, Quiet
  <2>3. \A i \in DOMAIN list : list[i] \in Worker
      BY DEF ListInv, H!TypeOK
  <2>4. \A i \in DOMAIN list : place'[list[i]] # "none"
      BY <2>3 DEF ListInv, ListRight, H!TypeOK, Quiet
  <2>5. QED BY <1>3, <2>1, <2>2, <2>3, <2>4 DEF ListInv, ListRight, InList, Unfinished, Quiet
<1>5. Joined'
  <2>1. \A w \in Worker : H!Alive(w)' => H!Alive(w)
      BY DEF ListInv, H!TypeOK, Quiet, H!Alive
  <2>2. \A i \in DOMAIN list : list[i] \in Worker
      BY DEF ListInv, H!TypeOK
  <2>3. H!AssignedBeforeJoined'
      BY <1>3, <2>2 DEF ListInv, Joined, H!AssignedBeforeJoined, Quiet
  <2>4. outcome' = "canceled" => place'[Main] \in {"idle", "gone"}
    <3>1. outcome = "canceled" => a = Main /\ place[a] = "idle"
        BY DEF ListInv, Joined, Quiet, H!Alive
    <3>2. QED BY <3>1 DEF Quiet
  <2>5. mutex' = Main => \A i \in DOMAIN list' : i < position' => place'[list'[i]] = "ended"
      BY <2>2 DEF ListInv, Joined, Quiet, H!TypeOK
  <2>6. QED BY <2>1, <2>3, <2>4, <2>5 DEF ListInv, Joined, Quiet
<1>6. QED BY <1>1, <1>2, <1>4, <1>5 DEF ListInv

\* The steps that do more.
LEMMA TryKeeps ==
    ASSUME ListInv, H!TypeOK', NEW a \in H!Actor, H!CreateTry(a)
    PROVE  ListInv'
<1> USE ActorAssumption DEF H!Actor
<1> DEFINE left == {u \in Worker : ~finished[u]}
           kept == Filter(list, left)
<1>1. PICK w \in Worker : /\ place[w] = "none" /\ list' = Append(kept, w)
                          /\ new' = [new EXCEPT ![a] = w]
                          /\ place' = [place EXCEPT ![w] = "listed", ![a] = "create_start"]
    BY Zenon DEF H!CreateTry, H!Filter, Filter
<1>2. /\ place[a] = "create_try" /\ mutex = None /\ destructorMutex = a
      /\ UNCHANGED <<destructorMutex, mutex, assigned, finished, position, outcome>>
    BY DEF H!CreateTry, H!mutexes, H!flags, H!loop, ListInv, Owners
<1>3. /\ new \in [H!Actor -> Worker \cup {None}] /\ place \in [H!Actor -> H!Places]
      /\ list \in Seq(Worker) /\ finished \in [Worker -> BOOLEAN]
    BY DEF ListInv, H!TypeOK
<1>4. kept \in Seq(Worker) /\ \A u \in Worker :
          (\E j \in 1 .. Len(kept) : kept[j] = u) <=> ~finished[u] /\ InList(u)
  <2>1. kept \in Seq(Worker)
      BY <1>3, FilterKeeps
  <2>2. ASSUME NEW u \in Worker
        PROVE  (\E j \in 1 .. Len(kept) : kept[j] = u) <=> u \in left /\ \E i \in 1 .. Len(list) : list[i] = u
    <3> HIDE DEF left
    <3>1. QED BY <1>3, FilterEntries
  <2>3. DOMAIN list = 1 .. Len(list)
      BY <1>3
  <2> HIDE DEF kept
  <2>4. QED BY <2>1, <2>2, <2>3 DEF InList
<1> HIDE DEF kept
<1>5. /\ Len(list') = Len(kept) + 1 /\ list'[Len(list')] = w
      /\ \A j \in 1 .. Len(kept) : list'[j] = kept[j]
    BY <1>1, <1>4
<1>6. a # w /\ \A b \in H!Actor : b # a => new[b] = None
    BY <1>1, <1>2 DEF ListInv, Made, Owners
<1>7. Owners'
    BY <1>1, <1>2, <1>3 DEF ListInv, Owners, Joining, Making
<1>8. ~InList(w)
    BY <1>1 DEF ListInv, ListRight, InList
<1>9. \A b \in H!Actor : Made(b)'
  <2>1. LastOfList(w)'
      BY <1>4, <1>5, <1>8 DEF LastOfList
  <2>2. Made(a)'
      BY <1>1, <1>3, <1>6, <2>1 DEF Made, Making
  <2>3. ASSUME NEW b \in H!Actor, b # a PROVE Made(b)'
      BY <2>3, <1>1, <1>3, <1>6 DEF ListInv, Made, Making
  <2>4. QED BY <2>2, <2>3
<1>10. \A u \in Worker : InList(u)' <=> u = w \/ (~finished[u] /\ InList(u))
    BY <1>4, <1>5 DEF InList
<1>11. \A u \in Worker : /\ u \notin {a, w} => place'[u] = place[u]
                         /\ H!Broken(u) => (H!Broken(u)' /\ u \notin {a, w})
    BY <1>1, <1>2, <1>3 DEF H!Broken
<1>12. ListRight'
  <2>1. ASSUME NEW u \in Worker, H!Alive(u)' PROVE InList(u)'
      BY <2>1, <1>1, <1>2, <1>3, <1>10, <1>11 DEF ListInv, ListRight, H!Alive
  <2>2. ASSUME NEW u \in Worker, finished'[u] PROVE place'[u] = "ended"
      BY <2>2, <1>1, <1>2, <1>3, <1>11 DEF ListInv, ListRight
  <2>3. ASSUME NEW u \in Worker, InList(u)'
        PROVE  place'[u] # "none" /\ (assigned'[u] \/ Unfinished(u)')
    <3>1. CASE u = w
        BY <3>1, <1>1, <1>3, <1>6 DEF Unfinished
    <3>2. CASE u # w
      <4>1. InList(u)
          BY <2>3, <3>2, <1>10
      <4>2. place[u] # "none" /\ (assigned[u] \/ Unfinished(u))
          BY <4>1 DEF ListInv, ListRight, InList
      <4>3. place'[u] # "none"
          BY <4>2, <3>2, <1>1, <1>3
      <4>4. Unfinished(u) => Unfinished(u)'
        <5>1. new[a] = None
            BY <1>2 DEF ListInv, Made, Making
        <5>2. QED BY <5>1, <1>6, <1>11 DEF Unfinished
      <4>5. QED BY <4>2, <4>3, <4>4, <1>2
    <3>3. QED BY <3>1, <3>2
  <2>4. \A i \in DOMAIN list' : \E u \in Worker : u = list'[i] /\ InList(u)'
      BY <1>1, <1>4 DEF InList
  <2>5. QED BY <2>1, <2>2, <2>3, <2>4 DEF ListRight
<1>13. Joined'
  <2>1. outcome # "canceled"
      BY <1>2 DEF ListInv, Joined, H!Alive
  <2>2. H!AssignedBeforeJoined'
    <3> SUFFICES ASSUME outcome \in {"failed", "crashed"} PROVE (\E i \in DOMAIN list : H!Broken(list[i]))'
        BY <1>2 DEF H!AssignedBeforeJoined
    <3>1. PICK u \in Worker : H!Broken(u) /\ InList(u)
        BY <1>3 DEF ListInv, Joined, H!AssignedBeforeJoined, InList
    <3>2. ~finished[u]
        BY <1>3, <3>1 DEF ListInv, ListRight, H!Broken
    <3>3. InList(u)' /\ H!Broken(u)'
        BY <3>1, <3>2, <1>10, <1>11
    <3>4. QED BY <3>3 DEF InList
  <2>3. QED BY <2>1, <2>2, <1>2 DEF Joined
<1>14. QED BY <1>7, <1>9, <1>12, <1>13 DEF ListInv

\* Who creates a thread is alone in that.
LEMMA OnlyMaker ==
    ASSUME ListInv, NEW a \in H!Actor, destructorMutex = a
    PROVE  \A b \in H!Actor : b # a => new[b] = None
BY DEF ListInv, Owners, Made

\* The std::thread starts, or is assigned, or cannot be started.
LEMMA StartKeeps ==
    ASSUME ListInv, H!TypeOK', NEW a \in H!Actor, H!CreateStart(a) \/ H!CreateAssign(a)
    PROVE  ListInv'
<1> USE ActorAssumption DEF H!Actor
<1>1. /\ new \in [H!Actor -> Worker \cup {None}] /\ place \in [H!Actor -> H!Places]
      /\ list \in Seq(Worker) /\ finished \in [Worker -> BOOLEAN] /\ assigned \in [Worker -> BOOLEAN]
    BY DEF ListInv, H!TypeOK
<1>2. place[a] \in Making /\ destructorMutex = a /\ new[a] \in Worker \ {a}
    BY <1>1 DEF H!CreateStart, H!CreateAssign, Making, ListInv, Owners, Made
<1>3. PICK w \in Worker : w = new[a] /\ w # a /\ place[w] # "none" /\ LastOfList(w)
  <2>1. place[new[a]] # "none"
      BY <1>1, <1>2 DEF ListInv, Made, ListRight, LastOfList
  <2>2. QED BY <1>2, <2>1 DEF ListInv, Made
<1>4. \A b \in H!Actor : b # a => new[b] = None
    BY <1>2, OnlyMaker
<1>5. UNCHANGED <<mutex, list, finished, position, outcome>>
    BY DEF H!CreateStart, H!CreateAssign, H!mutexes, H!flags, H!loop
<1>6. \/ /\ place[a] = "create_start" /\ place' = [place EXCEPT ![w] = "enclave", ![a] = "create_assign"]
         /\ UNCHANGED <<destructorMutex, new, assigned>>
      \/ /\ destructorMutex' = None /\ new' = [new EXCEPT ![a] = None]
         /\ place' = [place EXCEPT ![a] = "ocall_end"]
         /\ \/ place[a] = "create_start" /\ UNCHANGED assigned
            \/ place[a] = "create_assign" /\ assigned' = [assigned EXCEPT ![w] = TRUE]
    BY <1>3 DEF H!CreateStart, H!CreateAssign, H!Goto, H!flags
<1>7. place[a] = "create_start" => place[w] = "listed" /\ ~finished[w]
    BY <1>3 DEF ListInv, Made, ListRight
<1>8. \A b \in H!Actor \ {a} : place[b] \notin Making \cup {"create_try"}
    BY <1>2 DEF ListInv, Owners
<1>9. \A u \in Worker : u \notin {a, w} => place'[u] = place[u]
    BY <1>1, <1>6
<1>10. Owners'
    BY <1>1, <1>2, <1>3, <1>5, <1>6, <1>7, <1>8 DEF ListInv, Owners, Joining, Making
<1>11. \A b \in H!Actor : Made(b)'
  <2>1. Made(a)'
      BY <1>1, <1>2, <1>3, <1>5, <1>6, <1>7 DEF ListInv, Made, Making, LastOfList
  <2>2. ASSUME NEW b \in H!Actor, b # a PROVE Made(b)'
      BY <2>2, <1>1, <1>3, <1>4, <1>6, <1>7, <1>8 DEF Made, Making
  <2>3. QED BY <2>1, <2>2
<1>12. \A u \in Worker : H!Broken(u) => H!Broken(u)'
  <2> SUFFICES ASSUME NEW u \in Worker, H!Broken(u) PROVE H!Broken(u)'
      OBVIOUS
  <2>1. u # w /\ u # a
      BY <1>2, <1>3 DEF H!Broken, Making
  <2>2. \A b \in H!Actor : new'[b] # u
      BY <2>1, <1>1, <1>3, <1>4, <1>6 DEF H!Broken
  <2>3. QED BY <2>1, <2>2, <1>9 DEF H!Broken
<1>13. ListRight'
  <2>1. ASSUME NEW u \in Worker, H!Alive(u)' PROVE InList(u)'
    <3>1. u = w \/ H!Alive(u)
        BY <2>1, <1>1, <1>2, <1>9 DEF H!Alive, Making
    <3>2. InList(w)
        BY <1>1, <1>3 DEF LastOfList, InList
    <3>3. QED BY <3>1, <3>2, <1>5 DEF ListInv, ListRight, InList
  <2>2. ASSUME NEW u \in Worker, finished'[u] PROVE place'[u] = "ended"
    <3>1. finished[u] /\ place[u] = "ended"
        BY <2>2, <1>5 DEF ListInv, ListRight
    <3>2. u # a /\ (place[a] = "create_start" => u # w)
        BY <3>1, <1>2, <1>7 DEF Making
    <3>3. QED BY <3>1, <3>2, <1>1, <1>3, <1>6
  <2>3. ASSUME NEW u \in Worker, InList(u)
        PROVE  place'[u] # "none" /\ (assigned'[u] \/ Unfinished(u)')
    <3>1. place[u] # "none" /\ (assigned[u] \/ Unfinished(u))
        BY <2>3 DEF ListInv, ListRight, InList
    <3>2. place'[u] # "none"
        BY <3>1, <1>1, <1>3, <1>6
    <3>3. assigned[u] => assigned'[u]
        BY <1>1, <1>6
    <3>4. CASE H!Broken(u)
        BY <3>2, <3>4, <1>12 DEF Unfinished
    <3>5. CASE u = w
      <4>1. assigned'[w] \/ Unfinished(w)'
        <5>1. CASE new' = new
            BY <5>1, <1>3 DEF Unfinished
        <5>2. CASE new' = [new EXCEPT ![a] = None] /\ place[a] = "create_assign"
            BY <5>2, <1>1, <1>6
        <5>3. CASE new' = [new EXCEPT ![a] = None] /\ place[a] = "create_start"
          <6>1. \A b \in H!Actor : new'[b] = None
              BY <5>3, <1>1, <1>4
          <6>2. new' # new
              BY <5>3, <1>1, <1>3
          <6>3. place'[w] = "listed"
              BY <5>3, <6>2, <1>1, <1>3, <1>6, <1>7
          <6>4. QED BY <6>1, <6>3 DEF Unfinished, H!Broken
        <5>4. QED BY <5>1, <5>2, <5>3, <1>2, <1>6 DEF Making
      <4>2. QED BY <4>1, <3>2, <3>5
    <3>6. CASE ~H!Broken(u) /\ u # w
        BY <3>1, <3>2, <3>3, <3>6, <1>3, <1>4 DEF Unfinished
    <3>7. QED BY <3>4, <3>5, <3>6
  <2>4. \A i \in DOMAIN list' : \E u \in Worker : u = list'[i] /\ InList(u)
      BY <1>1, <1>5 DEF InList
  <2>5. QED BY <2>1, <2>2, <2>3, <2>4 DEF ListRight
<1>14. Joined'
  <2>1. outcome # "canceled"
      BY <1>2 DEF ListInv, Joined, H!Alive, Making
  <2>2. H!AssignedBeforeJoined'
    <3> SUFFICES ASSUME outcome \in {"failed", "crashed"} PROVE (\E i \in DOMAIN list : H!Broken(list[i]))'
        BY <1>5 DEF H!AssignedBeforeJoined
    <3>1. PICK i \in DOMAIN list : H!Broken(list[i])
        BY DEF ListInv, Joined, H!AssignedBeforeJoined
    <3>2. list[i] \in Worker
        BY <1>1
    <3>3. QED BY <3>1, <3>2, <1>5, <1>12
  <2>3. ASSUME mutex = Main, NEW i \in DOMAIN list, i < position PROVE place'[list[i]] = "ended"
    <3>1. place[list[i]] = "ended" /\ list[i] \in Worker
        BY <2>3, <1>1 DEF ListInv, Joined
    <3>2. list[i] # a /\ (place[a] = "create_start" => list[i] # w)
        BY <3>1, <1>2, <1>7 DEF Making
    <3>3. QED BY <3>1, <3>2, <1>1, <1>6
  <2>4. QED BY <2>1, <2>2, <2>3, <1>5 DEF Joined
<1>15. QED BY <1>10, <1>11, <1>13, <1>14 DEF ListInv

\* Main's steps that change what it has called.
LEMMA MainKeeps ==
    ASSUME ListInv, H!TypeOK',
           \/ \E call \in {"join", "cancel"} : H!TakeMutex(call)
           \/ (\E w \in Worker : H!Join(w)) \/ H!AllJoined \/ H!Destruct
    PROVE  ListInv'
<1> USE ActorAssumption DEF H!Actor
<1>1. /\ new \in [H!Actor -> Worker \cup {None}] /\ place \in [H!Actor -> H!Places]
      /\ list \in Seq(Worker) /\ finished \in [Worker -> BOOLEAN] /\ assigned \in [Worker -> BOOLEAN]
    BY DEF ListInv, H!TypeOK
<1>2. PICK l \in Joining \cup {"idle", "gone"} : place' = [place EXCEPT ![Main] = l]
    BY DEF H!TakeMutex, H!Join, H!AllJoined, H!Destruct, H!Goto, Joining
<1>3. place[Main] \in Joining \cup {"idle"} /\ UNCHANGED <<destructorMutex, new, assigned, finished>>
    BY DEF H!TakeMutex, H!Join, H!AllJoined, H!Destruct, H!flags, Joining
<1>4. \A w \in Worker : place'[w] = place[w] /\ (H!Alive(w)' <=> H!Alive(w)) /\ (H!Broken(w)' <=> H!Broken(w))
    BY <1>1, <1>2, <1>3 DEF H!Alive, H!Broken
<1>5. new[Main] = None /\ new'[Main] = None
    BY <1>3 DEF ListInv, Made, Making, Joining
<1>6. \A w \in Worker : finished'[w] => place'[w] = "ended"
    BY <1>3, <1>4 DEF ListInv, ListRight
<1>7. ASSUME list' = list PROVE (\A a \in H!Actor : Made(a)') /\ ListRight'
  <2>1. Made(Main)'
      BY <1>1, <1>2, <1>5 DEF Made, Making, Joining
  <2>2. ASSUME NEW w \in Worker PROVE Made(w)'
    <3>1. place'[w] = place[w] /\ new'[w] = new[w] /\ (new[w] # None => place'[new[w]] = place[new[w]])
        BY <1>1, <1>3, <1>4
    <3>2. PICK v : v = new[w] /\ v = new'[w]
        BY <3>1
    <3>3. LastOfList(v)' <=> LastOfList(v)
        BY <1>7 DEF LastOfList
    <3>4. /\ v # None <=> place[w] \in Making
          /\ v # None => v # w /\ LastOfList(v)
          /\ place[w] = "create_start" => place[v] = "listed"
        BY <3>2 DEF ListInv, Made
    <3>5. place[w] = "create_start" => v # None /\ place'[v] = place[v]
        BY <3>1, <3>2, <3>4 DEF Making
    <3>6. QED BY <3>1, <3>2, <3>3, <3>4, <3>5 DEF Made
  <2>3. \A i \in DOMAIN list : list[i] \in Worker
      BY <1>1
  <2>4. \A w \in Worker : Unfinished(w) => Unfinished(w)'
      BY <1>3, <1>4 DEF Unfinished
  <2>5. \A i \in DOMAIN list : place'[list[i]] # "none" /\ (assigned'[list[i]] \/ Unfinished(list[i]) )
      BY <1>3, <1>4, <2>3 DEF ListInv, ListRight
  <2>6. \A w \in Worker : H!Alive(w)' => InList(w)'
      BY <1>4, <1>7 DEF ListInv, ListRight, InList
  <2>7. ListRight'
    <3>1. \A i \in DOMAIN list : \E w \in Worker : w = list[i]
        BY <2>3
    <3>2. QED BY <3>1, <1>6, <1>7, <2>4, <2>5, <2>6 DEF ListRight
  <2>8. QED BY <2>1, <2>2, <2>7
<1>8. ASSUME NEW call \in {"join", "cancel"}, H!TakeMutex(call) PROVE ListInv'
  <2>1. /\ mutex' = Main /\ position' = 1 /\ outcome = "none" /\ outcome' = outcome /\ list' = list
        /\ place' = [place EXCEPT ![Main] = call] /\ mutex = None
      BY <1>8 DEF H!TakeMutex, H!Goto
  <2>2. Owners'
      BY <2>1, <1>1, <1>3 DEF ListInv, Owners, Joining, Making
  <2>3. \A i \in DOMAIN list : ~(i < 1)
      BY <1>1
  <2>4. Joined'
      BY <2>1, <2>3 DEF Joined, H!AssignedBeforeJoined
  <2>5. QED BY <2>1, <2>2, <2>4, <1>7 DEF ListInv
<1>9. ASSUME NEW w \in Worker, H!Join(w) PROVE ListInv'
  <2>1. /\ mutex = Main /\ outcome = "none" /\ list' = list /\ position \in Nat \ {0}
        /\ place[Main] \in {"join", "cancel_join"} /\ position <= Len(list) /\ w = list[position]
      BY <1>9 DEF H!Join, ListInv, Owners, H!TypeOK, Joining
  <2>2. CASE place[w] = "ended" /\ assigned[w]
    <3>1. /\ position' = position + 1 /\ mutex' = Main /\ outcome' = outcome
          /\ place'[Main] \in Joining
        BY <1>9, <2>1, <2>2, <1>1 DEF H!Join, H!Goto, Joining
    <3>2. Owners'
        BY <2>1, <3>1, <1>1, <1>3, <1>4 DEF ListInv, Owners, Making, Joining
    <3>3. \A i \in DOMAIN list : i < position + 1 => place[list[i]] = "ended"
        BY <2>1, <2>2, <1>1 DEF ListInv, Joined
    <3>4. Joined'
      <4>1. \A i \in DOMAIN list : place'[list[i]] = place[list[i]]
          BY <1>1, <1>4
      <4>2. QED BY <2>1, <3>1, <3>3, <4>1 DEF Joined, H!AssignedBeforeJoined
    <3>5. QED BY <2>1, <3>2, <3>4, <1>7 DEF ListInv
  <2>3. CASE ~assigned[w]
    <3>1. mutex' = None /\ outcome' = "failed" /\ place' = [place EXCEPT ![Main] = "idle"]
        BY <1>9, <2>3 DEF H!Join, H!Goto
    <3>2. Owners'
        BY <2>1, <3>1, <1>1, <1>3 DEF ListInv, Owners, Making, Joining
    <3>3. H!Broken(w)
      <4> SUFFICES ASSUME NEW a \in H!Actor, new[a] = w PROVE FALSE
          BY <2>1, <2>3, <1>1 DEF ListInv, ListRight, Unfinished
      <4>1. a \in Worker /\ LastOfList(w) /\ a # w /\ H!Alive(a)
          BY <1>5 DEF ListInv, Made, Making, H!Alive
      <4>2. position = Len(list)
          BY <2>1, <4>1, <1>1 DEF LastOfList
      <4>3. PICK i \in DOMAIN list : list[i] = a
          BY <4>1 DEF ListInv, ListRight, InList
      <4>4. i < position
          BY <2>1, <4>1, <4>2, <4>3, <1>1
      <4>5. QED BY <2>1, <4>1, <4>3, <4>4 DEF ListInv, Joined, H!Alive
    <3>4. Joined'
      <4>1. position \in DOMAIN list
          BY <2>1, <1>1
      <4>2. H!Broken(w)' /\ w = list'[position]
          BY <3>3, <2>1, <1>4
      <4>3. H!AssignedBeforeJoined'
          BY <4>1, <4>2, <2>1 DEF H!AssignedBeforeJoined
      <4>4. QED BY <3>1, <4>3 DEF Joined
    <3>5. QED BY <2>1, <3>2, <3>4, <1>7 DEF ListInv
  <2>4. QED BY <1>9, <2>2, <2>3 DEF H!Join
<1>10. ASSUME H!AllJoined PROVE ListInv'
  <2>1. /\ mutex = Main /\ outcome = "none" /\ list' = <<>> /\ position > Len(list)
        /\ mutex' = None /\ outcome' \in {"none", "canceled"} /\ place' = [place EXCEPT ![Main] = "idle"]
      BY <1>10 DEF H!AllJoined, ListInv, Owners, Joining, H!Goto
  <2>2. \A w \in Worker : ~H!Alive(w)
    <3>1. \A i \in DOMAIN list : place[list[i]] = "ended"
        BY <2>1, <1>1 DEF ListInv, Joined, H!TypeOK
    <3>2. QED BY <3>1 DEF ListInv, ListRight, InList, H!Alive
  <2>3. \A a \in H!Actor : new[a] = None
      BY <2>2, <1>5 DEF ListInv, Made, Making, H!Alive
  <2>4. Owners'
      BY <2>1, <1>1, <1>3 DEF ListInv, Owners, Making, Joining
  <2>5. \A a \in H!Actor : place'[a] \notin Making /\ new'[a] = None
      BY <2>1, <2>2, <2>3, <1>1, <1>3 DEF H!Alive, Making
  <2>6. \A a \in H!Actor : Made(a)'
      BY <2>5 DEF Made, Making
  <2>7. DOMAIN list' = {}
      BY <2>1
  <2>8. ListRight'
      BY <2>2, <2>7, <1>4, <1>6 DEF ListRight
  <2>9. Joined'
      BY <2>1, <2>2, <1>1, <1>4 DEF Joined, H!AssignedBeforeJoined
  <2>10. QED BY <2>4, <2>6, <2>8, <2>9 DEF ListInv
<1>11. ASSUME H!Destruct PROVE ListInv'
  <2>1. /\ list' = list /\ destructorMutex = None /\ UNCHANGED <<mutex, position>>
        /\ place[Main] = "idle" /\ place' = [place EXCEPT ![Main] = "gone"]
        /\ outcome' = IF \E i \in DOMAIN list : ~assigned[list[i]] THEN "crashed" ELSE outcome
      BY <1>11 DEF H!Destruct, H!Goto
  <2>2. Owners'
      BY <2>1, <1>1, <1>3 DEF ListInv, Owners, Making, Joining
  <2>3. mutex # Main
      BY <2>1 DEF ListInv, Owners, Joining
  <2>4. \A a \in H!Actor : new[a] = None
      BY <2>1 DEF ListInv, Made, Owners
  <2>5. \A i \in DOMAIN list : assigned[list[i]] \/ H!Broken(list[i])
      BY <2>4, <1>1 DEF ListInv, ListRight, Unfinished
  <2>6. outcome' \in {"failed", "crashed"} => \E i \in DOMAIN list : H!Broken(list[i])
      BY <2>1, <2>5 DEF ListInv, Joined, H!AssignedBeforeJoined
  <2>7. \A i \in DOMAIN list : H!Broken(list[i]) => H!Broken(list[i])'
      BY <2>1, <1>1, <1>4
  <2>8. Joined'
      BY <2>1, <2>3, <2>6, <2>7, <1>1, <1>4 DEF ListInv, Joined, H!AssignedBeforeJoined
  <2>9. QED BY <2>1, <2>2, <2>8, <1>7 DEF ListInv
<1>12. QED BY <1>8, <1>9, <1>10, <1>11

\* Every action of the manager and its threads keeps what is known of the list.
LEMMA ManagerNext ==
    ASSUME ListInv, [H!Next]_(H!hostVars)
    PROVE  ListInv'
<1>1. CASE UNCHANGED H!hostVars
    BY <1>1 DEF H!hostVars, H!mutexes, H!flags, H!loop, ListInv, H!TypeOK, Owners, Made, LastOfList, ListRight, Joined,
       H!Alive, InList, Unfinished, H!Broken, H!AssignedBeforeJoined
<1>2. CASE H!Next
  <2>1. H!TypeOK'
      BY <1>2, WorkerTypes, CreateTypes, MainTypes DEF H!Next, ListInv
  <2>2. CASE \/ \E w \in Worker : H!WorkerStep(w) \/ H!CancelMark(w) \/ H!CancelSend(w)
             \/ \E a \in H!Actor : \/ H!MayCreate(a) /\ H!CreateBegin(a)
                                   \/ H!OcallReturn(a) \/ H!CreateLock(a) \/ H!CreateSleep(a)
      BY <2>1, <2>2, QuietSteps, QuietKeeps DEF ListInv
  <2>3. CASE \E a \in H!Actor : H!CreateTry(a) \/ H!CreateStart(a) \/ H!CreateAssign(a)
      BY <2>1, <2>3, TryKeeps, StartKeeps
  <2>4. CASE \/ \E call \in {"join", "cancel"} : H!TakeMutex(call)
             \/ (\E w \in Worker : H!Join(w)) \/ H!AllJoined \/ H!Destruct
      BY <2>1, <2>4, MainKeeps
  <2>5. QED BY <1>2, <2>2, <2>3, <2>4 DEF H!Next, H!CreateStep, H!MainStep
<1>3. QED BY <1>1, <1>2

\* What has run is in the list, and what is in the list has been joined.
LEMMA Survivors == H!Spec => []H!NoneOutlives
<1>1. ListInv => H!NoneOutlives
  <2>1. ASSUME ListInv, mutex = Main, position > Len(list), NEW w \in Worker, H!Alive(w) PROVE FALSE
    <3>1. \A i \in DOMAIN list : place[list[i]] = "ended"
        BY <2>1 DEF ListInv, Joined, H!TypeOK
    <3>2. QED BY <2>1, <3>1 DEF ListInv, ListRight, InList, H!Alive
  <2>2. QED BY <2>1 DEF ListInv, Joined, H!NoneOutlives
<1>2. QED BY <1>1, ManagerInit, ManagerNext, PTL DEF H!Spec

\* Main meets a Thread without a std::thread only if its creation has failed.
LEMMA Assigned == H!Spec => []H!AssignedBeforeJoined
<1>1. ListInv => H!AssignedBeforeJoined
    BY DEF ListInv, Joined
<1>2. QED BY <1>1, ManagerInit, ManagerNext, PTL DEF H!Spec
-----------------------------------------------------------------------------
(* The enclave and the host together. *)

\* Main's ocall to create a thread is under way only while it may create some:
\* it does not terminate the enclave from inside pthread_create.
MainCreates == step[Main] = "create_ocall" => outcome = "none"
StepType == DOMAIN step = Actor
IInv == MainCreates /\ StepType

\* The steps that are made inside the enclave leave the host alone.
LEMMA InsideStep ==
    ASSUME NEW a \in Actor, Inside(a)
    PROVE  UNCHANGED hostVars
BY DEF Inside

\* Every other step is a step of the host's thread manager.
LEMMA HostStep ==
    ASSUME IInv, Next
    PROVE  [H!Next]_hostVars
<1>1. ASSUME NEW a \in Actor, Create(a) \/ Join(a) \/ DetachOne(a) PROVE UNCHANGED hostVars
    BY <1>1, InsideStep DEF Create, Join, DetachOne
<1>2. ASSUME NEW w \in Worker, Work(w) PROVE UNCHANGED hostVars
    BY <1>2 DEF Work, Inside
<1>3. ASSUME NEW a \in Actor, CreateBegin(a) PROVE H!Next
  <2>1. H!CreateBegin(a) /\ step[a] = "create_ocall"
      BY <1>3 DEF CreateBegin
  <2>2. H!MayCreate(a)
      BY <2>1 DEF H!MayCreate, IInv, MainCreates, Actor
  <2>3. QED BY <2>1, <2>2 DEF H!Next, H!Actor, Actor
<1>4. ASSUME NEW a \in Actor, CreateThread(a) \/ CreateStart(a) \/ CreateReturn(a) PROVE H!Next
  <2>1. H!CreateStep(a)
      BY <1>4 DEF CreateThread, CreateStart, CreateReturn, H!CreateStep
  <2>2. QED BY <2>1 DEF H!Next, H!Actor, Actor
<1>5. ASSUME NEW w \in Worker, Ocall(w) \/ Canceled(w) \/ Finish(w) PROVE H!Next
  <2>1. H!WorkerStep(w)
      BY <1>5 DEF Ocall, Canceled, Finish, H!WorkerStep
  <2>2. QED BY <2>1 DEF H!Next
<1>6. ASSUME NEW w \in Worker, OtherOcallReturn(w) PROVE H!Next
  <2>1. H!CreateStep(w) /\ w \in Actor
      BY <1>6 DEF OtherOcallReturn, H!CreateStep, Actor
  <2>2. QED BY <2>1 DEF H!Next, H!Actor
<1>7. CASE Terminate
  <2>1. (\E call \in {"join", "cancel"} : H!TakeMutex(call)) \/ H!MainStep \/ H!Destruct
      BY <1>7 DEF Terminate, H!MainStep
  <2>2. QED BY <2>1 DEF H!Next
<1>8. QED BY <1>1, <1>2, <1>3, <1>4, <1>5, <1>6, <1>7 DEF Next

\* A step of a thread other than the push of a new object.
LEMMA MoveInvariant ==
    ASSUME IInv, NEW a \in Actor, NEW label, label # "create_ocall",
           step' = [step EXCEPT ![a] = label], outcome' = outcome
    PROVE  IInv'
BY DEF IInv, MainCreates, StepType

\* Both hold in every state of the system.
LEMMA StepInvariant ==
    ASSUME IInv, [Next]_vars
    PROVE  IInv'
<1>0. ASSUME UNCHANGED <<step, outcome>> PROVE IInv'
    BY <1>0 DEF IInv, MainCreates, StepType
<1>1. ASSUME NEW a \in Actor, Inside(a), Push(a), MayCreate(a) PROVE IInv'
  <2>1. step' = [step EXCEPT ![a] = "create_ocall"] /\ outcome' = outcome
      BY <1>1 DEF Inside, hostVars, Push, Goto
  <2>2. QED BY <1>1, <2>1 DEF IInv, MainCreates, StepType, MayCreate
<1>2. ASSUME NEW a \in Actor, Inside(a), CreateWait(a) \/ CreateDetach(a) PROVE IInv'
  <2>1. \E label \in {"app", "create_detach"} : step' = [step EXCEPT ![a] = label]
      BY <1>2 DEF CreateWait, CreateDetach, Goto
  <2>2. QED BY <1>2, <2>1, MoveInvariant DEF Inside, hostVars
<1>3. ASSUME NEW w \in Worker, Work(w) PROVE IInv'
  <2>1. CASE UNCHANGED step
      BY <1>3, <2>1, <1>0 DEF Work, Inside, hostVars
  <2>2. ASSUME ~UNCHANGED step
        PROVE  \E label \in {"app", "exit_wait", "left"} : step' = [step EXCEPT ![w] = label]
      BY <1>3, <2>2 DEF Work, Enter, Done, Leave, Goto
  <2>3. QED BY <1>3, <2>1, <2>2, MoveInvariant DEF Work, Inside, hostVars, Actor
<1>4. ASSUME NEW a \in Actor, Join(a) PROVE IInv'
  <2>1. \E label \in {"app", "join_wait"} : step' = [step EXCEPT ![a] = label]
      BY <1>4 DEF Join, JoinBegin, JoinEnd, Goto
  <2>2. QED BY <1>4, <2>1, MoveInvariant DEF Join, Inside, hostVars
<1>5. ASSUME NEW a \in Actor, DetachOne(a) PROVE IInv'
    BY <1>5, <1>0 DEF DetachOne, Inside, hostVars, Detach, threads
<1>6. ASSUME NEW a \in Actor, CreateBegin(a) PROVE IInv'
    BY <1>6, <1>0 DEF CreateBegin, H!CreateBegin, H!loop, enclaveVars, threads, objects
<1>7. ASSUME NEW a \in Actor, CreateThread(a) PROVE IInv'
    BY <1>7, <1>0 DEF CreateThread, H!CreateLock, H!CreateTry, H!CreateSleep, H!CreateAssign,
                      H!loop, enclaveVars, threads, objects
<1>8. ASSUME NEW a \in Actor, CreateStart(a) PROVE IInv'
  <2>1. outcome' = outcome
      BY <1>8 DEF CreateStart, H!CreateStart, H!loop
  <2>2. step' = step \/ step' = [step EXCEPT ![a] = "create_launched"]
      BY <1>8 DEF CreateStart, enclaveVars, threads, objects, Launch, Goto
  <2>3. QED BY <1>0, <2>1, <2>2, MoveInvariant
<1>9. ASSUME NEW a \in Actor, CreateReturn(a) PROVE IInv'
  <2>1. outcome' = outcome
      BY <1>9 DEF CreateReturn, H!OcallReturn, H!loop
  <2>2. \/ step' = step
        \/ \E label \in {"app", "create_wait", "exit_wait"} : step' = [step EXCEPT ![a] = label]
      BY <1>9 DEF CreateReturn, enclaveVars, threads, objects, OcallTrue, OcallFalse, OcallFalseCanceled, Goto
  <2>3. QED BY <1>0, <2>1, <2>2, MoveInvariant
<1>10. ASSUME NEW w \in Worker, Ocall(w) \/ OtherOcallReturn(w) \/ Canceled(w) \/ Finish(w)
       PROVE  IInv'
    BY <1>10, <1>0 DEF Ocall, OtherOcallReturn, Canceled, Finish, H!Ocall, H!OcallReturn,
                       H!CanceledInOcall, H!Finish, H!loop, enclaveVars, threads, objects
<1>11. CASE Terminate
    BY <1>11 DEF Terminate, IInv, MainCreates, StepType, enclaveVars, threads, objects
<1>12. CASE UNCHANGED vars
    BY <1>12, <1>0 DEF vars, enclaveVars, threads, objects, hostVars
<1>13. ASSUME NEW a \in Actor, Create(a) PROVE IInv'
    BY <1>13, <1>1, <1>2 DEF Create
<1>14. QED BY <1>3, <1>4, <1>5, <1>6, <1>7, <1>8, <1>9, <1>10, <1>11, <1>12, <1>13 DEF Next

\* Both sides start together.
LEMMA InvariantInit == Init => IInv /\ H!Init
BY DEF Init, IInv, MainCreates, StepType, EnclaveInit, H!Init, Actor

\* ert_create_thread_ocall and the calls of oe_terminate_enclave: seen from the
\* host, the system is its thread manager.
THEOREM ImplementsThreadManager == Spec => H!Spec
<1>1. Init => IInv /\ H!Init
    BY InvariantInit
<1>2. IInv /\ [Next]_vars => IInv' /\ [H!Next]_(H!hostVars)
  <2>1. UNCHANGED hostVars => UNCHANGED H!hostVars
      BY DEF hostVars, H!hostVars, H!mutexes, H!flags, H!loop
  <2>2. UNCHANGED vars => UNCHANGED hostVars
      BY DEF vars
  <2>3. QED BY <2>1, <2>2, HostStep, StepInvariant
<1>3. QED BY <1>1, <1>2, PTL DEF Spec, H!Spec
-----------------------------------------------------------------------------
(* The count of the queued objects and of the threads on their way to them. *)

Lost == robbed \cup orphaned
Undisturbed == /\ ~destructed
               /\ \A w \in Worker : "Canceling" \notin cancelState[w]

CountTypes == /\ queue \in Seq(Pthread) /\ StepType
              /\ IsFiniteSet(Asking) /\ IsFiniteSet(entering) /\ IsFiniteSet(Lost)
              /\ \A w \in entering : w \in Worker /\ step[w] = "none"
\* Inside the ocall, the pthread has been given a thread exactly if the host is
\* about to report that, or has, unless the process exits.
Launched(a) == /\ place[a] = "create_assign" => step[a] = "create_launched"
               /\ place[a] = "ocall_end" /\ created[a] = "true"
                     => step[a] # "create_ocall" \/ destructed
Served == Len(queue) = Cardinality(entering) + Cardinality(Asking) + Cardinality(Lost)
ServedInv == CountTypes /\ (\A a \in Actor : Launched(a)) /\ (Undisturbed => Served)

\* What disturbs the count stays.
LEMMA DisturbedStays ==
    ASSUME H!TypeOK, [H!Next]_hostVars
    PROVE  /\ destructed => destructed'
           /\ \A w \in Worker : "Canceling" \in cancelState[w] => "Canceling" \in cancelState'[w]
<1> USE DEF H!TypeOK, H!SetCancelable
<1>1. ASSUME NEW w \in Worker, H!WorkerStep(w)
      PROVE  /\ destructed' = destructed
             /\ \A v \in Worker : "Canceling" \in cancelState[v] => "Canceling" \in cancelState'[v]
    BY <1>1 DEF H!WorkerStep, H!Ocall, H!CanceledInOcall, H!Finish, H!mutexes, H!flags
<1>2. ASSUME NEW a \in H!Actor, H!CreateBegin(a) \/ H!CreateStep(a)
      PROVE  /\ destructed' = destructed
             /\ \A v \in Worker : "Canceling" \in cancelState[v] => "Canceling" \in cancelState'[v]
  <2>1. CASE H!OcallReturn(a)
      BY <2>1 DEF H!OcallReturn, H!mutexes
  <2>2. CASE ~H!OcallReturn(a)
      BY <1>2, <2>2, Zenon DEF H!CreateStep, H!CreateBegin, H!CreateLock, H!CreateTry, H!CreateSleep,
                  H!CreateStart, H!CreateAssign, H!mutexes, H!flags
  <2>3. QED BY <2>1, <2>2
<1>3. ASSUME NEW w \in Worker, H!CancelMark(w)
      PROVE  /\ destructed' = destructed
             /\ \A v \in Worker : "Canceling" \in cancelState[v] => "Canceling" \in cancelState'[v]
    BY <1>3 DEF H!CancelMark, H!mutexes
<1>4. CASE \/ \E call \in {"join", "cancel"} : H!TakeMutex(call)
           \/ \E w \in Worker : H!CancelSend(w) \/ H!Join(w)
           \/ H!AllJoined \/ H!Destruct
    BY <1>4 DEF H!TakeMutex, H!CancelSend, H!Join, H!AllJoined, H!Destruct, H!mutexes, H!flags
<1>5. CASE UNCHANGED hostVars
    BY <1>5 DEF hostVars
<1>6. QED BY <1>1, <1>2, <1>3, <1>4, <1>5 DEF H!Next, H!MainStep

\* A step of the host that starts no thread leaves the enclave's count.
HostOnly == \/ \E w \in Worker : \/ H!Ocall(w) \/ H!CanceledInOcall(w) \/ H!Finish(w)
                                 \/ H!CancelMark(w) \/ H!CancelSend(w) \/ H!Join(w)
            \/ \E a \in Actor : \/ H!OcallReturn(a) \/ H!CreateBegin(a) \/ H!CreateLock(a)
                                \/ H!CreateTry(a) \/ H!CreateSleep(a) \/ H!CreateAssign(a)
            \/ \E call \in {"join", "cancel"} : H!TakeMutex(call)
            \/ H!AllJoined \/ H!Destruct \/ UNCHANGED hostVars

\* It keeps what create_thread is about to report.
LEMMA LaunchedKept ==
    ASSUME H!TypeOK, HostOnly, NEW b \in Actor, Launched(b), step'[b] = step[b],
           destructed => destructed'
    PROVE  Launched(b)'
<1> USE ActorAssumption DEF H!Goto, Actor, H!Actor
<1>0. place \in [Actor -> H!Places] /\ created \in [Actor -> {"none", "true", "false"}]
    BY DEF H!TypeOK
<1> DEFINE Still == /\ place'[b] = "create_assign" => place[b] = "create_assign"
                    /\ place'[b] = "ocall_end" /\ created'[b] = "true"
                         => \/ place[b] = "ocall_end" /\ created[b] = "true"
                            \/ place[b] = "create_assign" \/ destructed
<1>1. ASSUME NEW w \in Worker, H!Ocall(w) \/ H!CanceledInOcall(w) \/ H!Finish(w) PROVE Still
  <2>1. PICK l \in {"ocall", "ended"} : place' = [place EXCEPT ![w] = l]
      BY <1>1 DEF H!Ocall, H!CanceledInOcall, H!Finish, H!SetCancelable
  <2>2. created' = created
      BY <1>1 DEF H!Ocall, H!CanceledInOcall, H!Finish
  <2>3. QED BY <1>0, <2>1, <2>2
<1>2. ASSUME NEW w \in Worker, H!CancelMark(w) \/ H!CancelSend(w) \/ H!Join(w) PROVE Still
  <2>1. PICK l \in {"cancel", "cancel_send", "cancel_join", "join", "idle"} : place' = [place EXCEPT ![Main] = l]
      BY <1>2 DEF H!CancelMark, H!CancelSend, H!Join
  <2>2. created' = created
      BY <1>2 DEF H!CancelMark, H!CancelSend, H!Join
  <2>3. QED BY <1>0, <2>1, <2>2
<1>3. ASSUME NEW a \in Actor, H!OcallReturn(a) PROVE Still
  <2>1. PICK l \in {"idle", "enclave", "ended"} : place' = [place EXCEPT ![a] = l]
      BY <1>3 DEF H!OcallReturn, H!SetCancelable
  <2>2. created' = created
      BY <1>3 DEF H!OcallReturn
  <2>3. QED BY <1>0, <2>1, <2>2
<1>4. ASSUME NEW a \in Actor, H!CreateBegin(a) \/ H!CreateLock(a) \/ H!CreateSleep(a) \/ H!CreateAssign(a)
      PROVE  Still
    BY <1>0, <1>4 DEF H!CreateBegin, H!CreateLock, H!CreateSleep, H!CreateAssign
<1>5. ASSUME NEW a \in Actor, H!CreateTry(a) PROVE Still
  <2>1. PICK w \in Worker : place' = [place EXCEPT ![w] = "listed", ![a] = "create_start"]
      BY <1>5, Zenon DEF H!CreateTry
  <2>2. created' = created
      BY <1>5, Zenon DEF H!CreateTry
  <2>3. QED BY <1>0, <2>1, <2>2
<1>6. ASSUME NEW call \in {"join", "cancel"}, H!TakeMutex(call) PROVE Still
    BY <1>0, <1>6 DEF H!TakeMutex
<1>7. ASSUME H!AllJoined \/ H!Destruct PROVE Still
    BY <1>0, <1>7 DEF H!AllJoined, H!Destruct
<1>8. ASSUME UNCHANGED hostVars PROVE Still
    BY <1>8 DEF hostVars
<1>9. Still
    BY <1>1, <1>2, <1>3, <1>4, <1>5, <1>6, <1>7, <1>8 DEF HostOnly
<1>10. QED BY <1>9 DEF Launched

\* And so the counts agree after it.
LEMMA HostOnlyCounts ==
    ASSUME ListInv, ServedInv, [H!Next]_hostVars, HostOnly, UNCHANGED enclaveVars
    PROVE  ServedInv'
<1>1. UNCHANGED <<queue, step, entering, robbed, orphaned>> /\ Asking' = Asking /\ Lost' = Lost
    BY DEF enclaveVars, threads, objects, failures, Asking, Lost
<1>2. destructed => destructed'
    BY DisturbedStays DEF ListInv
<1>3. Undisturbed' => Undisturbed
    BY <1>1, <1>2, DisturbedStays DEF ListInv, Undisturbed
<1>4. \A a \in Actor : Launched(a)'
    BY <1>1, <1>2, LaunchedKept DEF ListInv, ServedInv
<1>5. QED BY <1>1, <1>3, <1>4 DEF ServedInv, CountTypes, StepType, Served

\* A step inside the enclave moves only a thread that is there.
LEMMA InsideCounts ==
    ASSUME ListInv, ServedInv, Next, NEW a \in Actor, Inside(a),
           NEW l, step' = [step EXCEPT ![a] = l] \/ step' = step,
           CountTypes', Undisturbed' => Undisturbed, Served => Served'
    PROVE  ServedInv'
<1>1. UNCHANGED <<place, created, destructed>> /\ place[a] \in {"idle", "enclave"}
    BY DEF Inside, hostVars, InEnclave
<1>2. ASSUME NEW b \in Actor PROVE Launched(b)'
  <2>1. b # a => step'[b] = step[b]
      BY DEF ServedInv, CountTypes, StepType
  <2>2. QED BY <1>1, <2>1 DEF ServedInv, Launched
<1>3. QED BY <1>2 DEF ServedInv

\* The calls inside the enclave: only pthread_create queues, for an ocall of its own.
LEMMA EnclaveCounts ==
    ASSUME ListInv, ServedInv, Next, NEW a \in Actor,
           \/ Create(a) \/ Join(a) \/ DetachOne(a)
    PROVE  ServedInv'
<1> USE DEF Goto, At
<1>0. /\ Inside(a) /\ Lost' = Lost
      /\ Undisturbed' => Undisturbed
  <2>1. Inside(a)
      BY DEF Create, Join, DetachOne
  <2>2. Lost' = Lost
      BY DEF Create, Join, DetachOne, Push, CreateWait, CreateDetach, JoinBegin, JoinEnd, Detach,
             failures, Lost
  <2>3. QED BY <2>1, <2>2 DEF Inside, hostVars, Undisturbed
<1>1. Inside(a) /\ StepType /\ queue \in Seq(Pthread)
    BY <1>0 DEF ServedInv, CountTypes
<1>2. CASE Push(a)
  <2>1. PICK o \in Pthread : queue' = Append(queue, o)
      BY <1>2 DEF Push
  <2>2. step[a] = "app" /\ step' = [step EXCEPT ![a] = "create_ocall"] /\ entering' = entering
      BY <1>2 DEF Push
  <2>3. queue' \in Seq(Pthread) /\ Len(queue') = Len(queue) + 1 /\ Len(queue) \in Nat
      BY <1>1, <2>1
  <2>4. Asking' = Asking \cup {a} /\ a \notin Asking
      BY <1>1, <2>2 DEF Asking, StepType
  <2>5. IsFiniteSet(Asking') /\ Cardinality(Asking') = Cardinality(Asking) + 1
      BY <2>4, FS_AddElement DEF ServedInv, CountTypes
  <2>6. CountTypes'
      BY <1>0, <1>1, <2>2, <2>3, <2>5 DEF ServedInv, CountTypes, StepType
  <2>7. Served => Served'
      BY <1>0, <2>2, <2>3, <2>5, FS_CardinalityType DEF Served, ServedInv, CountTypes
  <2>8. QED BY <1>0, <1>1, <2>2, <2>6, <2>7, InsideCounts
<1>3. CASE ~Push(a)
  <2>1. UNCHANGED <<queue, entering>>
      BY <1>3 DEF Create, Join, DetachOne, CreateWait, CreateDetach, JoinBegin, JoinEnd, Detach, threads
  <2>2. \/ step' = step
        \/ /\ step[a] \in {"app", "create_wait", "create_detach", "join_wait"}
           /\ \E l \in {"app", "create_detach", "join_wait"} : step' = [step EXCEPT ![a] = l]
      BY <1>3 DEF Create, Join, DetachOne, CreateWait, CreateDetach, JoinBegin, JoinEnd, Detach, threads
  <2>3. Asking' = Asking
      BY <1>1, <2>2 DEF Asking, StepType
  <2>4. CountTypes'
      BY <1>0, <1>1, <2>1, <2>2, <2>3 DEF ServedInv, CountTypes, StepType, Actor
  <2>5. Served => Served'
      BY <1>0, <2>1, <2>3 DEF Served
  <2>6. QED BY <1>0, <1>1, <2>2, <2>4, <2>5, InsideCounts
<1>4. QED BY <1>2, <1>3

\* A thread that enters takes one object.
LEMMA WorkCounts ==
    ASSUME ListInv, ServedInv, Next, NEW w \in Worker, Work(w)
    PROVE  ServedInv'
<1> USE DEF Goto, At
<1>1. Inside(w) /\ StepType /\ queue \in Seq(Pthread) /\ w \in Actor /\ Len(queue) \in Nat
    BY DEF Work, ServedInv, CountTypes, Actor
<1>2. (Undisturbed' => Undisturbed) /\ Lost' = Lost
  <2>1. Lost' = Lost
      BY DEF Work, Enter, Done, Leave, failures, Lost
  <2>2. QED BY <2>1, <1>1 DEF Inside, hostVars, Undisturbed
<1>3. CASE Enter(w)
  <2>1. entering' = entering \ {w} /\ w \in entering /\ step[w] = "none"
      BY <1>3 DEF Enter, ServedInv, CountTypes
  <2>2. IsFiniteSet(entering') /\ Cardinality(entering') = Cardinality(entering) - 1
      BY <2>1, FS_RemoveElement DEF ServedInv, CountTypes
  <2>3. /\ Cardinality(entering) \in Nat /\ Cardinality(entering') \in Nat /\ Cardinality(Asking) \in Nat
        /\ Cardinality(Lost) \in Nat
      BY <2>2, FS_CardinalityType DEF ServedInv, CountTypes
  <2>4. CASE queue = <<>>
    <3>1. UNCHANGED <<queue, step>>
        BY <1>3, <2>4 DEF Enter
    <3>2. ~Served
        BY <2>2, <2>3, <2>4 DEF Served
    <3>3. CountTypes'
        BY <1>1, <1>2, <2>1, <2>2, <3>1 DEF ServedInv, CountTypes, StepType, Asking
    <3>4. QED BY <1>1, <1>2, <3>1, <3>2, <3>3, InsideCounts
  <2>5. CASE queue # <<>>
    <3>1. queue' = Tail(queue) /\ step' = [step EXCEPT ![w] = "app"]
        BY <1>3, <2>5 DEF Enter
    <3>2. queue' \in Seq(Pthread) /\ Len(queue') = Len(queue) - 1
        BY <1>1, <2>5, <3>1
    <3>3. Asking' = Asking
        BY <1>1, <2>1, <3>1 DEF Asking, StepType
    <3>4. CountTypes'
        BY <1>1, <1>2, <2>1, <2>2, <3>1, <3>2, <3>3 DEF ServedInv, CountTypes, StepType
    <3>5. Served => Served'
        BY <1>1, <1>2, <2>2, <2>3, <3>2, <3>3 DEF Served
    <3>6. QED BY <1>1, <1>2, <3>1, <3>4, <3>5, InsideCounts
  <2>6. QED BY <2>4, <2>5
<1>4. CASE Done(w) \/ Leave(w)
  <2>1. /\ UNCHANGED <<queue, entering>> /\ step[w] \in {"app", "create_wait", "join_wait", "exit_wait"}
        /\ \E l \in {"exit_wait", "left"} : step' = [step EXCEPT ![w] = l]
      BY <1>4 DEF Done, Leave
  <2>2. Asking' = Asking
      BY <1>1, <2>1 DEF Asking, StepType
  <2>3. CountTypes'
      BY <1>1, <1>2, <2>1, <2>2 DEF ServedInv, CountTypes, StepType
  <2>4. Served => Served'
      BY <1>2, <2>1, <2>2 DEF Served
  <2>5. QED BY <1>1, <1>2, <2>1, <2>3, <2>4, InsideCounts
<1>5. QED BY <1>3, <1>4 DEF Work

\* The host starts a thread.
LEMMA StartCounts ==
    ASSUME ListInv, ServedInv, NEW a \in Actor, CreateStart(a)
    PROVE  ServedInv'
<1> USE ActorAssumption
<1>0. /\ place \in [Actor -> H!Places] /\ new \in [Actor -> Worker \cup {None}] /\ StepType
      /\ created \in [Actor -> {"none", "true", "false"}]
    BY DEF ListInv, H!TypeOK, H!Actor, Actor, ServedInv, CountTypes
<1>1. new[a] \in Worker /\ place[a] = "create_start" /\ UNCHANGED <<destructed, cancelState>>
    BY <1>0 DEF CreateStart, H!CreateStart, H!flags, ListInv, Made, Making, H!Actor, Actor
<1>2. CASE new'[a] = None
  <2>1. /\ UNCHANGED enclaveVars /\ place' = [place EXCEPT ![a] = "ocall_end"]
        /\ created' = [created EXCEPT ![a] = "false"]
      BY <1>0, <1>1, <1>2 DEF CreateStart, H!CreateStart, H!Goto
  <2>2. UNCHANGED <<queue, step, entering>> /\ Asking' = Asking /\ Lost' = Lost
      BY <2>1 DEF enclaveVars, threads, objects, failures, Asking, Lost
  <2>3. \A b \in Actor : Launched(b)'
      BY <2>1, <2>2, <1>0, <1>1 DEF ServedInv, Launched
  <2>4. QED BY <1>1, <2>2, <2>3 DEF ServedInv, CountTypes, StepType, Undisturbed, Served
<1>3. CASE new'[a] # None
  <2>1. PICK w \in Worker : w = new[a] /\ Launch(a, w)
      BY <1>1, <1>3 DEF CreateStart
  <2>2. created' = created /\ place' = [place EXCEPT ![w] = "enclave", ![a] = "create_assign"]
      BY <1>0, <1>1, <1>3, <2>1 DEF CreateStart, H!CreateStart
  <2>3. /\ entering' = entering \cup {w} /\ w \notin entering /\ step[w] = "none" /\ step[a] = "create_ocall"
        /\ step' = [step EXCEPT ![a] = "create_launched"] /\ queue' = queue /\ Lost' = Lost
      BY <2>1 DEF Launch, Goto, At, failures, Lost
  <2>4. Asking' = Asking \ {a} /\ a \in Asking
      BY <1>0, <2>3 DEF Asking, StepType
  <2>5. IsFiniteSet(Asking') /\ Cardinality(Asking') = Cardinality(Asking) - 1
      BY <2>4, FS_RemoveElement DEF ServedInv, CountTypes
  <2>6. IsFiniteSet(entering') /\ Cardinality(entering') = Cardinality(entering) + 1
      BY <2>3, FS_AddElement DEF ServedInv, CountTypes
  <2>7. CountTypes'
      BY <1>0, <2>3, <2>5, <2>6 DEF ServedInv, CountTypes, StepType
  <2>8. Served => Served'
      BY <2>3, <2>5, <2>6, FS_CardinalityType DEF Served, ServedInv, CountTypes
  <2>9. \A b \in Actor : Launched(b)'
      BY <1>0, <1>1, <2>2, <2>3 DEF ServedInv, Launched, StepType
  <2>10. QED BY <1>1, <2>3, <2>7, <2>8, <2>9 DEF ServedInv, Undisturbed
<1>4. QED BY <1>2, <1>3

\* The ocall returns.  If it has failed, its object leaves the queue, or is one for which nobody comes.
LEMMA ReturnCounts ==
    ASSUME ListInv, ServedInv, RunInv, FateInv, [H!Next]_hostVars, NEW a \in Actor, CreateReturn(a)
    PROVE  ServedInv'
<1> USE ActorAssumption DEF Goto, At
<1>0. /\ place \in [Actor -> H!Places] /\ StepType /\ queue \in Seq(Pthread) /\ H!TypeOK
      /\ created \in [Actor -> {"none", "true", "false"}]
    BY DEF ListInv, H!TypeOK, H!Actor, Actor, ServedInv, CountTypes
<1>1. place[a] = "ocall_end" /\ H!OcallReturn(a) /\ HostOnly
    BY DEF CreateReturn, HostOnly
<1>2. /\ destructed' = destructed /\ created' = created
      /\ \A w \in Worker : "Canceling" \in cancelState[w] => "Canceling" \in cancelState'[w]
    BY <1>0, <1>1, DisturbedStays DEF H!OcallReturn, H!mutexes
<1>3. /\ place'[a] # "ocall_end" /\ place'[a] # "create_assign"
      /\ \A b \in Actor : b # a => place'[b] = place[b]
    BY <1>0, <1>1 DEF H!OcallReturn, H!Goto, H!SetCancelable
<1>4. ASSUME NEW l, step' = [step EXCEPT ![a] = l], CountTypes', Undisturbed => Undisturbed,
             Undisturbed' => Served'
      PROVE  ServedInv'
    BY <1>0, <1>2, <1>3, <1>4 DEF ServedInv, Launched, StepType
<1>5. CASE UNCHANGED enclaveVars
    BY <1>1, <1>5, HostOnlyCounts
<1>6. CASE created[a] = "true" /\ OcallTrue(a)
  <2>1. /\ step[a] \in {"create_ocall", "create_launched"} /\ step' = [step EXCEPT ![a] = "create_wait"]
        /\ UNCHANGED <<queue, entering>> /\ Lost' = Lost
      BY <1>6 DEF OcallTrue, failures, Lost
  <2>2. step[a] = "create_ocall" => destructed
      BY <1>1, <1>6 DEF ServedInv, Launched
  <2>3. Asking' = Asking \ {a}
      BY <1>0, <2>1 DEF Asking, StepType
  <2>4. IsFiniteSet(Asking')
      BY <2>3, FS_Subset DEF ServedInv, CountTypes
  <2>5. CountTypes'
      BY <1>0, <2>1, <2>4 DEF ServedInv, CountTypes, StepType
  <2>6. ASSUME Undisturbed' PROVE Served'
    <3>1. Undisturbed /\ ~destructed
        BY <1>2, <2>6 DEF Undisturbed
    <3>2. Asking' = Asking
        BY <2>1, <2>2, <2>3, <3>1 DEF Asking
    <3>3. QED BY <2>1, <3>1, <3>2 DEF ServedInv, Served
  <2>7. QED BY <1>4, <2>1, <2>5, <2>6
<1>7. CASE OcallFalse(a) \/ OcallFalseCanceled(a)
  <2>1. /\ step[a] = "create_ocall" /\ entering' = entering
        /\ \E l \in {"app", "exit_wait"} : step' = [step EXCEPT ![a] = l]
      BY <1>7 DEF OcallFalse, OcallFalseCanceled
  <2>2. target[a] \notin Lost
      BY <2>1 DEF FateInv, Call, Creating, Lost
  <2>3. /\ queue' \in Seq(Pthread)
        /\ \/ Len(queue') = Len(queue) /\ Lost' = Lost \cup {target[a]}
           \/ Len(queue') = Len(queue) - 1 /\ Lost' = Lost
    <3>1. CASE OcallFalse(a)
      <4>1. /\ queue' \in Seq(Pthread)
            /\ Len(queue') = IF InQueue(target[a]) THEN Len(queue) - 1 ELSE Len(queue)
          BY <3>1, RefuseRuns DEF RunInv, EnclaveTypeOK
      <4>2. Lost' = IF InQueue(target[a]) THEN Lost ELSE Lost \cup {target[a]}
          BY <3>1 DEF OcallFalse, Lost
      <4>3. QED BY <4>1, <4>2
    <3>2. CASE OcallFalseCanceled(a)
        BY <1>0, <3>2 DEF OcallFalseCanceled, Lost
    <3>3. QED BY <1>7, <3>1, <3>2
  <2>4. Asking' = Asking \ {a} /\ a \in Asking
      BY <1>0, <2>1 DEF Asking, StepType
  <2>5. IsFiniteSet(Asking') /\ Cardinality(Asking') = Cardinality(Asking) - 1
      BY <2>4, FS_RemoveElement DEF ServedInv, CountTypes
  <2>6. /\ IsFiniteSet(Lost')
        /\ \/ Len(queue') = Len(queue) /\ Cardinality(Lost') = Cardinality(Lost) + 1
           \/ Len(queue') = Len(queue) - 1 /\ Cardinality(Lost') = Cardinality(Lost)
      BY <2>2, <2>3, FS_AddElement DEF ServedInv, CountTypes
  <2>7. CountTypes'
      BY <1>0, <2>1, <2>3, <2>5, <2>6 DEF ServedInv, CountTypes, StepType
  <2>8. Served => Served'
    <3>1. /\ Cardinality(Asking) \in Nat /\ Cardinality(Lost) \in Nat /\ Cardinality(entering) \in Nat
          /\ Len(queue) \in Nat
        BY <1>0, FS_CardinalityType DEF ServedInv, CountTypes
    <3>2. QED BY <2>1, <2>5, <2>6, <3>1 DEF Served
  <2>9. ASSUME Undisturbed' PROVE Served'
      BY <1>2, <2>8, <2>9 DEF ServedInv, Undisturbed
  <2>10. QED BY <1>4, <2>1, <2>7, <2>9
<1>8. QED BY <1>5, <1>6, <1>7 DEF CreateReturn

\* Every action of the system keeps the counts.
LEMMA ServedNext ==
    ASSUME ListInv, ServedInv, IInv, RunInv, FateInv, [Next]_vars
    PROVE  ServedInv'
<1>1. CASE UNCHANGED vars
  <2>1. UNCHANGED hostVars /\ UNCHANGED enclaveVars
      BY <1>1 DEF vars
  <2>2. QED BY <2>1, HostOnlyCounts DEF HostOnly
<1>2. CASE Next
  <2>0. [H!Next]_hostVars
      BY <1>2, HostStep
  <2>1. ASSUME NEW a \in Actor, CreateBegin(a) PROVE ServedInv'
      BY <2>0, <2>1, HostOnlyCounts DEF HostOnly, CreateBegin
  <2>2. ASSUME NEW a \in Actor, CreateThread(a) PROVE ServedInv'
      BY <2>0, <2>2, HostOnlyCounts DEF HostOnly, CreateThread
  <2>3. ASSUME NEW w \in Worker, Ocall(w) \/ OtherOcallReturn(w) \/ Canceled(w) \/ Finish(w) PROVE ServedInv'
      BY <2>0, <2>3, HostOnlyCounts DEF HostOnly, Ocall, OtherOcallReturn, Canceled, Finish, Actor
  <2>4. CASE Terminate
      BY <2>0, <2>4, HostOnlyCounts DEF HostOnly, Terminate
  <2>5. QED BY <1>2, <2>0, <2>1, <2>2, <2>3, <2>4, EnclaveCounts, WorkCounts, StartCounts, ReturnCounts DEF Next
<1>3. QED BY <1>1, <1>2
-----------------------------------------------------------------------------
(* The system's properties. *)

\* pthread_cancel never hits a thread that is inside the enclave, however its
\* program creates, joins and detaches threads (cancel_all_threads, 151).
THEOREM SystemNeverCanceledInEnclave == Spec => []NotCanceledInEnclave
BY ImplementsThreadManager, NeverCanceledInEnclave, PTL DEF NotCanceledInEnclave

\* When join_all_threads or cancel_all_threads has joined its list, no thread
\* of the enclave is left, whichever threads have been created meanwhile.
THEOREM SystemNoneOutlives == Spec => []NoneOutlives
BY ImplementsThreadManager, Survivors, PTL DEF NoneOutlives

\* join_all_threads and the destructor meet a Thread that has no std::thread
\* only if create_thread has failed and left it in the list.
THEOREM SystemAssignedBeforeJoined == Spec => []AssignedBeforeJoined
BY ImplementsThreadManager, Assigned, PTL DEF AssignedBeforeJoined
-----------------------------------------------------------------------------
(* Who runs and who deletes an object is proved of the enclave's threads     *)
(* under any host that starts a thread for an ocall, or none.  Each step of  *)
(* the system is one of theirs or leaves them alone.                         *)

\* Seen from the enclave, the host only decides how an ocall ends, and the end
\* of the process when a join does.
LEMMA EnclaveStep ==
    ASSUME ListInv, [Next]_vars
    PROVE  [ProcessNext]_enclaveVars
<1> USE DEF ProcessNext, EnclaveNext
<1>0. Actor = Actor
    BY DEF Actor
<1>1. ASSUME UNCHANGED enclaveVars PROVE UNCHANGED enclaveVars
    BY <1>1 DEF enclaveVars, objects, threads
<1>2. ASSUME NEW a \in Actor, Create(a) PROVE ProcessNext
    BY <1>0, <1>2 DEF Create
<1>3. ASSUME NEW a \in Actor, Join(a) \/ DetachOne(a) PROVE ProcessNext
  <2>1. JoinEnd(a, exiting) => JoinEnd(a, TRUE)
      BY DEF JoinEnd
  <2>2. QED BY <1>0, <1>3, <2>1 DEF Join, DetachOne
<1>4. ASSUME NEW w \in Worker, Work(w) PROVE ProcessNext
    BY <1>4 DEF Work
<1>5. ASSUME NEW a \in Actor, CreateStart(a) PROVE UNCHANGED enclaveVars \/ ProcessNext
  <2>1. new[a] \in Worker
      BY <1>0, <1>5 DEF CreateStart, H!CreateStart, ListInv, Made, Making, H!TypeOK, H!Actor, Actor
  <2>2. CASE new'[a] = None
      BY <1>5, <2>2 DEF CreateStart
  <2>3. CASE new'[a] # None
    <3>1. Launch(a, new[a])
        BY <1>5, <2>3 DEF CreateStart
    <3>2. QED BY <1>0, <2>1, <3>1
  <2>4. QED BY <2>2, <2>3
<1>6. ASSUME NEW a \in Actor, CreateReturn(a) PROVE UNCHANGED enclaveVars \/ ProcessNext
    BY <1>0, <1>6 DEF CreateReturn
<1>7. ASSUME NEW a \in Actor, CreateBegin(a) \/ CreateThread(a) PROVE UNCHANGED enclaveVars
    BY <1>7 DEF CreateBegin, CreateThread
<1>8. ASSUME NEW w \in Worker, Ocall(w) \/ OtherOcallReturn(w) \/ Canceled(w) \/ Finish(w)
      PROVE  UNCHANGED enclaveVars
    BY <1>8 DEF Ocall, OtherOcallReturn, Canceled, Finish
<1>9. CASE Terminate
    BY <1>1, <1>9 DEF Terminate
<1>10. CASE UNCHANGED vars
    BY <1>1, <1>10 DEF vars
<1> HIDE DEF ProcessNext, EnclaveNext
<1>11. QED BY <1>1, <1>2, <1>3, <1>4, <1>5, <1>6, <1>7, <1>8, <1>9, <1>10 DEF Next

\* The ocall of pthread_create and ert_create_thread_ecall: seen from the
\* enclave, the system is its threads in a process.
THEOREM ImplementsEnclaveThreads == Spec => EnclaveInit /\ [][ProcessNext]_enclaveVars
<1>1. Init => EnclaveInit /\ ListInv
    BY ManagerInit DEF Init
<1>2. IInv /\ ListInv /\ [Next]_vars => IInv' /\ ListInv' /\ [ProcessNext]_enclaveVars
  <2>1. ASSUME IInv, ListInv, [Next]_vars PROVE ListInv'
    <3>1. [H!Next]_(H!hostVars)
        BY <2>1, HostStep DEF vars, hostVars, H!hostVars, H!mutexes, H!flags, H!loop
    <3>2. QED BY <2>1, <3>1, ManagerNext
  <2>2. QED BY <2>1, StepInvariant, EnclaveStep
<1>3. QED BY <1>1, <1>2, InvariantInit, PTL DEF Spec

\* pthread_create queues an object and waits until a thread has taken one: unless
\* the host cancels threads or the process exits, there is a thread on its way,
\* or an ocall under way, for each queued object but those that failing ocalls
\* have left over.
THEOREM CreatorsServed == Spec => []CreatorServed
<1> DEFINE Inv == IInv /\ ListInv /\ RunInv /\ Enough /\ FateInv /\ ServedInv
<1>1. Init => Inv
  <2>1. Init => IInv /\ ListInv /\ RunInv /\ Enough /\ FateInv
      BY InvariantInit, ManagerInit, RunInit, FateInit DEF Init
  <2>2. ASSUME Init PROVE ServedInv
    <3>1. /\ queue = <<>> /\ entering = {} /\ Asking = {} /\ StepType /\ Lost = {}
          /\ \A a \in Actor : place[a] \in {"idle", "none"}
        BY <2>2 DEF Init, EnclaveInit, H!Init, Asking, StepType, Actor, H!Actor, Lost
    <3>2. QED BY <3>1, FS_EmptySet DEF ServedInv, CountTypes, Launched, Served
  <2>3. QED BY <2>1, <2>2
<1>2. Inv /\ [Next]_vars => Inv'
  <2>1. ASSUME Inv, [Next]_vars PROVE ListInv'
    <3>1. [H!Next]_(H!hostVars)
        BY <2>1, HostStep DEF vars, hostVars, H!hostVars, H!mutexes, H!flags, H!loop
    <3>2. QED BY <2>1, <3>1, ManagerNext
  <2>2. ASSUME Inv, [Next]_vars PROVE RunInv' /\ Enough' /\ FateInv'
    <3>1. [ProcessNext]_enclaveVars
        BY <2>2, EnclaveStep
    <3>2. RunInv' /\ Enough'
        BY <2>2, <3>1, RunNext, EnoughNext
    <3>3. QED BY <2>2, <3>1, <3>2, FateNext
  <2>3. QED BY <2>1, <2>2, StepInvariant, ServedNext
<1>3. Inv => CreatorServed
  <2>1. Lost = robbed \cup orphaned
      BY DEF Lost
  <2>2. QED BY <2>1 DEF ServedInv, Undisturbed, Served, Asking, CreatorServed
<1> HIDE DEF Inv
<1>4. QED BY <1>1, <1>2, <1>3, PTL DEF Spec

\* The types of both sides: what is in the queue waits to be run.
THEOREM SystemTypes == Spec => []TypeOK
<1>1. H!Spec => []H!TypeOK
  <2>1. H!Init => ListInv
      BY ManagerInit
  <2>2. ListInv /\ [H!Next]_(H!hostVars) => ListInv'
      BY ManagerNext
  <2>3. ListInv => H!TypeOK
      BY DEF ListInv
  <2>4. QED BY <2>1, <2>2, <2>3, PTL DEF H!Spec
<1>2. QED BY <1>1, ImplementsThreadManager, ImplementsEnclaveThreads, ProcessTypes, PTL DEF TypeOK

\* However the host answers the ocalls and whenever the process exits, no
\* thread enters the enclave without an object, and no object is run twice.
THEOREM SystemRunsOnce == Spec => []RunOnce
BY ImplementsEnclaveThreads, ProcessRunsOnce, PTL

\* Nor is an object deleted while somebody uses it, but for the two ways that
\* DeletedLast names: a join that ends because the process exits is not a third.
THEOREM SystemFreesLast == Spec => []DeletedLast
BY ImplementsEnclaveThreads, ProcessFreesLast, PTL
=============================================================================
