--------------------------- MODULE ErtFutexProofs ---------------------------
(***************************************************************************)
(* ErtFutex, for any number of threads and words: the list is exact, no    *)
(* wake-up and, while a wake can take all waiters, no change of a word is  *)
(* missed; the list in the enclave and the counters on the host are        *)
(* together a futex.                                                       *)
(***************************************************************************)
EXTENDS ErtFutex, ListProofs, FiniteSetTheorems
-----------------------------------------------------------------------------
(* The invariant *)

Entry == [thread : Thread, uaddr : Addr]
Labels == InWait \cup {"idle", "changed", "wake_add", "wake_syscall", "ended"}
PlaceTypes == /\ pc \in [Thread -> Labels] /\ event \in [Thread -> Int]
              /\ \A t \in Thread : event[t] >= (IF pc[t] \in Sleeping THEN -1 ELSE 0)
OtherTypes == /\ list \in Seq(Entry) /\ word \in [Addr -> {0, 1}]
              /\ val \in [Thread -> {0, 1, None}] /\ uaddr \in [Thread -> Addr \cup {None}]
              /\ tcs \in [Thread -> Seq(Thread)]
HistoryTypes == /\ timedout \in [Thread -> BOOLEAN] /\ cancel \in [Thread -> BOOLEAN]
                /\ popped \in [Thread -> BOOLEAN]

Distinct(l) == \A i, j \in DOMAIN l : l[i].thread = l[j].thread => i = j

\* What a thread's place in the code says of it.
Called(t) ==
    /\ Listed(t) <=> pc[t] \in InWait /\ ~popped[t]
    /\ popped[t] => pc[t] \in InWait
    /\ tcs[t] # <<>> <=> pc[t] \in {"wake_add", "wake_syscall"}
    /\ pc[t] = "changed" => uaddr[t] \in Addr
    /\ pc[t] \in InWait => t \in Waiter

\* A waker has still to count a wake-up for t.
Owed(t) ==
    \E u \in Thread : \E i \in DOMAIN tcs[u] : tcs[u][i] = t /\ (i = 1 => pc[u] = "wake_add")

\* A woken thread's counter tells it, unless a waker has still to count it.
Paid(t) == popped[t] /\ ~Owed(t) => /\ pc[t] = "ocall" => event[t] >= 1
                                    /\ pc[t] \in Sleeping => event[t] >= 0

\* Whoever counted a wake-up while t sleeps is about to call FUTEX_WAKE.
Roused(t) == pc[t] = "asleep" /\ event[t] # -1
                => \E u \in Thread : pc[u] = "wake_syscall" /\ tcs[u][1] = t

ListInv == PlaceTypes /\ OtherTypes /\ HistoryTypes /\ Distinct(list) /\ \A t \in Thread : Called(t)
FutexInv == ListInv /\ \A t \in Thread : Paid(t) /\ Roused(t)
-----------------------------------------------------------------------------
(* Lists of waiting threads *)

LEMMA FilteredList ==
    ASSUME NEW l \in Seq(Entry), Distinct(l), NEW S
    PROVE  /\ Filter(l, S) \in Seq(Entry) /\ Distinct(Filter(l, S))
           /\ \A e : (\E i \in DOMAIN Filter(l, S) : Filter(l, S)[i] = e)
                        <=> e \in S /\ \E i \in DOMAIN l : l[i] = e
<1>1. /\ Filter(l, S) \in Seq(Entry)
      /\ \E at : From(at, Filter(l, S), Len(l), l, S)
    BY FilterKeeps
<1>2. PICK at : From(at, Filter(l, S), Len(l), l, S)
    BY <1>1
<1>3. \A e : (\E i \in 1 .. Len(Filter(l, S)) : Filter(l, S)[i] = e)
                <=> e \in S /\ \E i \in 1 .. Len(l) : l[i] = e
    BY FilterEntries
<1>4. DOMAIN l = 1 .. Len(l) /\ DOMAIN Filter(l, S) = 1 .. Len(Filter(l, S))
    BY <1>1
<1> DEFINE m == Filter(l, S)
<1>5. m \in Seq(Entry) /\ Len(m) \in Nat
    BY <1>1
<1>6. /\ at \in [1 .. Len(m) -> 1 .. Len(l)]
      /\ \A j \in 1 .. Len(m) : m[j] = l[at[j]]
      /\ \A j, k \in 1 .. Len(m) : j < k => at[j] < at[k]
    BY <1>2 DEF From
<1>7. Distinct(m)
  <2> HIDE DEF m
  <2>1. SUFFICES ASSUME NEW i \in 1 .. Len(m), NEW j \in 1 .. Len(m), m[i].thread = m[j].thread
                 PROVE  i = j
      BY <1>5 DEF Distinct
  <2>2. at[i] = at[j]
      BY <1>4, <1>6, <2>1 DEF Distinct
  <2>3. ~(i < j) /\ ~(j < i)
      BY <1>6, <2>2
  <2>4. QED BY <2>3, <1>5
<1>8. QED BY <1>1, <1>3, <1>4, <1>7

\* Filter leaves no more entries than there were.  The first n of l are an initial part.
LEMMA Threads ==
    ASSUME NEW l \in Seq(Entry), Distinct(l)
    PROVE  LET W == {l[i].thread : i \in DOMAIN l}
           IN  W \in SUBSET Thread /\ IsFiniteSet(W) /\ Cardinality(W) = Len(l)
<1> DEFINE W == {l[i].thread : i \in DOMAIN l}
           f == [i \in 1 .. Len(l) |-> l[i].thread]
<1>1. Len(l) \in Nat /\ DOMAIN l = 1 .. Len(l)
    OBVIOUS
<1>2. ASSUME NEW i \in 1 .. Len(l) PROVE l[i].thread \in Thread
  <2>1. l[i] \in Entry
      OBVIOUS
  <2>2. QED BY <2>1 DEF Entry
<1>3. f \in Bijection(1 .. Len(l), W)
  <2>1. f \in [1 .. Len(l) -> W] /\ \A i, j \in 1 .. Len(l) : f[i] = f[j] => i = j
      BY <1>1 DEF Distinct
  <2>2. \A w \in W : \E i \in 1 .. Len(l) : f[i] = w
      BY <1>1
  <2> HIDE DEF f, W
  <2>3. QED BY <2>1, <2>2 DEF Bijection, Injection, Surjection, IsInjective
<1>4. ExistsBijection(1 .. Len(l), W)
    BY <1>3 DEF ExistsBijection
<1>5. IsFiniteSet(1 .. Len(l)) /\ Cardinality(1 .. Len(l)) = Len(l)
    BY <1>1, FS_Interval
<1> HIDE DEF f, W
<1>6. IsFiniteSet(W) /\ Cardinality(W) = Len(l)
    BY <1>4, <1>5, FS_Bijection
<1>7. W \in SUBSET Thread
    BY <1>1, <1>2 DEF W
<1>8. QED BY <1>6, <1>7 DEF W

\* Without leaves the others.
LEMMA WithoutList ==
    ASSUME NEW l \in Seq(Entry), Distinct(l), NEW T
    PROVE  /\ Without(l, T) \in Seq(Entry) /\ Distinct(Without(l, T))
           /\ \A e : (\E i \in DOMAIN Without(l, T) : Without(l, T)[i] = e)
                        <=> e.thread \notin T /\ \E i \in DOMAIN l : l[i] = e
<1>1. ASSUME NEW i \in DOMAIN l
      PROVE  l[i] \in [thread : Thread \ T, uaddr : Addr] <=> l[i].thread \notin T
  <2>1. l[i] \in Entry
      OBVIOUS
  <2>2. QED BY <2>1 DEF Entry
<1> DEFINE S == [thread : Thread \ T, uaddr : Addr]
<1>2. /\ Filter(l, S) \in Seq(Entry) /\ Distinct(Filter(l, S))
      /\ \A e : (\E i \in DOMAIN Filter(l, S) : Filter(l, S)[i] = e)
                   <=> e \in S /\ \E i \in DOMAIN l : l[i] = e
  <2> HIDE DEF S
  <2>1. QED BY FilteredList
<1>3. Without(l, T) = Filter(l, S)
    BY DEF Without
<1> HIDE DEF S
<1>4. ASSUME NEW e
      PROVE  (e \in S /\ \E i \in DOMAIN l : l[i] = e)
                <=> e.thread \notin T /\ \E i \in DOMAIN l : l[i] = e
    BY <1>1 DEF S
<1>5. QED BY <1>2, <1>3, <1>4

-----------------------------------------------------------------------------
(* What _wake does *)

Waiting(a) == {u \in Thread : WaitingOn(u, a)}
Most(n) == IF n < MaxWake THEN n ELSE MaxWake

\* W are as many as asked for of those that wait on a, or all.
Enough(W, a, n) == \/ W = Waiting(a) /\ Cardinality(W) <= Most(n)
                   \/ Cardinality(W) = Most(n) /\ Most(n) < Cardinality(Waiting(a))

LEMMA Chosen ==
    ASSUME list \in Seq(Entry), Distinct(list), NEW a \in Addr, NEW n \in Nat
    PROVE  LET w == Waiters(a, n)
               W == {w[i].thread : i \in DOMAIN w}
           IN  /\ w \in Seq(Entry) /\ W \in SUBSET Waiting(a) /\ IsFiniteSet(Waiting(a))
               /\ Enough(W, a, n)
<1> DEFINE S == [thread : Thread, uaddr : {a}]
           waiting == Filter(list, S)
           w == Waiters(a, n)
           W == {w[i].thread : i \in DOMAIN w}
           Q == {waiting[i].thread : i \in DOMAIN waiting}
<1>1. /\ waiting \in Seq(Entry) /\ Distinct(waiting)
      /\ \A e : (\E i \in DOMAIN waiting : waiting[i] = e)
                   <=> e \in S /\ \E i \in DOMAIN list : list[i] = e
  <2> HIDE DEF S
  <2>1. /\ Filter(list, S) \in Seq(Entry) /\ Distinct(Filter(list, S))
      BY FilteredList
  <2>2. \A e : (\E i \in DOMAIN Filter(list, S) : Filter(list, S)[i] = e)
                   <=> e \in S /\ \E i \in DOMAIN list : list[i] = e
      BY FilteredList
  <2>3. QED BY <2>1, <2>2
<1>2. w = IF Len(waiting) <= Most(n) THEN waiting ELSE SubSeq(waiting, 1, Most(n))
    BY DEF Waiters, Most
<1>3. Most(n) \in Nat
    BY FutexAssumption DEF Most
<1> HIDE DEF waiting, w
<1>4. ASSUME NEW u PROVE u \in Q <=> u \in Waiting(a)
  <2>1. ASSUME NEW i \in DOMAIN waiting, u = waiting[i].thread PROVE u \in Waiting(a)
    <3>1. waiting[i] \in S /\ \E j \in DOMAIN list : list[j] = waiting[i]
        BY <1>1
    <3>2. u \in Thread /\ waiting[i] = Info(u, a)
        BY <2>1, <3>1 DEF Info
    <3>3. QED BY <3>1, <3>2 DEF Waiting, WaitingOn
  <2>2. ASSUME u \in Waiting(a) PROVE u \in Q
    <3>1. Info(u, a) \in S /\ \E j \in DOMAIN list : list[j] = Info(u, a)
        BY <2>2 DEF Waiting, WaitingOn, Info
    <3>2. PICK i \in DOMAIN waiting : waiting[i] = Info(u, a)
        BY <3>1, <1>1
    <3>3. waiting[i].thread = u
        BY <3>2 DEF Info
    <3>4. QED BY <3>3
  <2>3. QED BY <2>1, <2>2
<1>5. Q = Waiting(a)
  <2> HIDE DEF Q
  <2>1. QED BY <1>4
<1>6. IsFiniteSet(Q) /\ Cardinality(Q) = Len(waiting)
    BY <1>1, Threads
<1>7. CASE Len(waiting) <= Most(n)
  <2>1. w = waiting /\ W = Q
      BY <1>2, <1>7
  <2> HIDE DEF Q, W
  <2>2. QED BY <2>1, <1>1, <1>5, <1>6, <1>7 DEF Enough, W, w
<1>8. CASE ~(Len(waiting) <= Most(n))
  <2>1. w = SubSeq(waiting, 1, Most(n))
      BY <1>2, <1>8
  <2>2. /\ w \in Seq(Entry) /\ Len(w) = Most(n) /\ Most(n) < Len(waiting)
        /\ \A i \in 1 .. Most(n) : w[i] = waiting[i]
      BY <2>1, <1>1, <1>3, <1>8
  <2>3. DOMAIN w = 1 .. Most(n) /\ DOMAIN waiting = 1 .. Len(waiting) /\ Len(waiting) \in Nat
      BY <2>2, <1>1, <1>3
  <2>4. Distinct(w)
      BY <2>2, <2>3, <1>1, <1>3 DEF Distinct
  <2>5. W \in SUBSET Q
      BY <2>2, <2>3, <1>3
  <2>6. Cardinality(W) = Most(n)
      BY <2>2, <2>4, Threads
  <2> HIDE DEF Q, W
  <2>7. QED BY <2>2, <2>5, <2>6, <1>5, <1>6 DEF Enough, W, w
<1>9. QED BY <1>7, <1>8

\* The effect of Wake: it takes W off the list, who wait on a, and remembers them in q.
Wakes(t, a, a2, W, q) ==
    /\ list' \in Seq(Entry) /\ Distinct(list')
    /\ \A u \in Thread, b \in Addr :
          WaitingOn(u, b)' <=> u \notin W /\ IF WaitingOn(u, a) THEN b = a2 ELSE WaitingOn(u, b)
    /\ W \in SUBSET Waiting(a)
    /\ q \in Seq(Thread) /\ W = {q[i] : i \in DOMAIN q}
    /\ tcs' = [tcs EXCEPT ![t] = q]
    /\ popped' = [u \in Thread |-> popped[u] \/ u \in W]
    /\ pc' = [pc EXCEPT ![t] = IF q = <<>> THEN "idle" ELSE "wake_add"]
    /\ uaddr' = [uaddr EXCEPT ![t] = None]
    /\ val' = [u \in Thread |-> IF a # a2 /\ WaitingOn(u, a) /\ u \notin W THEN None ELSE val[u]]
    /\ UNCHANGED <<word, event, timedout, cancel>>

LEMMA WakeEffect ==
    ASSUME list \in Seq(Entry), Distinct(list), NEW t \in Thread, NEW a \in Addr, NEW n \in Nat,
           NEW a2 \in Addr, Wake(t, a, n, a2)
    PROVE  \E W \in SUBSET Thread : \E q \in Seq(Thread) : Wakes(t, a, a2, W, q) /\ Enough(W, a, n)
<1> DEFINE w == Waiters(a, n)
           W == {w[i].thread : i \in DOMAIN w}
           q == [i \in DOMAIN w |-> w[i].thread]
           rest == Without(list, W)
<1>1. w \in Seq(Entry) /\ W \in SUBSET Waiting(a) /\ Enough(W, a, n)
    BY Chosen
<1>2. /\ list' = IF a = a2 THEN rest
                 ELSE [i \in DOMAIN rest |->
                          IF rest[i].uaddr = a THEN Info(rest[i].thread, a2) ELSE rest[i]]
      /\ popped' = [u \in Thread |-> popped[u] \/ u \in W]
      /\ tcs' = [tcs EXCEPT ![t] = q]
      /\ pc' = [pc EXCEPT ![t] = IF w = <<>> THEN "idle" ELSE "wake_add"]
      /\ uaddr' = [uaddr EXCEPT ![t] = None]
      /\ val' = [u \in Thread |-> IF a # a2 /\ WaitingOn(u, a) /\ u \notin W THEN None ELSE val[u]]
      /\ UNCHANGED <<word, event, timedout, cancel>>
    BY DEF Wake, Goto
<1> HIDE DEF w
<1>3. /\ q \in Seq(Thread) /\ W = {q[i] : i \in DOMAIN q} /\ (w = <<>> <=> q = <<>>)
  <2>1. ASSUME NEW i \in DOMAIN w PROVE w[i].thread \in Thread
    <3>1. w[i] \in Entry
        BY <1>1
    <3>2. QED BY <3>1 DEF Entry
  <2>2. DOMAIN w = 1 .. Len(w) /\ Len(w) \in Nat /\ (w = <<>> <=> Len(w) = 0)
      BY <1>1
  <2>3. q \in Seq(Thread) /\ Len(q) = Len(w)
      BY <2>1, <2>2
  <2>4. w = <<>> <=> q = <<>>
      BY <2>2, <2>3
  <2>5. DOMAIN q = DOMAIN w
      OBVIOUS
  <2>6. \A i \in DOMAIN w : q[i] = w[i].thread
      OBVIOUS
  <2> HIDE DEF q
  <2>7. W = {q[i] : i \in DOMAIN q}
      BY <2>5, <2>6
  <2>8. QED BY <2>3, <2>4, <2>7
<1>4. W \in SUBSET Thread
    BY <1>1 DEF Waiting
<1> HIDE DEF W, q
<1>5. /\ rest \in Seq(Entry) /\ Distinct(rest)
      /\ \A e : (\E i \in DOMAIN rest : rest[i] = e)
                   <=> e.thread \notin W /\ \E i \in DOMAIN list : list[i] = e
  <2>1. rest \in Seq(Entry) /\ Distinct(rest)
      BY WithoutList
  <2>2. \A e : (\E i \in DOMAIN rest : rest[i] = e)
                  <=> e.thread \notin W /\ \E i \in DOMAIN list : list[i] = e
      BY WithoutList
  <2>3. QED BY <2>1, <2>2
<1> HIDE DEF rest
<1>6. \A u \in Thread, b \in Addr : Info(u, b).thread = u /\ Info(u, b).uaddr = b /\ Info(u, b) \in Entry
    BY DEF Info, Entry
<1>7. ASSUME NEW i \in DOMAIN rest
      PROVE  /\ rest[i] \in Entry /\ rest[i].thread \in Thread /\ rest[i].uaddr \in Addr
             /\ rest[i] = Info(rest[i].thread, rest[i].uaddr)
             /\ list'[i] = Info(rest[i].thread, IF rest[i].uaddr = a THEN a2 ELSE rest[i].uaddr)
  <2>1. rest[i] \in Entry
      BY <1>5
  <2>2. /\ rest[i].thread \in Thread /\ rest[i].uaddr \in Addr
        /\ rest[i] = Info(rest[i].thread, rest[i].uaddr)
      BY <2>1 DEF Entry, Info
  <2>3. QED BY <2>1, <2>2, <1>2
<1>8. DOMAIN list' = DOMAIN rest /\ list' \in Seq(Entry)
  <2>1. CASE a = a2
      BY <2>1, <1>2, <1>5
  <2>2. CASE a # a2
    <3>1. DOMAIN list' = DOMAIN rest /\ \A i \in DOMAIN rest : list'[i] \in Entry
        BY <2>2, <1>2, <1>6, <1>7
    <3>2. DOMAIN rest = 1 .. Len(rest) /\ Len(rest) \in Nat
        BY <1>5
    <3>3. list' = [i \in 1 .. Len(rest) |-> list'[i]]
        BY <2>2, <3>2, <1>2
    <3>4. QED BY <3>1, <3>2, <3>3
  <2>3. QED BY <2>1, <2>2
<1>9. Distinct(list')
    BY <1>5, <1>6, <1>7, <1>8 DEF Distinct
<1>10. ASSUME NEW u \in Thread, NEW b \in Addr
       PROVE  WaitingOn(u, b)' <=> u \notin W /\ IF WaitingOn(u, a) THEN b = a2 ELSE WaitingOn(u, b)
  <2>1. \A c \in Addr : (\E i \in DOMAIN rest : rest[i] = Info(u, c)) <=> u \notin W /\ WaitingOn(u, c)
      BY <1>5, <1>6 DEF WaitingOn
  <2>2. \A c, d \in Addr : WaitingOn(u, c) /\ WaitingOn(u, d) => c = d
    <3>1. SUFFICES ASSUME NEW c \in Addr, NEW d \in Addr, NEW i \in DOMAIN list, NEW j \in DOMAIN list,
                          list[i] = Info(u, c), list[j] = Info(u, d)
                   PROVE  c = d
        BY DEF WaitingOn
    <3>2. i = j
        BY <3>1, <1>6 DEF Distinct
    <3>3. Info(u, c) = Info(u, d)
        BY <3>1, <3>2
    <3>4. Info(u, c).uaddr = Info(u, d).uaddr
        BY <3>3
    <3>5. QED BY <3>4, <1>6
  <2>3. WaitingOn(u, b)' <=> \E i \in DOMAIN rest : list'[i] = Info(u, b)
      BY <1>8 DEF WaitingOn, Info
  <2>4. ASSUME NEW i \in DOMAIN rest, list'[i] = Info(u, b)
        PROVE  u \notin W /\ IF WaitingOn(u, a) THEN b = a2 ELSE WaitingOn(u, b)
    <3>1. /\ rest[i].thread = u /\ rest[i].uaddr \in Addr
          /\ b = IF rest[i].uaddr = a THEN a2 ELSE rest[i].uaddr
        BY <2>4, <1>6, <1>7
    <3>2. u \notin W /\ WaitingOn(u, rest[i].uaddr)
        BY <3>1, <1>7, <2>1
    <3>3. QED BY <3>1, <3>2, <2>2
  <2>5. ASSUME u \notin W, IF WaitingOn(u, a) THEN b = a2 ELSE WaitingOn(u, b)
        PROVE  \E i \in DOMAIN rest : list'[i] = Info(u, b)
    <3>1. PICK c \in Addr : WaitingOn(u, c) /\ b = (IF c = a THEN a2 ELSE c)
        BY <2>5
    <3>2. PICK i \in DOMAIN rest : rest[i] = Info(u, c)
        BY <3>1, <2>1, <2>5
    <3>3. list'[i] = Info(u, b)
        BY <3>1, <3>2, <1>6, <1>7
    <3>4. QED BY <3>3
  <2>6. QED BY <2>3, <2>4, <2>5
<1>11. pc' = [pc EXCEPT ![t] = IF q = <<>> THEN "idle" ELSE "wake_add"]
    BY <1>2, <1>3
<1>12. Wakes(t, a, a2, W, q)
    BY <1>1, <1>2, <1>3, <1>8, <1>9, <1>10, <1>11 DEF Wakes
<1>13. QED BY <1>1, <1>3, <1>4, <1>12

-----------------------------------------------------------------------------
(* Types, and the list *)

LEMMA FutexInit == Init => FutexInv
<1> SUFFICES ASSUME Init PROVE FutexInv
    OBVIOUS
<1>1. list = <<>> /\ DOMAIN list = {}
    BY DEF Init
<1>2. HistoryTypes
    BY Zenon DEF Init, HistoryTypes
<1>3. PlaceTypes
    BY DEF Init, PlaceTypes, Labels, InWait, Sleeping
<1>4. OtherTypes
    BY DEF Init, OtherTypes
<1>5. Distinct(list)
    BY <1>1 DEF Distinct
<1>6. ASSUME NEW t \in Thread PROVE Called(t) /\ Paid(t) /\ Roused(t)
    BY <1>1 DEF Init, Called, Paid, Roused, Listed, InWait, Sleeping
<1>7. QED BY <1>2, <1>3, <1>4, <1>5, <1>6 DEF FutexInv, ListInv

\* Steps that leave the list as it is, and threads inside or outside _wait.
LEMMA SameList ==
    ASSUME ListInv, PlaceTypes', OtherTypes', HistoryTypes', UNCHANGED <<list, popped>>,
           \A u \in Thread : /\ pc'[u] \in InWait <=> pc[u] \in InWait
                             /\ pc'[u] = "changed" => uaddr'[u] \in Addr
                             /\ tcs'[u] # <<>> <=> pc'[u] \in {"wake_add", "wake_syscall"}
    PROVE  ListInv'
BY DEF ListInv, Distinct, Called, Listed, InWait, Sleeping

LEMMA ChangeList == ASSUME ListInv, NEW t \in Thread, Change(t) PROVE ListInv'
<1> USE DEF At, Goto
<1>1. PlaceTypes /\ OtherTypes /\ HistoryTypes
    BY DEF ListInv
<1>2. PlaceTypes'
    BY <1>1 DEF Change, PlaceTypes, Labels, InWait, Sleeping
<1>3. OtherTypes'
  <2>1. PICK a \in Addr : /\ word' = [word EXCEPT ![a] = 1 - word[a]]
                          /\ uaddr' = [uaddr EXCEPT ![t] = a]
      BY DEF Change
  <2>2. word[a] \in {0, 1}
      BY <1>1, <2>1 DEF OtherTypes
  <2>3. 1 - word[a] \in {0, 1}
      BY <2>2
  <2>4. word' \in [Addr -> {0, 1}]
      BY <1>1, <2>1, <2>3 DEF OtherTypes
  <2>5. QED BY <1>1, <2>1, <2>4 DEF Change, OtherTypes
<1>4. HistoryTypes'
    BY <1>1 DEF Change, HistoryTypes
<1>5. QED BY <1>1, <1>2, <1>3, <1>4, SameList
         DEF Change, PlaceTypes, OtherTypes, ListInv, Called, InWait, Sleeping

\* The steps of a waiting thread on the host.
HostStep(t) == OcallEnter(t) \/ HostWait(t) \/ HostTimeout(t) \/ HostRestore(t) \/ HostCheck(t)

LEMMA HostList == ASSUME ListInv, NEW t \in Thread, HostStep(t) PROVE ListInv'
<1> USE DEF At, Goto, call, HostStep
<1>1. PlaceTypes /\ OtherTypes /\ HistoryTypes
    BY DEF ListInv
<1>2. PlaceTypes'
    BY <1>1 DEF OcallEnter, HostWait, HostTimeout, HostRestore, HostCheck,
                PlaceTypes, Labels, InWait, Sleeping
<1>3. OtherTypes' /\ UNCHANGED <<list, tcs, popped, uaddr>>
    BY <1>1 DEF OcallEnter, HostWait, HostTimeout, HostRestore, HostCheck, OtherTypes
<1>4. HistoryTypes'
    BY <1>1 DEF OcallEnter, HostWait, HostTimeout, HostRestore, HostCheck, HistoryTypes
<1>5. pc[t] \in InWait /\ \E l \in InWait : pc' = [pc EXCEPT ![t] = l]
    BY DEF OcallEnter, HostWait, HostTimeout, HostRestore, HostCheck, InWait, Sleeping
<1>6. QED BY <1>1, <1>2, <1>3, <1>4, <1>5, SameList
         DEF PlaceTypes, OtherTypes, ListInv, Called, InWait, Sleeping

LEMMA WaitList == ASSUME ListInv, NEW t \in Waiter, t \in Thread, Wait(t) PROVE ListInv'
<1> USE DEF At, Goto
<1>1. PlaceTypes /\ OtherTypes /\ HistoryTypes
    BY DEF ListInv
<1>2. PICK a \in Addr : /\ list' = Append(list, Info(t, a))
                        /\ val' = [val EXCEPT ![t] = word[a]]
                        /\ uaddr' = [uaddr EXCEPT ![t] = a]
    BY DEF Wait
<1>3. PlaceTypes'
    BY <1>1 DEF Wait, PlaceTypes, Labels, InWait, Sleeping
<1>4. Info(t, a) \in Entry /\ Info(t, a).thread = t
    BY DEF Info, Entry
<1>5. OtherTypes'
    BY <1>1, <1>2, <1>4 DEF Wait, OtherTypes
<1>6. HistoryTypes'
    BY <1>1 DEF Wait, HistoryTypes
<1>7. /\ Len(list) \in Nat /\ DOMAIN list = 1 .. Len(list) /\ DOMAIN list' = 1 .. Len(list) + 1
      /\ list'[Len(list) + 1] = Info(t, a) /\ \A i \in 1 .. Len(list) : list'[i] = list[i]
    BY <1>1, <1>2, <1>4 DEF OtherTypes
<1>8. pc[t] = "idle" /\ ~Listed(t) /\ ~popped[t]
    BY DEF Wait, ListInv, Called, InWait, Sleeping
<1>9. Distinct(list')
    BY <1>4, <1>7, <1>8 DEF ListInv, Distinct, Listed
<1>10. \A u \in Thread : Listed(u)' <=> Listed(u) \/ u = t
    BY <1>4, <1>7 DEF Listed
<1>11. pc' = [pc EXCEPT ![t] = "ocall"] /\ UNCHANGED <<popped, tcs>>
    BY DEF Wait
<1>12. \A u \in Thread : Called(u)'
    BY <1>1, <1>2, <1>8, <1>10, <1>11 DEF ListInv, Called, PlaceTypes, OtherTypes, InWait, Sleeping
<1>13. QED BY <1>3, <1>5, <1>6, <1>9, <1>12 DEF ListInv

\* A thread leaves _wait: it is not on the list, or no longer.
LEMMA ReturnList ==
    ASSUME ListInv, NEW t \in Thread, At(t, "back"), NEW l \in {"idle", "ended"}, Goto(t, l), Forget(t),
           list' = Without(list, {t}) \/ (~Listed(t) /\ UNCHANGED list),
           UNCHANGED <<word, event, tcs, cancel>>
    PROVE  ListInv'
<1> USE DEF At, Goto, Forget
<1>1. PlaceTypes /\ OtherTypes /\ HistoryTypes /\ Distinct(list)
    BY DEF ListInv
<1>2. /\ list' \in Seq(Entry) /\ Distinct(list')
      /\ \A u \in Thread : Listed(u)' <=> Listed(u) /\ u # t
  <2>1. CASE list' = Without(list, {t})
    <3>1. list \in Seq(Entry)
        BY <1>1 DEF OtherTypes
    <3>2. list' \in Seq(Entry) /\ Distinct(list')
        BY <2>1, <3>1, <1>1, WithoutList
    <3>3. \A e : (\E i \in DOMAIN list' : list'[i] = e)
                    <=> e.thread \notin {t} /\ \E i \in DOMAIN list : list[i] = e
        BY <2>1, <3>1, <1>1, WithoutList
    <3>4. ASSUME NEW u \in Thread PROVE Listed(u)' <=> Listed(u) /\ u # t
      <4>1. ASSUME NEW i \in DOMAIN list', list'[i].thread = u PROVE Listed(u) /\ u # t
          BY <3>3, <4>1 DEF Listed
      <4>2. ASSUME NEW i \in DOMAIN list, list[i].thread = u, u # t PROVE Listed(u)'
        <5>1. \E j \in DOMAIN list' : list'[j] = list[i]
            BY <3>3, <4>2
        <5>2. QED BY <4>2, <5>1 DEF Listed
      <4>3. QED BY <4>1, <4>2 DEF Listed
    <3>5. QED BY <3>2, <3>4
  <2>2. CASE ~Listed(t) /\ UNCHANGED list
      BY <2>2, <1>1 DEF OtherTypes, Listed
  <2>3. QED BY <2>1, <2>2
<1>3. PlaceTypes'
    BY <1>1 DEF PlaceTypes, Labels, InWait, Sleeping
<1>4. OtherTypes'
    BY <1>1, <1>2 DEF OtherTypes
<1>5. HistoryTypes'
    BY <1>1 DEF HistoryTypes
<1>6. \A u \in Thread : Called(u)'
    BY <1>1, <1>2 DEF ListInv, Called, PlaceTypes, OtherTypes, HistoryTypes, InWait, Sleeping
<1>7. QED BY <1>2, <1>3, <1>4, <1>5, <1>6 DEF ListInv

LEMMA BackList == ASSUME ListInv, NEW t \in Thread, Back(t) \/ BackCanceled(t) PROVE ListInv'
<1>1. CASE Back(t) /\ timedout[t]
    BY <1>1, ReturnList DEF Back, Return
<1>2. CASE Back(t) /\ ~timedout[t] /\ ~Listed(t)
    BY <1>2, ReturnList DEF Back, Return
<1>3. CASE Back(t) /\ ~timedout[t] /\ Listed(t)
  <2>1. /\ pc[t] = "back" /\ pc' = [pc EXCEPT ![t] = "ocall"]
        /\ UNCHANGED <<word, list, event, call, tcs, cancel, popped>>
      BY <1>3 DEF Back, At, Goto
  <2>2. PlaceTypes' /\ OtherTypes' /\ HistoryTypes'
      BY <2>1 DEF ListInv, PlaceTypes, OtherTypes, HistoryTypes, Labels, InWait, Sleeping, call
  <2>3. QED BY <2>1, <2>2, SameList DEF ListInv, PlaceTypes, OtherTypes, Called, InWait, Sleeping, call
<1>4. CASE BackCanceled(t)
    BY <1>4, ReturnList DEF BackCanceled
<1>5. QED BY <1>1, <1>2, <1>3, <1>4 DEF Back

LEMMA WakesList ==
    ASSUME ListInv, NEW t \in Thread, pc[t] \in {"idle", "changed"}, NEW a \in Addr, NEW a2 \in Addr,
           NEW W \in SUBSET Thread, NEW q \in Seq(Thread), Wakes(t, a, a2, W, q)
    PROVE  ListInv'
<1>1. PlaceTypes /\ OtherTypes /\ HistoryTypes /\ Distinct(list)
    BY DEF ListInv
<1>2. PlaceTypes'
    BY <1>1 DEF Wakes, PlaceTypes, Labels, InWait, Sleeping
<1>3. OtherTypes'
    BY <1>1 DEF Wakes, OtherTypes
<1>4. HistoryTypes'
    BY <1>1 DEF Wakes, HistoryTypes
<1>5. ASSUME NEW u \in Thread PROVE Listed(u)' <=> Listed(u) /\ u \notin W
  <2>1. Listed(u) <=> \E b \in Addr : WaitingOn(u, b)
    <3>1. ASSUME NEW i \in DOMAIN list PROVE list[i] = Info(list[i].thread, list[i].uaddr) /\ list[i].uaddr \in Addr
      <4>1. list[i] \in Entry
          BY <1>1 DEF OtherTypes
      <4>2. QED BY <4>1 DEF Entry, Info
    <3>2. \A b \in Addr : Info(u, b).thread = u
        BY DEF Info
    <3>3. QED BY <3>1, <3>2 DEF Listed, WaitingOn
  <2>2. Listed(u)' <=> \E b \in Addr : WaitingOn(u, b)'
    <3>1. ASSUME NEW i \in DOMAIN list'
          PROVE  list'[i] = Info(list'[i].thread, list'[i].uaddr) /\ list'[i].uaddr \in Addr
      <4>1. list'[i] \in Entry
          BY <1>3 DEF OtherTypes
      <4>2. QED BY <4>1 DEF Entry, Info
    <3>2. \A b \in Addr : Info(u, b).thread = u
        BY DEF Info
    <3>3. QED BY <3>1, <3>2 DEF Listed, WaitingOn, Info
  <2>3. QED BY <2>1, <2>2 DEF Wakes
<1>6. \A u \in W : Listed(u) /\ pc[u] \in InWait /\ ~popped[u]
    BY DEF Wakes, Waiting, WaitingOn, Listed, Info, ListInv, Called
<1>7. \A u \in Thread : Called(u)'
  <2>1. /\ popped' = [u \in Thread |-> popped[u] \/ u \in W]
        /\ pc' = [pc EXCEPT ![t] = IF q = <<>> THEN "idle" ELSE "wake_add"]
        /\ tcs' = [tcs EXCEPT ![t] = q] /\ uaddr' = [uaddr EXCEPT ![t] = None]
      BY DEF Wakes
  <2>2. QED BY <2>1, <1>1, <1>5, <1>6
            DEF ListInv, Called, PlaceTypes, OtherTypes, HistoryTypes, InWait, Sleeping
<1>8. QED BY <1>2, <1>3, <1>4, <1>7 DEF ListInv, Wakes

\* The three callers of _wake.
LEMMA Wakers ==
    ASSUME ListInv, NEW t \in Thread, WakeAll(t) \/ WakeOne(t) \/ Requeue(t)
    PROVE  /\ pc[t] \in {"idle", "changed"}
           /\ \E a, a2 \in Addr, n \in Nat : \E W \in SUBSET Thread : \E q \in Seq(Thread) :
                 /\ Wakes(t, a, a2, W, q) /\ Enough(W, a, n)
                 /\ pc[t] = "changed" => a = uaddr[t] /\ a2 = a /\ n = Cardinality(Thread)
<1>1. list \in Seq(Entry) /\ Distinct(list)
    BY DEF ListInv, OtherTypes
<1>2. CASE WakeAll(t)
  <2>1. pc[t] = "changed" /\ uaddr[t] \in Addr /\ Wake(t, uaddr[t], Cardinality(Thread), uaddr[t])
      BY <1>2 DEF WakeAll, At, ListInv, Called
  <2>2. Cardinality(Thread) \in Nat
      BY FutexAssumption, FS_CardinalityType
  <2>3. QED BY <2>1, <2>2, <1>1, WakeEffect
<1>3. CASE WakeOne(t)
  <2>1. PICK a \in Addr : Wake(t, a, 1, a)
      BY <1>3 DEF WakeOne
  <2>2. pc[t] = "idle" /\ 1 \in Nat
      BY <1>3 DEF WakeOne, At
  <2>3. QED BY <2>1, <2>2, <1>1, WakeEffect
<1>4. CASE Requeue(t)
  <2>1. PICK a \in Addr, a2 \in Addr : Wake(t, a, 0, a2)
      BY <1>4 DEF Requeue
  <2>2. pc[t] = "idle" /\ 0 \in Nat
      BY <1>4 DEF Requeue, At
  <2>3. QED BY <2>1, <2>2, <1>1, WakeEffect
<1>5. QED BY <1>2, <1>3, <1>4

\* A waker goes on with the next, if there is one.
LEMMA NextToWake ==
    ASSUME NEW t \in Thread, tcs[t] \in Seq(Thread), tcs[t] # <<>>
    PROVE  /\ Head(tcs[t]) \in Thread /\ Tail(tcs[t]) \in Seq(Thread)
           /\ AfterWake(t) \in {"wake_add", "idle", "ended"}
           /\ Tail(tcs[t]) # <<>> <=> AfterWake(t) = "wake_add"
<1>1. /\ Len(tcs[t]) \in Nat \ {0} /\ Head(tcs[t]) \in Thread
      /\ Tail(tcs[t]) \in Seq(Thread) /\ Len(Tail(tcs[t])) = Len(tcs[t]) - 1
    BY SMTT(30)
<1>2. Tail(tcs[t]) # <<>> <=> Len(tcs[t]) > 1
    BY <1>1, SMTT(30)
<1>3. QED BY <1>1, <1>2 DEF AfterWake

LEMMA WakeAddList == ASSUME ListInv, NEW t \in Thread, WakeAdd(t) PROVE ListInv'
<1> USE DEF At, Goto, call
<1>1. PlaceTypes /\ OtherTypes /\ HistoryTypes
    BY DEF ListInv
<1>2. pc[t] = "wake_add" /\ tcs[t] \in Seq(Thread) /\ tcs[t] # <<>> /\ Head(tcs[t]) \in Thread
    BY <1>1 DEF WakeAdd, ListInv, Called, OtherTypes
<1>3. PICK u \in Thread : u = Head(tcs[t])
    BY <1>2
<1>4. /\ event' = [event EXCEPT ![u] = event[u] + 1]
      /\ \/ pc' = [pc EXCEPT ![t] = "wake_syscall"] /\ UNCHANGED tcs
         \/ pc' = [pc EXCEPT ![t] = AfterWake(t)] /\ tcs' = [tcs EXCEPT ![t] = Tail(tcs[t])]
      /\ UNCHANGED <<word, list, call, cancel, popped>>
    BY <1>2, <1>3 DEF WakeAdd
<1>5. /\ AfterWake(t) \in {"wake_add", "idle", "ended"}
      /\ Tail(tcs[t]) \in Seq(Thread)
      /\ Tail(tcs[t]) # <<>> <=> AfterWake(t) = "wake_add"
    BY <1>2, NextToWake
<1>6. PlaceTypes'
  <2>1. PICK l \in {"wake_syscall", "wake_add", "idle", "ended"} : pc' = [pc EXCEPT ![t] = l]
      BY <1>4, <1>5
  <2>2. event[u] + 1 >= event[u] /\ event[u] + 1 \in Int
      BY <1>1 DEF PlaceTypes
  <2>3. event' = [event EXCEPT ![u] = event[u] + 1]
      BY <1>4
  <2>4. QED BY <1>1, <1>2, <2>1, <2>2, <2>3 DEF PlaceTypes, Labels, InWait, Sleeping
<1>7. OtherTypes' /\ HistoryTypes'
    BY <1>1, <1>4, <1>5 DEF OtherTypes, HistoryTypes
<1>8. ASSUME NEW v \in Thread
      PROVE  /\ pc'[v] \in InWait <=> pc[v] \in InWait
             /\ pc'[v] = "changed" => uaddr'[v] \in Addr
             /\ tcs'[v] # <<>> <=> pc'[v] \in {"wake_add", "wake_syscall"}
    BY <1>1, <1>2, <1>4, <1>5 DEF PlaceTypes, OtherTypes, ListInv, Called, InWait, Sleeping
<1>9. QED BY <1>4, <1>6, <1>7, <1>8, SameList

LEMMA WakeSyscallList == ASSUME ListInv, NEW t \in Thread, WakeSyscall(t) PROVE ListInv'
<1> USE DEF At, Goto, call
<1>1. PlaceTypes /\ OtherTypes /\ HistoryTypes
    BY DEF ListInv
<1>2. pc[t] = "wake_syscall" /\ tcs[t] \in Seq(Thread) /\ tcs[t] # <<>> /\ Head(tcs[t]) \in Thread
    BY <1>1 DEF WakeSyscall, ListInv, Called, OtherTypes
<1>3. PICK u \in Thread : u = Head(tcs[t])
    BY <1>2
<1>5. /\ AfterWake(t) \in {"wake_add", "idle", "ended"}
      /\ Tail(tcs[t]) \in Seq(Thread)
      /\ Tail(tcs[t]) # <<>> <=> AfterWake(t) = "wake_add"
    BY <1>2, NextToWake
<1>4. /\ pc' = [v \in Thread |-> IF v = t THEN AfterWake(t)
                                 ELSE IF v = u /\ pc[v] = "asleep" THEN "host_check" ELSE pc[v]]
      /\ tcs' = [tcs EXCEPT ![t] = Tail(tcs[t])]
      /\ UNCHANGED <<word, list, event, call, cancel, popped>>
    BY <1>3 DEF WakeSyscall
<1>6. PlaceTypes'
    BY <1>1, <1>2, <1>4, <1>5 DEF PlaceTypes, Labels, InWait, Sleeping
<1>7. OtherTypes' /\ HistoryTypes'
    BY <1>1, <1>4, <1>5 DEF OtherTypes, HistoryTypes
<1>8. QED BY <1>1, <1>2, <1>4, <1>5, <1>6, <1>7, SameList
         DEF PlaceTypes, OtherTypes, ListInv, Called, InWait, Sleeping

LEMMA CancelList == ASSUME ListInv, NEW t \in Thread, Cancel(t) PROVE ListInv'
<1> USE DEF At, Goto, call
<1>1. PlaceTypes /\ OtherTypes /\ HistoryTypes
    BY DEF ListInv
<1>2. PICK u \in Thread : /\ cancel' = [cancel EXCEPT ![u] = TRUE]
                          /\ tcs' = [tcs EXCEPT ![t] = <<u>>]
    BY FutexAssumption DEF Cancel
<1>3. /\ pc[t] = "idle" /\ pc' = [pc EXCEPT ![t] = "wake_add"]
      /\ UNCHANGED <<word, list, event, call, popped>>
    BY DEF Cancel
<1>4. <<u>> \in Seq(Thread) /\ <<u>> # <<>>
    OBVIOUS
<1>5. PlaceTypes'
    BY <1>1, <1>3 DEF PlaceTypes, Labels, InWait, Sleeping
<1>6. OtherTypes' /\ HistoryTypes'
    BY <1>1, <1>2, <1>3, <1>4 DEF OtherTypes, HistoryTypes
<1>7. QED BY <1>1, <1>2, <1>3, <1>4, <1>5, <1>6, SameList
         DEF PlaceTypes, OtherTypes, ListInv, Called, InWait, Sleeping

LEMMA ListStep == ASSUME ListInv, [Next]_vars PROVE ListInv'
<1>1. CASE UNCHANGED vars
  <2>1. UNCHANGED <<word, list, event, pc, val, uaddr, timedout, tcs, cancel, popped>>
      BY <1>1 DEF vars, call
  <2>2. PlaceTypes' /\ OtherTypes' /\ HistoryTypes'
      BY <2>1 DEF ListInv, PlaceTypes, OtherTypes, HistoryTypes
  <2>3. QED BY <2>1, <2>2, SameList DEF ListInv, Called
<1>2. ASSUME NEW t \in Thread, Begin(t) \/ Step(t) PROVE ListInv'
  <2>1. CASE WakeAll(t) \/ WakeOne(t) \/ Requeue(t)
      BY <2>1, Wakers, WakesList
  <2>2. QED BY <1>2, <2>1, ChangeList, HostList, WaitList, BackList, WakeAddList, WakeSyscallList,
               CancelList DEF Begin, Step, HostStep
<1>3. QED BY <1>1, <1>2 DEF Next

-----------------------------------------------------------------------------
(* Wake-ups *)

\* A step that leaves the wakers as they are.
LEMMA SameWakers ==
    ASSUME FutexInv, UNCHANGED tcs, \A v \in Thread : tcs[v] # <<>> => pc'[v] = pc[v]
    PROVE  \A u \in Thread :
              /\ Owed(u)' <=> Owed(u)
              /\ (\E v \in Thread : pc[v] = "wake_syscall" /\ tcs[v][1] = u)
                    => \E v \in Thread : pc'[v] = "wake_syscall" /\ tcs'[v][1] = u
<1>1. \A v \in Thread : tcs[v] \in Seq(Thread) /\ (pc[v] = "wake_syscall" => tcs[v] # <<>>)
    BY DEF FutexInv, ListInv, OtherTypes, Called
<1>2. \A v \in Thread : \A i \in DOMAIN tcs[v] : tcs[v] # <<>>
    BY <1>1
<1>3. QED BY <1>1, <1>2 DEF Owed

LEMMA HostWakes ==
    ASSUME FutexInv, NEW t \in Thread, HostStep(t) \/ Wait(t) \/ Back(t) \/ BackCanceled(t) \/ Change(t),
           NEW u \in Thread
    PROVE  Paid(u)' /\ Roused(u)'
<1> USE DEF At, Goto, call, Forget, Return, InWait, Sleeping
<1>1. PlaceTypes /\ OtherTypes /\ HistoryTypes /\ Called(t) /\ Called(u) /\ Paid(u) /\ Roused(u)
    BY DEF FutexInv, ListInv
<1>2. UNCHANGED tcs /\ \E l \in Labels : pc' = [pc EXCEPT ![t] = l]
    BY DEF HostStep, OcallEnter, HostWait, HostTimeout, HostRestore, HostCheck, Wait, Back, BackCanceled,
           Change, Labels
<1>3. tcs[t] = <<>>
    BY <1>1 DEF HostStep, OcallEnter, HostWait, HostTimeout, HostRestore, HostCheck, Wait, Back,
                BackCanceled, Change, Called
<1>4. /\ Owed(u)' <=> Owed(u)
      /\ (\E v \in Thread : pc[v] = "wake_syscall" /\ tcs[v][1] = u)
            => \E v \in Thread : pc'[v] = "wake_syscall" /\ tcs'[v][1] = u
  <2>1. \A v \in Thread : tcs[v] # <<>> => pc'[v] = pc[v]
      BY <1>1, <1>2, <1>3 DEF PlaceTypes
  <2>2. QED BY <1>2, <2>1, SameWakers
<1>5. CASE u # t
  <2>1. event'[u] = event[u] /\ popped'[u] = popped[u] /\ pc'[u] = pc[u]
      BY <1>1, <1>5 DEF HostStep, OcallEnter, HostWait, HostTimeout, HostRestore, HostCheck, Wait, Back,
                        BackCanceled, Change, PlaceTypes, HistoryTypes
  <2>2. QED BY <2>1, <1>1, <1>4 DEF Paid, Roused
<1>6. CASE u = t /\ HostStep(t)
  <2>1. UNCHANGED popped /\ event[t] \in Int
      BY <1>1, <1>6 DEF HostStep, OcallEnter, HostWait, HostTimeout, HostRestore, HostCheck, PlaceTypes
  <2>2. Paid(t)'
      BY <1>1, <1>4, <1>6, <2>1 DEF HostStep, OcallEnter, HostWait, HostTimeout, HostRestore, HostCheck,
                              PlaceTypes, Paid
  <2>3. Roused(t)'
      BY <1>1, <1>6 DEF HostStep, OcallEnter, HostWait, HostTimeout, HostRestore, HostCheck,
                              PlaceTypes, Roused
  <2>4. QED BY <1>6, <2>2, <2>3
<1>7. CASE u = t /\ ~HostStep(t)
  <2>1. ~popped'[t] /\ pc'[t] # "asleep"
      BY <1>1, <1>7 DEF Wait, Back, BackCanceled, Change, Called, PlaceTypes, HistoryTypes
  <2>2. QED BY <1>7, <2>1 DEF Paid, Roused
<1>8. QED BY <1>5, <1>6, <1>7

\* Who is woken is owed a wake-up.
LEMMA WakesWake ==
    ASSUME FutexInv, NEW t \in Thread, pc[t] \in {"idle", "changed"}, NEW a \in Addr, NEW a2 \in Addr,
           NEW W \in SUBSET Thread, NEW q \in Seq(Thread), Wakes(t, a, a2, W, q), NEW u \in Thread
    PROVE  Paid(u)' /\ Roused(u)'
<1> USE DEF InWait, Sleeping
<1>1. /\ PlaceTypes /\ OtherTypes /\ HistoryTypes /\ Paid(u) /\ Roused(u)
      /\ \A v \in Thread : Called(v)
    BY DEF FutexInv, ListInv
<1>2. /\ popped' = [v \in Thread |-> popped[v] \/ v \in W]
      /\ pc' = [pc EXCEPT ![t] = IF q = <<>> THEN "idle" ELSE "wake_add"]
      /\ tcs' = [tcs EXCEPT ![t] = q] /\ UNCHANGED event /\ W = {q[i] : i \in DOMAIN q}
    BY DEF Wakes
<1>3. /\ tcs[t] = <<>> /\ ~popped[t] /\ \A i \in DOMAIN tcs[t] : FALSE
      /\ \A v \in Thread : pc[v] = "wake_syscall" => v # t
    BY <1>1 DEF Called
<1>4. u \in W => Owed(u)'
  <2>1. SUFFICES ASSUME u \in W PROVE Owed(u)'
      OBVIOUS
  <2>2. PICK i \in DOMAIN q : q[i] = u
      BY <1>2, <2>1
  <2>3. tcs'[t] = q /\ pc'[t] = "wake_add"
      BY <1>1, <1>2, <2>2 DEF PlaceTypes, OtherTypes
  <2>4. QED BY <2>2, <2>3 DEF Owed
<1>5. Owed(u) => Owed(u)'
  <2>1. \A v \in Thread \ {t} : tcs'[v] = tcs[v] /\ pc'[v] = pc[v]
      BY <1>1, <1>2 DEF PlaceTypes, OtherTypes
  <2>2. QED BY <1>3, <2>1 DEF Owed
<1>6. Paid(u)'
  <2>1. popped'[u] <=> popped[u] \/ u \in W
      BY <1>2
  <2>2. u # t => pc'[u] = pc[u]
      BY <1>1, <1>2 DEF PlaceTypes
  <2>3. u = t => pc'[u] \in {"idle", "wake_add"}
      BY <1>1, <1>2 DEF PlaceTypes
  <2>4. QED BY <1>1, <1>2, <1>4, <1>5, <2>1, <2>2, <2>3 DEF Paid
<1>7. Roused(u)'
    BY <1>1, <1>2, <1>3 DEF Roused, PlaceTypes, OtherTypes
<1>8. QED BY <1>6, <1>7

\* What is in a waker's list behind the first.
LEMMA TailEntries ==
    ASSUME NEW q \in Seq(Thread), q # <<>>, NEW u
    PROVE  /\ Head(q) = q[1] /\ Tail(q) \in Seq(Thread)
           /\ \A i \in DOMAIN q : q[i] = u /\ i # 1 => \E j \in DOMAIN Tail(q) : Tail(q)[j] = u
           /\ \A i \in DOMAIN Tail(q) : Tail(q) # <<>>
<1>1. /\ Len(q) \in Nat \ {0} /\ DOMAIN q = 1 .. Len(q) /\ Head(q) = q[1] /\ Tail(q) \in Seq(Thread)
      /\ DOMAIN Tail(q) = 1 .. Len(q) - 1
    OBVIOUS
<1>2. ASSUME NEW i \in DOMAIN q, q[i] = u, i # 1 PROVE \E j \in DOMAIN Tail(q) : Tail(q)[j] = u
  <2>1. i - 1 \in DOMAIN Tail(q) /\ Tail(q)[i - 1] = q[i]
      BY <1>1, <1>2
  <2>2. QED BY <1>2, <2>1
<1>3. QED BY <1>1, <1>2

LEMMA AddWakes ==
    ASSUME FutexInv, NEW t \in Thread, WakeAdd(t), NEW x \in Thread
    PROVE  Paid(x)' /\ Roused(x)'
<1> USE DEF At, Goto, call, InWait, Sleeping
<1>1. /\ PlaceTypes /\ OtherTypes /\ HistoryTypes /\ Paid(x) /\ Roused(x) /\ Called(t)
      /\ pc[t] = "wake_add"
    BY DEF FutexInv, ListInv, WakeAdd
<1>2. tcs[t] \in Seq(Thread) /\ tcs[t] # <<>>
    BY <1>1 DEF OtherTypes, Called
<1>3. PICK u \in Thread : u = Head(tcs[t]) /\ u = tcs[t][1]
    BY <1>2, TailEntries
<1>4. /\ event' = [event EXCEPT ![u] = event[u] + 1]
      /\ \/ /\ event[u] # 0 /\ pc' = [pc EXCEPT ![t] = "wake_syscall"] /\ UNCHANGED tcs
         \/ /\ event[u] = 0 /\ pc' = [pc EXCEPT ![t] = AfterWake(t)]
            /\ tcs' = [tcs EXCEPT ![t] = Tail(tcs[t])]
      /\ UNCHANGED popped
    BY <1>3 DEF WakeAdd
<1>5. /\ AfterWake(t) \in {"wake_add", "idle", "ended"}
      /\ Tail(tcs[t]) # <<>> <=> AfterWake(t) = "wake_add"
    BY <1>2, NextToWake
<1>6. \A v \in Thread \ {t} : tcs'[v] = tcs[v] /\ pc'[v] = pc[v]
    BY <1>1, <1>4 DEF PlaceTypes, OtherTypes
<1>7. pc'[t] \in {"wake_syscall", "wake_add", "idle", "ended"}
    BY <1>1, <1>4, <1>5 DEF PlaceTypes
<1>8. ASSUME x # u, Owed(x) PROVE Owed(x)'
  <2>1. PICK v \in Thread : \E i \in DOMAIN tcs[v] : tcs[v][i] = x /\ (i = 1 => pc[v] = "wake_add")
      BY <1>8 DEF Owed
  <2>2. CASE v # t
      BY <2>1, <2>2, <1>6 DEF Owed
  <2>3. CASE v = t /\ tcs' = tcs
      BY <2>1, <2>3, <1>3, <1>8 DEF Owed
  <2>4. CASE v = t /\ tcs' # tcs
    <3>1. tcs'[t] = Tail(tcs[t]) /\ pc'[t] = AfterWake(t)
        BY <1>1, <1>4, <2>4 DEF PlaceTypes, OtherTypes
    <3>2. \E j \in DOMAIN Tail(tcs[t]) : Tail(tcs[t])[j] = x
        BY <2>1, <2>4, <1>2, <1>3, <1>8, TailEntries
    <3>3. AfterWake(t) = "wake_add"
        BY <3>2, <1>2, <1>5, TailEntries
    <3>4. QED BY <3>1, <3>2, <3>3 DEF Owed
  <2>5. QED BY <2>2, <2>3, <2>4
<1>9. Paid(x)'
  <2>1. CASE x # u
    <3>1. event'[x] = event[x] /\ (x # t => pc'[x] = pc[x])
        BY <1>1, <1>4, <1>6, <2>1 DEF PlaceTypes
    <3>2. QED BY <1>1, <1>4, <1>7, <1>8, <2>1, <3>1 DEF Paid
  <2>2. CASE x = u
    <3>1. event'[x] = event[x] + 1 /\ event[x] \in Int /\ event[x] >= (IF pc[x] \in Sleeping THEN -1 ELSE 0)
        BY <1>1, <1>4, <2>2 DEF PlaceTypes
    <3>2. x # t => pc'[x] = pc[x]
        BY <1>6
    <3>3. QED BY <1>7, <3>1, <3>2 DEF Paid
  <2>3. QED BY <2>1, <2>2
<1>10. Roused(x)'
  <2>1. CASE x = u /\ event[u] # 0
    <3>1. pc'[t] = "wake_syscall" /\ tcs'[t] = tcs[t]
        BY <1>1, <1>4, <2>1 DEF PlaceTypes
    <3>2. QED BY <2>1, <3>1, <1>3 DEF Roused
  <2>2. CASE ~(x = u /\ event[u] # 0)
    <3>1. SUFFICES ASSUME pc'[x] = "asleep", event'[x] # -1
                   PROVE  \E v \in Thread : pc'[v] = "wake_syscall" /\ tcs'[v][1] = x
        BY DEF Roused
    <3>2. x # t /\ pc[x] = "asleep"
        BY <3>1, <1>6, <1>7
    <3>3. event[x] # -1
        BY <2>2, <3>1, <1>1, <1>4 DEF PlaceTypes
    <3>4. PICK v \in Thread : pc[v] = "wake_syscall" /\ tcs[v][1] = x
        BY <3>2, <3>3, <1>1 DEF Roused
    <3>5. v # t
        BY <3>4, <1>1
    <3>6. QED BY <3>4, <3>5, <1>6
  <2>3. QED BY <2>1, <2>2
<1>11. QED BY <1>9, <1>10

LEMMA SyscallWakes ==
    ASSUME FutexInv, NEW t \in Thread, WakeSyscall(t), NEW x \in Thread
    PROVE  Paid(x)' /\ Roused(x)'
<1> USE DEF At, Goto, call, InWait, Sleeping
<1>1. /\ PlaceTypes /\ OtherTypes /\ HistoryTypes /\ Paid(x) /\ Roused(x) /\ Called(t)
      /\ pc[t] = "wake_syscall"
    BY DEF FutexInv, ListInv, WakeSyscall
<1>2. tcs[t] \in Seq(Thread) /\ tcs[t] # <<>>
    BY <1>1 DEF OtherTypes, Called
<1>3. PICK u \in Thread : u = Head(tcs[t]) /\ u = tcs[t][1]
    BY <1>2, TailEntries
<1>4. /\ pc' = [v \in Thread |-> IF v = t THEN AfterWake(t)
                                 ELSE IF v = u /\ pc[v] = "asleep" THEN "host_check" ELSE pc[v]]
      /\ tcs' = [tcs EXCEPT ![t] = Tail(tcs[t])]
      /\ UNCHANGED <<event, popped>>
    BY <1>3 DEF WakeSyscall
<1>5. /\ AfterWake(t) \in {"wake_add", "idle", "ended"}
      /\ Tail(tcs[t]) # <<>> <=> AfterWake(t) = "wake_add"
    BY <1>2, NextToWake
<1>6. tcs'[t] = Tail(tcs[t]) /\ \A v \in Thread \ {t} : tcs'[v] = tcs[v]
    BY <1>1, <1>4 DEF OtherTypes
<1>7. ASSUME Owed(x) PROVE Owed(x)'
  <2>1. PICK v \in Thread : \E i \in DOMAIN tcs[v] : tcs[v][i] = x /\ (i = 1 => pc[v] = "wake_add")
      BY <1>7 DEF Owed
  <2>2. CASE v # t
    <3>1. pc[v] = "wake_add" => pc'[v] = "wake_add"
        BY <2>2, <1>4
    <3>2. QED BY <2>1, <2>2, <3>1, <1>6 DEF Owed
  <2>3. CASE v = t
    <3>1. \E j \in DOMAIN Tail(tcs[t]) : Tail(tcs[t])[j] = x
        BY <2>1, <2>3, <1>1, <1>2, TailEntries
    <3>2. AfterWake(t) = "wake_add"
        BY <3>1, <1>2, <1>5, TailEntries
    <3>3. pc'[t] = "wake_add"
        BY <3>2, <1>4
    <3>4. QED BY <3>1, <3>3, <1>6 DEF Owed
  <2>4. QED BY <2>2, <2>3
<1>8. Paid(x)'
    BY <1>1, <1>4, <1>5, <1>7 DEF Paid
<1>9. Roused(x)'
  <2>1. SUFFICES ASSUME pc'[x] = "asleep", event'[x] # -1
                 PROVE  \E v \in Thread : pc'[v] = "wake_syscall" /\ tcs'[v][1] = x
      BY DEF Roused
  <2>2. pc[x] = "asleep" /\ x # u /\ event[x] # -1
      BY <2>1, <1>4, <1>5
  <2>3. PICK v \in Thread : pc[v] = "wake_syscall" /\ tcs[v][1] = x
      BY <2>2, <1>1 DEF Roused
  <2>4. v # t
      BY <2>2, <2>3, <1>3
  <2>5. QED BY <2>3, <2>4, <1>4, <1>6
<1>10. QED BY <1>8, <1>9

LEMMA CancelWakes ==
    ASSUME FutexInv, NEW t \in Thread, Cancel(t), NEW u \in Thread
    PROVE  Paid(u)' /\ Roused(u)'
<1> USE DEF At, Goto, call, InWait, Sleeping
<1>1. /\ PlaceTypes /\ OtherTypes /\ HistoryTypes /\ Paid(u) /\ Roused(u) /\ Called(t)
      /\ pc[t] = "idle"
    BY DEF FutexInv, ListInv, Cancel
<1>2. /\ pc' = [pc EXCEPT ![t] = "wake_add"] /\ UNCHANGED <<event, popped>>
      /\ \E v \in Thread : tcs' = [tcs EXCEPT ![t] = <<v>>]
    BY FutexAssumption DEF Cancel
<1>3. tcs[t] = <<>> /\ \A i \in DOMAIN tcs[t] : FALSE
    BY <1>1 DEF Called
<1>4. \A v \in Thread \ {t} : tcs'[v] = tcs[v] /\ pc'[v] = pc[v]
    BY <1>1, <1>2 DEF PlaceTypes, OtherTypes
<1>5. Owed(u) => Owed(u)'
    BY <1>3, <1>4 DEF Owed
<1>6. pc'[t] = "wake_add"
    BY <1>1, <1>2 DEF PlaceTypes
<1>7. QED BY <1>1, <1>2, <1>4, <1>5, <1>6 DEF Paid, Roused

LEMMA FutexStep == ASSUME FutexInv, [Next]_vars PROVE FutexInv'
<1>1. ListInv'
    BY ListStep DEF FutexInv
<1>2. CASE UNCHANGED vars
  <2>1. \A u \in Thread : Paid(u)' /\ Roused(u)'
      BY <1>2 DEF FutexInv, Paid, Roused, Owed, vars, call
  <2>2. QED BY <1>1, <2>1 DEF FutexInv
<1>3. ASSUME NEW t \in Thread, Begin(t) \/ Step(t), NEW u \in Thread PROVE Paid(u)' /\ Roused(u)'
  <2>1. CASE WakeAll(t) \/ WakeOne(t) \/ Requeue(t)
      BY <2>1, Wakers, WakesWake DEF FutexInv
  <2>2. QED BY <1>3, <2>1, HostWakes, AddWakes, SyscallWakes, CancelWakes DEF Begin, Step, HostStep
<1>4. QED BY <1>1, <1>2, <1>3 DEF Next, FutexInv

LEMMA FutexInvariant == Spec => []FutexInv
<1>1. FutexInv /\ [Next]_vars => FutexInv'
    BY FutexStep
<1>2. QED BY <1>1, FutexInit, PTL DEF Spec

\* The types; the event counters are never below -1, and not below 0 outside the
\* host's wait (host/core.c:20).
THEOREM FutexTypes == Spec => []TypeOK
<1>1. FutexInv => TypeOK
    BY DEF FutexInv, ListInv, TypeOK, PlaceTypes, OtherTypes, HistoryTypes, Labels, Entry
<1>2. QED BY <1>1, FutexInvariant, PTL

\* The enclave's list holds the threads in _wait that no wake has taken off, each
\* once (ertfutex.c:166).
THEOREM WaitersListed == Spec => []ListExact
<1>1. FutexInv => ListExact
    BY DEF FutexInv, ListInv, ListExact, Distinct, Called
<1>2. QED BY <1>1, FutexInvariant, PTL

\* No thread that a wake has taken off the list sleeps on, unless a waker is still
\* about to wake it (host/core.c:20).
THEOREM WokenAwake == Spec => []NoLostWakeup
<1>1. ASSUME FutexInv PROVE NoLostWakeup
  <2>1. SUFFICES ASSUME NEW t \in Thread, pc[t] = "asleep", popped[t]
                 PROVE  \E u \in Thread : \E i \in DOMAIN tcs[u] : tcs[u][i] = t
      BY DEF NoLostWakeup
  <2>2. CASE Owed(t)
      BY <2>2 DEF Owed
  <2>3. CASE ~Owed(t)
    <3>1. event[t] >= 0 /\ event[t] \in Int
        BY <1>1, <2>1, <2>3 DEF FutexInv, ListInv, PlaceTypes, Paid, Sleeping
    <3>2. PICK u \in Thread : pc[u] = "wake_syscall" /\ tcs[u][1] = t
        BY <1>1, <2>1, <3>1 DEF FutexInv, Roused
    <3>3. tcs[u] \in Seq(Thread) /\ tcs[u] # <<>>
        BY <1>1, <3>2 DEF FutexInv, ListInv, OtherTypes, Called
    <3>4. 1 \in DOMAIN tcs[u]
        BY <3>3
    <3>5. QED BY <3>2, <3>4
  <2>4. QED BY <2>2, <2>3
<1>2. QED BY <1>1, FutexInvariant, PTL
-----------------------------------------------------------------------------
(* Changes of words *)

Announced(a) == \E v \in Thread : pc[v] = "changed" /\ uaddr[v] = a
\* If t waits on a, it does not miss a change of that.
Noticed(t, a) == WaitingOn(t, a) /\ val[t] \notin {None, word[a]} => Announced(a)
ChangesNoticed == \A t \in Thread, a \in Addr : Noticed(t, a)

\* Steps that change no word, let none wait and announce what they did before.
LEMMA SameNoticed ==
    ASSUME ChangesNoticed, UNCHANGED word,
           \A u \in Thread, b \in Addr :
              /\ WaitingOn(u, b)' => WaitingOn(u, b) /\ val'[u] \in {None, val[u]}
              /\ Announced(b) => Announced(b)'
    PROVE  ChangesNoticed'
BY DEF ChangesNoticed, Noticed

LEMMA ChangeNoticed ==
    ASSUME ListInv, ChangesNoticed, NEW t \in Thread, Change(t)
    PROVE  ChangesNoticed'
<1>1. PICK a \in Addr : /\ word' = [word EXCEPT ![a] = 1 - word[a]]
                        /\ uaddr' = [uaddr EXCEPT ![t] = a]
    BY DEF Change
<1>2. pc[t] = "idle" /\ pc' = [pc EXCEPT ![t] = "changed"] /\ UNCHANGED <<list, val>>
    BY DEF Change, At, Goto
<1>3. PlaceTypes /\ OtherTypes
    BY DEF ListInv
<1>4. Announced(a)'
  <2>1. pc'[t] = "changed" /\ uaddr'[t] = a
      BY <1>1, <1>2, <1>3 DEF PlaceTypes, OtherTypes
  <2>2. QED BY <2>1 DEF Announced
<1>5. \A b \in Addr : Announced(b) => Announced(b)'
  <2>1. \A v \in Thread : pc[v] = "changed" => pc'[v] = pc[v] /\ uaddr'[v] = uaddr[v]
      BY <1>1, <1>2, <1>3 DEF PlaceTypes, OtherTypes
  <2>2. QED BY <2>1 DEF Announced
<1>6. \A b \in Addr \ {a} : word'[b] = word[b]
    BY <1>1, <1>3 DEF OtherTypes
<1>7. ASSUME NEW u \in Thread, NEW b \in Addr PROVE WaitingOn(u, b)' <=> WaitingOn(u, b)
    BY <1>2 DEF WaitingOn, Info
<1>8. ASSUME NEW u \in Thread, NEW b \in Addr PROVE Noticed(u, b)'
  <2>1. CASE b = a
      BY <1>4, <2>1 DEF Noticed
  <2>2. CASE b # a
      BY <1>2, <1>5, <1>6, <1>7, <2>2 DEF Noticed, ChangesNoticed
  <2>3. QED BY <2>1, <2>2
<1>9. QED BY <1>8 DEF ChangesNoticed

LEMMA WaitNoticed ==
    ASSUME ListInv, ChangesNoticed, NEW t \in Thread, Wait(t)
    PROVE  ChangesNoticed'
<1>1. PICK a \in Addr : /\ list' = Append(list, Info(t, a))
                        /\ val' = [val EXCEPT ![t] = word[a]]
                        /\ uaddr' = [uaddr EXCEPT ![t] = a]
    BY DEF Wait
<1>2. pc[t] = "idle" /\ pc' = [pc EXCEPT ![t] = "ocall"] /\ UNCHANGED word
    BY DEF Wait, At, Goto
<1>3. PlaceTypes /\ OtherTypes
    BY DEF ListInv
<1>4. \A b \in Addr : Announced(b) => Announced(b)'
  <2>1. \A v \in Thread : pc[v] = "changed" => pc'[v] = pc[v] /\ uaddr'[v] = uaddr[v]
      BY <1>1, <1>2, <1>3 DEF PlaceTypes, OtherTypes
  <2>2. QED BY <2>1 DEF Announced
<1>5. \A u \in Thread, b \in Addr : Info(u, b).thread = u /\ Info(u, b).uaddr = b /\ Info(u, b) \in Entry
    BY DEF Info, Entry
<1>6. ASSUME NEW u \in Thread, NEW b \in Addr, WaitingOn(u, b)'
      PROVE  WaitingOn(u, b) \/ (u = t /\ b = a)
  <2>1. PICK i \in DOMAIN list' : list'[i] = Info(u, b)
      BY <1>6 DEF WaitingOn, Info
  <2>2. list \in Seq(Entry) /\ Info(t, a) \in Entry
      BY <1>3, <1>5 DEF OtherTypes
  <2>3. /\ Len(list) \in Nat /\ DOMAIN list = 1 .. Len(list) /\ DOMAIN list' = 1 .. Len(list) + 1
        /\ list'[Len(list) + 1] = Info(t, a) /\ \A j \in 1 .. Len(list) : list'[j] = list[j]
      BY <1>1, <2>2
  <2>4. CASE i \in 1 .. Len(list)
      BY <2>1, <2>3, <2>4 DEF WaitingOn
  <2>5. CASE i = Len(list) + 1
    <3>1. Info(u, b) = Info(t, a)
        BY <2>1, <2>3, <2>5
    <3>2. Info(u, b).thread = Info(t, a).thread /\ Info(u, b).uaddr = Info(t, a).uaddr
        BY <3>1
    <3>3. QED BY <3>2, <1>5
  <2>6. QED BY <2>1, <2>3, <2>4, <2>5
<1>7. ~Listed(t)
    BY <1>2 DEF ListInv, Called, InWait, Sleeping
<1>8. \A b \in Addr : ~WaitingOn(t, b)
    BY <1>5, <1>7 DEF WaitingOn, Listed
<1>9. val'[t] = word[a] /\ \A u \in Thread \ {t} : val'[u] = val[u]
    BY <1>1, <1>3 DEF OtherTypes
<1>10. ASSUME NEW u \in Thread, NEW b \in Addr PROVE Noticed(u, b)'
  <2>1. SUFFICES ASSUME WaitingOn(u, b)', val'[u] \notin {None, word'[b]} PROVE Announced(b)'
      BY DEF Noticed
  <2>2. CASE u = t
      BY <2>1, <2>2, <1>2, <1>6, <1>8, <1>9
  <2>3. CASE u # t
      BY <2>1, <2>3, <1>2, <1>4, <1>6, <1>9 DEF Noticed, ChangesNoticed
  <2>4. QED BY <2>2, <2>3
<1>11. QED BY <1>10 DEF ChangesNoticed

LEMMA BackNoticed ==
    ASSUME ListInv, ChangesNoticed, NEW t \in Thread, Back(t) \/ BackCanceled(t)
    PROVE  ChangesNoticed'
<1>1. PlaceTypes /\ OtherTypes /\ Distinct(list) /\ pc[t] = "back"
    BY DEF ListInv, Back, BackCanceled, At
<1>2. /\ list' = Without(list, {t}) \/ list' = list
      /\ \E l \in Labels : pc' = [pc EXCEPT ![t] = l]
      /\ uaddr' = uaddr \/ uaddr' = [uaddr EXCEPT ![t] = None]
      /\ val' = val \/ val' = [val EXCEPT ![t] = None]
      /\ UNCHANGED word
    BY DEF Back, BackCanceled, Return, Forget, Goto, call, Labels, InWait
<1>3. \A b \in Addr : Announced(b) => Announced(b)'
  <2>1. \A v \in Thread : pc[v] = "changed" => pc'[v] = pc[v] /\ uaddr'[v] = uaddr[v]
      BY <1>1, <1>2 DEF PlaceTypes, OtherTypes
  <2>2. QED BY <2>1 DEF Announced
<1>4. \A u \in Thread : val'[u] \in {None, val[u]}
    BY <1>1, <1>2 DEF OtherTypes
<1>5. ASSUME NEW u \in Thread, NEW b \in Addr, WaitingOn(u, b)' PROVE WaitingOn(u, b)
  <2>1. PICK i \in DOMAIN list' : list'[i] = Info(u, b)
      BY <1>5 DEF WaitingOn, Info
  <2>2. CASE list' = list
      BY <2>1, <2>2 DEF WaitingOn
  <2>3. CASE list' = Without(list, {t})
    <3>1. list \in Seq(Entry)
        BY <1>1 DEF OtherTypes
    <3>2. \A e : (\E j \in DOMAIN list' : list'[j] = e)
                    <=> e.thread \notin {t} /\ \E j \in DOMAIN list : list[j] = e
        BY <2>3, <3>1, <1>1, WithoutList
    <3>3. QED BY <2>1, <3>2 DEF WaitingOn
  <2>4. QED BY <1>2, <2>2, <2>3
<1>6. QED BY <1>2, <1>3, <1>4, <1>5, SameNoticed

LEMMA HostNoticed ==
    ASSUME ListInv, ChangesNoticed, NEW t \in Thread,
           HostStep(t) \/ WakeAdd(t) \/ WakeSyscall(t) \/ Cancel(t)
    PROVE  ChangesNoticed'
<1> USE DEF At, Goto, call, HostStep, InWait, Sleeping
<1>1. PlaceTypes /\ Called(t)
    BY DEF ListInv
<1>2. UNCHANGED <<word, list, val, uaddr>>
    BY DEF OcallEnter, HostWait, HostTimeout, HostRestore, HostCheck, WakeAdd, WakeSyscall, Cancel
<1>3. \A v \in Thread : pc[v] = "changed" => pc'[v] = "changed"
    BY <1>1 DEF OcallEnter, HostWait, HostTimeout, HostRestore, HostCheck, WakeAdd, WakeSyscall,
                Cancel, PlaceTypes
<1>4. \A u \in Thread, b \in Addr : WaitingOn(u, b)' <=> WaitingOn(u, b)
    BY <1>2 DEF WaitingOn, Info
<1>5. \A b \in Addr : Announced(b) => Announced(b)'
    BY <1>2, <1>3 DEF Announced
<1>6. QED BY <1>2, <1>4, <1>5, SameNoticed

\* One wake has room for all who wait.
RoomForAll == Cardinality(Waiter \cap Thread) <= MaxWake

\* The wake-up after a change leaves nobody waiting on the word.
LEMMA AllWoken ==
    ASSUME ListInv, RoomForAll, NEW a \in Addr, NEW W \in SUBSET Waiting(a),
           Enough(W, a, Cardinality(Thread))
    PROVE  W = Waiting(a)
<1>1. IsFiniteSet(Waiter \cap Thread) /\ Cardinality(Waiter \cap Thread) <= Cardinality(Thread)
    BY FutexAssumption, FS_Subset
<1>2. Waiting(a) \in SUBSET (Waiter \cap Thread)
    BY DEF Waiting, WaitingOn, Info, Listed, ListInv, Called
<1>3. Cardinality(Waiting(a)) <= Cardinality(Waiter \cap Thread)
    BY <1>1, <1>2, FS_Subset
<1>4. /\ Cardinality(Thread) \in Nat /\ Cardinality(Waiter \cap Thread) \in Nat
      /\ Cardinality(Waiting(a)) \in Nat
  <2>1. IsFiniteSet(Waiting(a))
      BY <1>1, <1>2, FS_Subset
  <2>2. QED BY <1>1, <2>1, FutexAssumption, FS_CardinalityType
<1>5. ~(Most(Cardinality(Thread)) < Cardinality(Waiting(a)))
    BY <1>1, <1>3, <1>4, FutexAssumption DEF RoomForAll, Most
<1>6. QED BY <1>5 DEF Enough

LEMMA WakesNoticed ==
    ASSUME ListInv, RoomForAll, ChangesNoticed, NEW t \in Thread,
           WakeAll(t) \/ WakeOne(t) \/ Requeue(t)
    PROVE  ChangesNoticed'
<1>1. PlaceTypes /\ OtherTypes /\ pc[t] \in {"idle", "changed"}
    BY Wakers DEF ListInv
<1>2. PICK a \in Addr, a2 \in Addr, n \in Nat :
              \E W \in SUBSET Thread : \E q \in Seq(Thread) :
                 /\ Wakes(t, a, a2, W, q) /\ Enough(W, a, n)
                 /\ pc[t] = "changed" => a = uaddr[t] /\ a2 = a /\ n = Cardinality(Thread)
    BY Wakers
<1>3. PICK W \in SUBSET Thread, q \in Seq(Thread) :
                 /\ Wakes(t, a, a2, W, q) /\ Enough(W, a, n)
                 /\ pc[t] = "changed" => a = uaddr[t] /\ a2 = a /\ n = Cardinality(Thread)
    BY <1>2
<1>4. /\ \A u \in Thread, b \in Addr :
            WaitingOn(u, b)' <=> u \notin W /\ IF WaitingOn(u, a) THEN b = a2 ELSE WaitingOn(u, b)
      /\ \A u \in Thread : val'[u] = IF a # a2 /\ WaitingOn(u, a) /\ u \notin W THEN None ELSE val[u]
      /\ W \in SUBSET Waiting(a) /\ UNCHANGED word
      /\ \A v \in Thread \ {t} : pc'[v] = pc[v] /\ uaddr'[v] = uaddr[v]
    BY <1>1, <1>3 DEF Wakes, PlaceTypes, OtherTypes
<1>5. pc[t] = "changed" => W = Waiting(a) /\ a = uaddr[t]
    BY <1>3, <1>4, AllWoken
<1>6. ASSUME NEW u \in Thread, NEW b \in Addr PROVE Noticed(u, b)'
  <2>1. SUFFICES ASSUME WaitingOn(u, b)', val'[u] \notin {None, word'[b]} PROVE Announced(b)'
      BY DEF Noticed
  <2>2. WaitingOn(u, b) /\ val'[u] = val[u]
      BY <2>1, <1>4
  <2>3. PICK v \in Thread : pc[v] = "changed" /\ uaddr[v] = b
      BY <2>1, <2>2, <1>4 DEF ChangesNoticed, Noticed, Announced
  <2>4. v # t
      BY <2>1, <2>2, <2>3, <1>4, <1>5 DEF Waiting
  <2>5. QED BY <2>3, <2>4, <1>4 DEF Announced
<1>7. QED BY <1>6 DEF ChangesNoticed

\* Nobody waits for a word to change that has changed already, unless who changed it
\* is about to wake the waiters (ertfutex.c:180): as long as one call can wake them
\* all, because _wake takes no more than MaxWake, however many it is asked for.
THEOREM ChangesSeen == ASSUME RoomForAll PROVE Spec => []NoMissedChange
<1>1. Init => ChangesNoticed
  <2>1. ASSUME Init PROVE ChangesNoticed
    <3>1. DOMAIN list = {}
        BY <2>1 DEF Init
    <3>2. QED BY <3>1 DEF ChangesNoticed, Noticed, WaitingOn
  <2>2. QED BY <2>1
<1>2. ASSUME FutexInv, ChangesNoticed, [Next]_vars PROVE ChangesNoticed'
  <2>1. ListInv
      BY <1>2 DEF FutexInv
  <2>2. CASE UNCHANGED vars
      BY <1>2, <2>2 DEF ChangesNoticed, Noticed, WaitingOn, Announced, Info, vars, call
  <2>3. ASSUME NEW t \in Thread, Begin(t) \/ Step(t) PROVE ChangesNoticed'
    <3>1. CASE WakeAll(t) \/ WakeOne(t) \/ Requeue(t)
        BY <1>2, <2>1, <3>1, WakesNoticed, RoomForAll
    <3>2. QED BY <1>2, <2>1, <2>3, <3>1, ChangeNoticed, WaitNoticed, BackNoticed, HostNoticed
             DEF Begin, Step, HostStep
  <2>4. QED BY <1>2, <2>2, <2>3 DEF Next
<1>3. FutexInv /\ ChangesNoticed => NoMissedChange
  <2>1. SUFFICES ASSUME FutexInv, ChangesNoticed, NEW i \in DOMAIN list,
                        val[list[i].thread] \notin {None, word[list[i].uaddr]}
                 PROVE  \E u \in Thread : pc[u] = "changed" /\ uaddr[u] = list[i].uaddr
      BY DEF NoMissedChange
  <2>2. list[i] \in Entry
      BY <2>1 DEF FutexInv, ListInv, OtherTypes
  <2>3. list[i].thread \in Thread /\ list[i].uaddr \in Addr /\ list[i] = Info(list[i].thread, list[i].uaddr)
      BY <2>2 DEF Entry, Info
  <2>4. WaitingOn(list[i].thread, list[i].uaddr)
      BY <2>3 DEF WaitingOn
  <2>5. QED BY <2>1, <2>3, <2>4 DEF ChangesNoticed, Noticed, Announced
<1>4. QED BY <1>1, <1>2, <1>3, FutexInvariant, PTL DEF Spec

-----------------------------------------------------------------------------
(* The list and the counters are a futex *)

LEMMA WaitsOnList ==
    ASSUME NEW l \in Seq(Entry), Distinct(l), NEW u \in Thread
    PROVE  LET entries == {i \in DOMAIN l : l[i].thread = u}
               w == IF entries = {} THEN None ELSE l[CHOOSE i \in entries : TRUE].uaddr
           IN  /\ w \in Addr \cup {None}
               /\ \A b \in Addr : w = b <=> \E i \in DOMAIN l : l[i] = Info(u, b)
               /\ w = None <=> ~\E i \in DOMAIN l : l[i].thread = u
<1> DEFINE entries == {i \in DOMAIN l : l[i].thread = u}
           first == CHOOSE i \in entries : TRUE
           w == IF entries = {} THEN None ELSE l[first].uaddr
<1>1. ASSUME NEW i \in DOMAIN l
      PROVE  l[i].uaddr \in Addr /\ \A b \in Addr : l[i] = Info(u, b) <=> l[i].thread = u /\ l[i].uaddr = b
  <2>1. l[i] \in Entry
      OBVIOUS
  <2>2. QED BY <2>1 DEF Entry, Info
<1>2. CASE entries = {}
    BY <1>1, <1>2, FutexAssumption
<1>3. CASE entries # {}
  <2>1. first \in entries
      BY <1>3
  <2> HIDE DEF first
  <2>2. first \in DOMAIN l /\ l[first].thread = u /\ w = l[first].uaddr
      BY <2>1, <1>3
  <2>3. \A i \in DOMAIN l : l[i].thread = u => i = first
      BY <2>2 DEF Distinct
  <2> HIDE DEF w
  <2>4. w \in Addr /\ w # None
      BY <2>2, <1>1, FutexAssumption
  <2>5. \A b \in Addr : w = b <=> \E i \in DOMAIN l : l[i] = Info(u, b)
      BY <2>2, <2>3, <1>1
  <2>6. \E i \in DOMAIN l : l[i].thread = u
      BY <2>2
  <2>7. QED BY <2>4, <2>5, <2>6 DEF w, first
<1>4. QED BY <1>2, <1>3

LEMMA WaitsOnNow ==
    ASSUME ListInv, NEW u \in Thread
    PROVE  /\ WaitsOn(u) \in Addr \cup {None}
           /\ \A b \in Addr : WaitsOn(u) = b <=> WaitingOn(u, b)
           /\ WaitsOn(u) = None <=> ~Listed(u)
<1>1. list \in Seq(Entry) /\ Distinct(list)
    BY DEF ListInv, OtherTypes
<1>2. QED BY <1>1, WaitsOnList DEF WaitsOn, WaitingOn, Listed

LEMMA WaitsOnThen ==
    ASSUME ListInv', NEW u \in Thread
    PROVE  /\ WaitsOn(u)' \in Addr \cup {None}
           /\ \A b \in Addr : WaitsOn(u)' = b <=> WaitingOn(u, b)'
           /\ WaitsOn(u)' = None <=> ~Listed(u)'
<1>1. list' \in Seq(Entry) /\ Distinct(list')
    BY DEF ListInv, OtherTypes
<1>2. QED BY <1>1, WaitsOnList, SMTT(30) DEF WaitsOn, WaitingOn, Listed, Info

\* A thread whose words on the list are the same waits where it did.
LEMMA WaitsOnSame ==
    ASSUME ListInv, ListInv', NEW u \in Thread, \A b \in Addr : WaitingOn(u, b)' <=> WaitingOn(u, b)
    PROVE  WaitsOn(u)' = WaitsOn(u)
BY WaitsOnNow, WaitsOnThen

LEMMA Stutters ==
    ASSUME UNCHANGED <<list, popped, timedout, cancel>>
    PROVE  UNCHANGED Abstract!vars
BY DEF Abstract!vars, WaitsOn

LEMMA AbstractWait ==
    ASSUME ListInv, ListInv', NEW t \in Thread, Wait(t)
    PROVE  Abstract!Next
<1>1. PICK a \in Addr : list' = Append(list, Info(t, a))
    BY DEF Wait
<1>2. list \in Seq(Entry) /\ ~Listed(t) /\ ~popped[t] /\ UNCHANGED <<popped, timedout, cancel>>
    BY DEF Wait, ListInv, OtherTypes, Called, At, InWait, Sleeping
<1>3. \A u \in Thread, b \in Addr : Info(u, b).thread = u /\ Info(u, b).uaddr = b /\ Info(u, b) \in Entry
    BY DEF Info, Entry
<1>4. /\ Len(list) \in Nat /\ DOMAIN list = 1 .. Len(list) /\ DOMAIN list' = 1 .. Len(list) + 1
      /\ list'[Len(list) + 1] = Info(t, a) /\ \A i \in 1 .. Len(list) : list'[i] = list[i]
    BY <1>1, <1>2, <1>3
<1>5. ASSUME NEW u \in Thread PROVE WaitsOn(u)' = IF u = t THEN a ELSE WaitsOn(u)
  <2>1. CASE u = t
    <3>1. Len(list) + 1 \in DOMAIN list'
        BY <1>4
    <3>2. WaitingOn(t, a)'
        BY <1>4, <3>1 DEF WaitingOn, Info
    <3>3. QED BY <2>1, <3>2, WaitsOnThen
  <2>2. CASE u # t
    <3>1. ASSUME NEW b \in Addr PROVE WaitingOn(u, b)' <=> WaitingOn(u, b)
      <4>1. WaitingOn(u, b)' <=> \E i \in DOMAIN list' : list'[i] = Info(u, b)
          BY DEF WaitingOn, Info
      <4>2. Info(t, a) # Info(u, b)
          BY <1>3, <2>2
      <4>3. QED BY <1>4, <4>1, <4>2 DEF WaitingOn
    <3>2. QED BY <2>2, <3>1, WaitsOnSame
  <2>3. QED BY <2>1, <2>2
<1>6. WaitsOn(t) = None
    BY <1>2, WaitsOnNow
<1>7. Abstract!Wait(t, a)
    BY <1>2, <1>5, <1>6 DEF Abstract!Wait
<1>8. QED BY <1>7 DEF Abstract!Next

\* The end of a wait by a timeout or a cancelation.
LEMMA AbstractGiveUp ==
    ASSUME ListInv, ListInv', NEW t \in Thread, At(t, "back"), list' = Without(list, {t}), Forget(t),
           timedout[t] \/ cancel[t], UNCHANGED cancel
    PROVE  Abstract!Next
<1>1. /\ list \in Seq(Entry) /\ Distinct(list) /\ HistoryTypes
      /\ Listed(t) \/ popped[t]
    BY DEF ListInv, OtherTypes, Called, At, InWait
<1>2. \A e : (\E i \in DOMAIN list' : list'[i] = e)
                <=> e.thread \notin {t} /\ \E i \in DOMAIN list : list[i] = e
    BY <1>1, WithoutList
<1>3. ASSUME NEW u \in Thread PROVE WaitsOn(u)' = IF u = t THEN None ELSE WaitsOn(u)
  <2>1. CASE u = t
    <3>1. ~Listed(t)'
        BY <1>2 DEF Listed
    <3>2. QED BY <2>1, <3>1, WaitsOnThen
  <2>2. CASE u # t
    <3>1. ASSUME NEW b \in Addr PROVE WaitingOn(u, b)' <=> WaitingOn(u, b)
      <4>1. Info(u, b).thread \notin {t}
          BY <2>2 DEF Info
      <4>2. WaitingOn(u, b)' <=> \E i \in DOMAIN list' : list'[i] = Info(u, b)
          BY DEF WaitingOn, Info
      <4>3. QED BY <1>2, <4>1, <4>2 DEF WaitingOn
    <3>2. QED BY <2>2, <3>1, WaitsOnSame
  <2>3. QED BY <2>1, <2>2
<1>4. /\ {u \in Thread : popped'[u]} = {u \in Thread : popped[u]} \ {t}
      /\ {u \in Thread : timedout'[u]} = {u \in Thread : timedout[u]} \ {t}
    BY <1>1 DEF HistoryTypes, Forget
<1>5. WaitsOn(t) # None \/ popped[t]
    BY <1>1, WaitsOnNow
<1>6. Abstract!GiveUp(t)
    BY <1>3, <1>4, <1>5 DEF Abstract!GiveUp
<1>7. QED BY <1>6 DEF Abstract!Next

LEMMA AbstractReturn ==
    ASSUME ListInv, NEW t \in Thread, Back(t), ~timedout[t]
    PROVE  [Abstract!Next]_(Abstract!vars)
<1>1. CASE Listed(t)
  <2>1. UNCHANGED <<list, popped, timedout, cancel>>
      BY <1>1 DEF Back, call
  <2>2. QED BY <2>1, Stutters
<1>2. CASE ~Listed(t)
  <2>1. Forget(t) /\ UNCHANGED <<list, cancel>> /\ pc[t] = "back"
      BY <1>2 DEF Back, Return, At
  <2>2. HistoryTypes /\ popped[t]
      BY <1>2, <2>1 DEF ListInv, Called, InWait
  <2>3. /\ {u \in Thread : popped'[u]} = {u \in Thread : popped[u]} \ {t}
        /\ {u \in Thread : timedout'[u]} = {u \in Thread : timedout[u]}
      BY <2>1, <2>2 DEF HistoryTypes, Forget
  <2>4. \A u \in Thread : WaitsOn(u)' = WaitsOn(u)
      BY <2>1 DEF WaitsOn
  <2>5. Abstract!Return(t)
      BY <2>1, <2>2, <2>3, <2>4 DEF Abstract!Return
  <2>6. QED BY <2>5 DEF Abstract!Next
<1>3. QED BY <1>1, <1>2

LEMMA AbstractTimeout ==
    ASSUME ListInv, NEW t \in Thread, HostRestore(t)
    PROVE  Abstract!Next
<1>1. HistoryTypes /\ pc[t] = "host_timeout" /\ (Listed(t) \/ popped[t])
    BY DEF ListInv, HostRestore, At, Called, InWait, Sleeping
<1>2. UNCHANGED <<list, popped, cancel>> /\ timedout' = [timedout EXCEPT ![t] = TRUE]
    BY DEF HostRestore
<1>3. {u \in Thread : timedout'[u]} = {u \in Thread : timedout[u]} \cup {t}
    BY <1>1, <1>2 DEF HistoryTypes
<1>4. WaitsOn(t) # None \/ popped[t]
    BY <1>1, WaitsOnNow
<1>5. \A u \in Thread : WaitsOn(u)' = WaitsOn(u)
    BY <1>2 DEF WaitsOn
<1>6. Abstract!Timeout(t)
    BY <1>2, <1>3, <1>4, <1>5 DEF Abstract!Timeout
<1>7. QED BY <1>6 DEF Abstract!Next

LEMMA AbstractCancel ==
    ASSUME ListInv, NEW t \in Thread, Cancel(t)
    PROVE  Abstract!Next
<1>1. HistoryTypes
    BY DEF ListInv
<1>2. PICK u \in Thread : cancel' = [cancel EXCEPT ![u] = TRUE]
    BY FutexAssumption DEF Cancel
<1>3. UNCHANGED <<list, popped, timedout>>
    BY DEF Cancel, call
<1>4. {v \in Thread : cancel'[v]} = {v \in Thread : cancel[v]} \cup {u}
    BY <1>1, <1>2 DEF HistoryTypes
<1>5. \A v \in Thread : WaitsOn(v)' = WaitsOn(v)
    BY <1>3 DEF WaitsOn
<1>6. Abstract!Cancel(u)
    BY <1>3, <1>4, <1>5 DEF Abstract!Cancel
<1>7. QED BY <1>6 DEF Abstract!Next

\* Futex counts with a FiniteSets of its own.
LEMMA SameCardinality ==
    ASSUME NEW S
    PROVE  Abstract!Cardinality(S) = Cardinality(S)
BY DEF Abstract!Cardinality, Cardinality

LEMMA AbstractWake ==
    ASSUME ListInv, ListInv', NEW t \in Thread, WakeAll(t) \/ WakeOne(t) \/ Requeue(t)
    PROVE  Abstract!Next
<1>1. PICK a \in Addr, a2 \in Addr, n \in Nat :
         \E W \in SUBSET Thread : \E q \in Seq(Thread) : Wakes(t, a, a2, W, q) /\ Enough(W, a, n)
    BY Wakers
<1>2. PICK W \in SUBSET Thread, q \in Seq(Thread) : Wakes(t, a, a2, W, q) /\ Enough(W, a, n)
    BY <1>1
<1>3. /\ \A u \in Thread, b \in Addr :
            WaitingOn(u, b)' <=> u \notin W /\ IF WaitingOn(u, a) THEN b = a2 ELSE WaitingOn(u, b)
      /\ popped' = [u \in Thread |-> popped[u] \/ u \in W]
      /\ W \in SUBSET Waiting(a) /\ UNCHANGED <<timedout, cancel>>
    BY <1>2 DEF Wakes
<1>4. \A u \in Thread : WaitsOn(u) = a <=> u \in Waiting(a)
    BY WaitsOnNow DEF Waiting
<1>5. Abstract!On(a) = Waiting(a)
    BY <1>4 DEF Abstract!On, Waiting
<1>6. Cardinality(W) = Most(n) \/ (W = Abstract!On(a) /\ Cardinality(W) < Most(n))
  <2>1. IsFiniteSet(W)
      BY FutexAssumption, FS_Subset
  <2>2. Cardinality(W) \in Nat /\ Most(n) \in Nat
      BY <2>1, FS_CardinalityType, FutexAssumption DEF Most
  <2>3. QED BY <1>2, <1>5, <2>2 DEF Enough
<1>7. ASSUME NEW u \in Thread
      PROVE  WaitsOn(u)' = IF u \in W THEN None ELSE IF u \in Abstract!On(a) THEN a2 ELSE WaitsOn(u)
  <2>1. CASE u \in W
      BY <2>1, <1>3, WaitsOnThen
  <2>2. CASE u \notin W /\ WaitingOn(u, a)
    <3>1. WaitingOn(u, a2)'
        BY <2>2, <1>3
    <3>2. WaitsOn(u)' = a2
        BY <3>1, WaitsOnThen
    <3>3. QED BY <2>2, <3>2, <1>5 DEF Waiting
  <2>3. CASE u \notin W /\ ~WaitingOn(u, a)
    <3>1. WaitsOn(u)' = WaitsOn(u)
        BY <2>3, <1>3, WaitsOnSame
    <3>2. QED BY <2>3, <3>1, <1>5 DEF Waiting
  <2>4. QED BY <2>1, <2>2, <2>3
<1>8. {u \in Thread : popped'[u]} = {u \in Thread : popped[u]} \cup W
    BY <1>3
<1>9. Most(n) \in 0 .. MaxWake
    BY FutexAssumption DEF Most
<1>10. Abstract!Wake(a, Most(n), a2)
  <2>1. W \in SUBSET Abstract!On(a)
      BY <1>3, <1>5
  <2>2. [u \in Thread |-> WaitsOn(u)']
           = [u \in Thread |-> IF u \in W THEN None
                               ELSE IF u \in Abstract!On(a) THEN a2 ELSE [v \in Thread |-> WaitsOn(v)][u]]
      BY <1>7
  <2>3. /\ {u \in Thread : timedout'[u]} = {u \in Thread : timedout[u]}
        /\ {u \in Thread : cancel'[u]} = {u \in Thread : cancel[u]}
      BY <1>3
  <2>4. \E V \in SUBSET Abstract!On(a) :
           /\ Cardinality(V) = Most(n) \/ (V = Abstract!On(a) /\ Cardinality(V) < Most(n))
           /\ [u \in Thread |-> WaitsOn(u)']
                = [u \in Thread |-> IF u \in V THEN None
                                    ELSE IF u \in Abstract!On(a) THEN a2 ELSE [v \in Thread |-> WaitsOn(v)][u]]
           /\ {u \in Thread : popped'[u]} = {u \in Thread : popped[u]} \cup V
           /\ {u \in Thread : timedout'[u]} = {u \in Thread : timedout[u]}
           /\ {u \in Thread : cancel'[u]} = {u \in Thread : cancel[u]}
      BY <2>1, <2>2, <2>3, <1>6, <1>8
  <2>5. QED BY <2>4, SameCardinality DEF Abstract!Wake
<1>11. QED BY <1>9, <1>10 DEF Abstract!Next

LEMMA AbstractStep ==
    ASSUME ListInv, ListInv', [Next]_vars
    PROVE  [Abstract!Next]_(Abstract!vars)
<1>1. CASE UNCHANGED vars
    BY <1>1, Stutters DEF vars, call
<1>2. ASSUME NEW t \in Thread, Begin(t) \/ Step(t) PROVE [Abstract!Next]_(Abstract!vars)
  <2>1. CASE Change(t) \/ OcallEnter(t) \/ HostWait(t) \/ HostTimeout(t) \/ HostCheck(t)
             \/ WakeAdd(t) \/ WakeSyscall(t)
    <3>1. UNCHANGED <<list, popped, timedout, cancel>>
        BY <2>1 DEF Change, OcallEnter, HostWait, HostTimeout, HostCheck, WakeAdd, WakeSyscall, call
    <3>2. QED BY <3>1, Stutters
  <2>2. CASE Back(t) /\ timedout[t]
      BY <2>2, AbstractGiveUp DEF Back, Return
  <2>3. CASE BackCanceled(t)
      BY <2>3, AbstractGiveUp DEF BackCanceled
  <2>4. QED BY <1>2, <2>1, <2>2, <2>3, AbstractWait, AbstractReturn, AbstractTimeout, AbstractCancel,
               AbstractWake DEF Begin, Step
<1>3. QED BY <1>1, <1>2 DEF Next

\* Together, the enclave's list and the host's counters are a futex (the calls of
\* libc/ertfutex.c:268, as futex(2) specifies them).
THEOREM FutexImplemented == Spec => ImplementsFutex
<1>1. Init => Abstract!Init
  <2>1. ASSUME Init PROVE Abstract!Init
    <3>1. DOMAIN list = {}
        BY <2>1 DEF Init
    <3>2. \A u \in Thread : WaitsOn(u) = None
        BY <3>1 DEF WaitsOn
    <3>3. \A u \in Thread : ~popped[u] /\ ~timedout[u] /\ ~cancel[u]
        BY <2>1 DEF Init
    <3>4. QED BY <3>2, <3>3 DEF Abstract!Init
  <2>2. QED BY <2>1
<1>2. ListInv /\ ListInv' /\ [Next]_vars => [Abstract!Next]_(Abstract!vars)
    BY AbstractStep
<1>3. FutexInv => ListInv
    BY DEF FutexInv
<1>4. QED BY <1>1, <1>2, <1>3, FutexInvariant, PTL DEF Spec, ImplementsFutex, Abstract!Spec
=============================================================================
