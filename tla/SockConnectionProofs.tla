------------------------ MODULE SockConnectionProofs -------------------------
(***************************************************************************)
(* SockConnection: the type invariant, the counts of the sockets, that the *)
(* last closer frees the connection, that no wake-up is lost and the       *)
(* eventfds agree with the buffers, and that the connection implements     *)
(* StreamSockets, for any number of threads, sockets, bytes and calls.     *)
(***************************************************************************)
EXTENDS SockConnection, FiniteSetTheorems, TLAPS

(* The inductive invariant under which the counts are exact. *)

\* A call on a socket that the application keeps open during the call.
Using(t) == \/ pc[t] \in {"recv_lock", "recv_read", "recv_check", "recv_wait",
                          "send_lock", "send_check", "send_write", "send_wait",
                          "poll_signal", "poll_mark", "poll_clear"}
            \/ pc[t] \in {"add_spin", "add_mutex"} /\ flag[t]
AcceptedBy(t) == pc[t] \in {"add_spin", "add_mutex"} /\ ~flag[t]
\* The server's count stands for a socket that does not exist yet.
Promised(side) == side = "server" /\ (pending \/ Accepting)
\* No socket is left, and none will come.
Dead(side) == OpenSocks(side) = {} /\ ~Promised(side)

UsedIsOpen == \A t \in Thread : Using(t) => sk[cur[t]] = "open"
ClosedOnce == \A t \in Thread : pc[t] = "close_count" =>
                 /\ sk[cur[t]] = "closing"
                 /\ \A u \in Thread : pc[u] = "close_count" /\ cur[u] = cur[t] => u = t
AcceptedOnce == /\ \A t \in Thread : AcceptedBy(t) =>
                      /\ ~pending /\ cur[t] \in ServerSock
                      /\ \A u \in Thread : AcceptedBy(u) => u = t
                /\ pending \/ Accepting => \A s \in ServerSock : sk[s] = "unused"
FreedIsDead == freed => Dead("client") /\ Dead("server")
Knows(t) == (left[t] = 0 => Dead(MySide(t))) /\ (flag[t] => Dead(Peer(t)))
CloserKnows == \A t \in Thread : pc[t] = "close_remove" => Knows(t)

CountInv == /\ TypeOK
            /\ UsedIsOpen /\ ClosedOnce /\ AcceptedOnce /\ FreedIsDead /\ CloserKnows
            /\ RefcountsExact
-----------------------------------------------------------------------------
(* Counting *)

\* Every socket is on one side, and every side has another.
LEMMA SidesOfSocks ==
    /\ \A s \in Sock : SideOf(s) \in Side
    /\ \A side \in Side : Other(side) \in Side /\ Other(side) # side /\ Other(Other(side)) = side
BY SockAssumption DEF Sock, SideOf, Side, Other

\* A side has finitely many open sockets.
LEMMA OpenSocksFinite ==
    ASSUME NEW side PROVE IsFiniteSet(OpenSocks(side)) /\ Cardinality(OpenSocks(side)) \in Nat
<1>1. OpenSocks(side) \subseteq Sock
    BY DEF OpenSocks
<1>2. IsFiniteSet(OpenSocks(side))
    BY <1>1, SockAssumption, FS_Subset DEF Sock
<1>3. QED BY <1>2, FS_CardinalityType

\* A count is 0 exactly when the side is dead.
LEMMA CountZero ==
    ASSUME CountInv, ~freed, NEW side \in Side
    PROVE  /\ ref[side] = 0 <=> Dead(side)
           /\ OpenSocks(side) # {} => ref[side] > 0
           /\ Promised(side) => ref[side] > 0
<1>1. ref[side] = Cardinality(OpenSocks(side)) + (IF Promised(side) THEN 1 ELSE 0)
    BY DEF CountInv, RefcountsExact, Promised
<1>2. Cardinality(OpenSocks(side)) \in Nat /\ (Cardinality(OpenSocks(side)) = 0 <=> OpenSocks(side) = {})
    BY OpenSocksFinite, FS_EmptySet
<1>3. QED BY <1>1, <1>2 DEF Dead

-----------------------------------------------------------------------------
(* Most steps change neither counts nor sockets: what they do to the caller. *)

CountsKept == UNCHANGED <<pending, freed, ref, sk>>

InUse == {"recv_lock", "recv_read", "recv_check", "recv_wait",
          "send_lock", "send_check", "send_write", "send_wait",
          "poll_signal", "poll_mark", "poll_clear"}
Closing == {"close_remove", "close_notify"}

\* The caller goes on.
Moves(t, from, to) == /\ pc[t] = from /\ pc' = [pc EXCEPT ![t] = to]
                      /\ UNCHANGED <<cur, flag>>
                      /\ \E n \in Nat : left' = [left EXCEPT ![t] = n]
MovesOn(t) == \E from, to \in Labels :
                 /\ Moves(t, from, to)
                 /\ \/ from \in InUse /\ to \in InUse
                    \/ from = "add_spin" /\ to = "add_mutex"
                    \/ from = "close_remove" /\ to = "close_notify"
Returns(t) == pc[t] \in InUse \cup Closing /\ Return(t)
Starts(t) == \E s \in Sock, label \in Labels, n \in Nat : \E f :
                /\ Begin(t, s, label, n, f) /\ sk[s] = "open"
                /\ label \in InUse \/ (label = "add_spin" /\ f)
Quiet(t) == MovesOn(t) \/ Returns(t) \/ Starts(t)

\* Goto is a move that leaves the bytes alone.
LEMMA GotoMoves ==
    ASSUME TypeOK, NEW t \in Thread, NEW from, NEW to, pc[t] = from, Goto(t, to)
    PROVE  Moves(t, from, to)
<1>1. left \in [Thread -> Nat]
    BY DEF TypeOK
<1>2. left' = [left EXCEPT ![t] = left[t]] /\ left[t] \in Nat
    BY <1>1 DEF Goto
<1>3. QED BY <1>2, Zenon DEF Moves, Goto

\* All the steps but the ones below change neither counts nor sockets.
LEMMA QuietSteps ==
    ASSUME TypeOK, NEW t \in Thread,
           \/ BeginRecv(t) \/ BeginSend(t) \/ BeginDup(t) \/ PollCreate(t)
           \/ RecvLock(t) \/ RecvCheck(t) \/ RecvWake(t) \/ SendLock(t) \/ SendCheck(t)
           \/ SendWake(t) \/ AddSpin(t) \/ (CloseNotify(t) /\ ~freed) \/ OwnStep(t)
    PROVE  Quiet(t) /\ CountsKept
<1> USE GotoMoves DEF Quiet, MovesOn, Returns, CountsKept, InUse, Closing, Labels, At, shared
<1>1. CASE BeginRecv(t) BY <1>1, SizeAssumption DEF BeginRecv, Starts
<1>2. CASE BeginSend(t) BY <1>2, SizeAssumption DEF BeginSend, Starts
<1>3. CASE BeginDup(t) BY <1>3 DEF BeginDup, Starts
<1>4. CASE PollCreate(t)
  <2>1. PICK s \in Sock : sk[s] = "open" /\ Begin(t, s, "poll_signal", 0, buf[SideOf(s)] > 0)
      BY <1>4, Zenon DEF PollCreate
  <2>2. \E f : Begin(t, s, "poll_signal", 0, f)
      BY <2>1, Zenon
  <2>3. CountsKept
      BY <1>4 DEF PollCreate
  <2>4. QED BY <2>1, <2>2, <2>3 DEF Starts
<1>5. CASE RecvLock(t) BY <1>5 DEF RecvLock
<1>6. CASE RecvCheck(t) BY <1>6 DEF RecvCheck
<1>7. CASE RecvWake(t) BY <1>7 DEF RecvWake
<1>8. CASE SendLock(t) BY <1>8 DEF SendLock
<1>9. CASE SendCheck(t) BY <1>9 DEF SendCheck
<1>10. CASE SendWake(t) BY <1>10 DEF SendWake
<1>11. CASE AddSpin(t) BY <1>11 DEF AddSpin
<1>12. CASE CloseNotify(t) /\ ~freed BY <1>12 DEF CloseNotify, UseAfterFree
<1>13. CASE RecvRead(t) BY <1>13 DEF RecvRead, RecvSome
<1>14. CASE SendWrite(t)
  <2>1. pc[t] = "send_write" /\ CountsKept
      BY <1>14 DEF SendWrite
  <2>2. CASE Return(t)
      BY <2>1, <2>2
  <2>3. CASE ~Return(t)
    <3> DEFINE n == Lesser(left[t], Room(Peer(t)))
    <3>1. /\ left[t] > n /\ left' = [left EXCEPT ![t] = @ - n]
          /\ pc' = [pc EXCEPT ![t] = "send_wait"] /\ UNCHANGED <<cur, flag>>
        BY <1>14, <2>3, Zenon DEF SendWrite
    <3>2. n \in Nat
        BY SizeAssumption, SidesOfSocks DEF TypeOK, Lesser, Room, Peer
    <3>3. left[t] - n \in Nat
        BY <3>1, <3>2 DEF TypeOK
    <3>4. \E k \in Nat : left' = [left EXCEPT ![t] = k]
        BY <3>1, <3>3, Zenon
    <3>5. Moves(t, "send_write", "send_wait")
        BY <2>1, <3>1, <3>4, Zenon DEF Moves
    <3>6. QED BY <2>1, <3>5
  <2>4. QED BY <2>2, <2>3
<1>15. CASE PollSignal(t) BY <1>15 DEF PollSignal
<1>16. CASE PollMark(t) BY <1>16 DEF PollMark
<1>17. CASE PollClear(t) BY <1>17 DEF PollClear
<1>18. QED BY <1>1, <1>2, <1>3, <1>4, <1>5, <1>6, <1>7, <1>8, <1>9, <1>10, <1>11, <1>12, <1>13, <1>14, <1>15, <1>16, <1>17 DEF OwnStep

\* What the invariant needs to know of such a step.
Undisturbed ==
    /\ \A u \in Thread : AcceptedBy(u)' <=> AcceptedBy(u)
    /\ \A u \in Thread : AcceptedBy(u) => cur'[u] = cur[u]
    /\ \A u \in Thread : Using(u)' => sk[cur'[u]] = "open"
    /\ \A u \in Thread : pc'[u] = "close_count" => pc[u] = "close_count" /\ cur'[u] = cur[u]
    /\ \A u \in Thread : pc'[u] = "close_remove" =>
          pc[u] = "close_remove" /\ cur'[u] = cur[u] /\ left'[u] = left[u] /\ flag'[u] = flag[u]

\* Such a step disturbs nothing that the counts depend on.
LEMMA QuietUndisturbed ==
    ASSUME CountInv, NEW t \in Thread, Quiet(t)
    PROVE  Undisturbed
<1> USE DEF Undisturbed, CountInv, UsedIsOpen, Using, AcceptedBy, InUse, Closing
<1>0. /\ pc \in [Thread -> Labels] /\ cur \in [Thread -> Sock]
      /\ left \in [Thread -> Nat] /\ flag \in [Thread -> BOOLEAN]
    BY DEF TypeOK
<1>1. CASE MovesOn(t)
  <2>1. PICK from \in Labels, to \in Labels :
              /\ pc[t] = from /\ pc' = [pc EXCEPT ![t] = to]
              /\ cur' = cur /\ flag' = flag
              /\ \A u \in Thread : u # t => left'[u] = left[u]
              /\ \/ from \in InUse /\ to \in InUse
                 \/ from = "add_spin" /\ to = "add_mutex"
                 \/ from = "close_remove" /\ to = "close_notify"
      BY <1>0, <1>1 DEF MovesOn, Moves
  <2>2. QED BY <1>0, <2>1
<1>2. CASE Returns(t)
    BY <1>0, <1>2 DEF Returns, Return
<1>3. CASE Starts(t)
  <2>1. PICK s \in Sock, label \in Labels, n \in Nat :
              \E f : /\ Begin(t, s, label, n, f) /\ sk[s] = "open"
                     /\ label \in InUse \/ (label = "add_spin" /\ f)
      BY <1>3 DEF Starts
  <2>2. PICK f : /\ Begin(t, s, label, n, f) /\ sk[s] = "open"
                 /\ label \in InUse \/ (label = "add_spin" /\ f)
      BY <2>1
  <2>3. QED BY <1>0, <2>2 DEF Begin, Idle, At
<1>4. QED BY <1>1, <1>2, <1>3 DEF Quiet

\* Sockets and promised sockets stay what they are.
LEMMA Unaffected ==
    ASSUME sk' = sk, pending' = pending, \A u \in Thread : AcceptedBy(u)' <=> AcceptedBy(u)
    PROVE  /\ Accepting' <=> Accepting
           /\ \A side \in Side : /\ OpenSocks(side)' = OpenSocks(side)
                                 /\ Promised(side)' <=> Promised(side)
                                 /\ Dead(side)' <=> Dead(side)
<1>1. Accepting' <=> Accepting
    BY DEF Accepting, AcceptedBy
<1>2. \A side \in Side : OpenSocks(side)' = OpenSocks(side)
    BY DEF OpenSocks, SideOf
<1>3. QED BY <1>1, <1>2 DEF Promised, Dead

\* What a closer has found out stays true, because a dead side stays dead.
LEMMA KnowsKept ==
    ASSUME TypeOK, \A side \in Side : Dead(side) => Dead(side)', NEW u \in Thread, Knows(u),
           cur'[u] = cur[u], left'[u] = left[u], flag'[u] = flag[u]
    PROVE  Knows(u)'
<1>1. MySide(u) \in Side /\ Peer(u) \in Side
    BY SidesOfSocks DEF MySide, Peer, TypeOK
<1>2. MySide(u)' = MySide(u) /\ Peer(u)' = Peer(u)
    BY DEF MySide, Peer
<1>3. (Dead(MySide(u)) => Dead(MySide(u))') /\ (Dead(Peer(u)) => Dead(Peer(u))')
    BY <1>1, <1>2 DEF Dead, OpenSocks, Promised
<1>4. QED BY <1>3 DEF Knows

\* A step that disturbs nothing keeps the counts exact.
LEMMA QuietInvariant ==
    ASSUME CountInv, TypeOK', Undisturbed, CountsKept
    PROVE  CountInv'
<1>1. /\ Accepting' <=> Accepting
      /\ \A side \in Side : /\ OpenSocks(side)' = OpenSocks(side)
                            /\ Promised(side)' <=> Promised(side)
                            /\ Dead(side)' <=> Dead(side)
    BY Unaffected DEF Undisturbed, CountsKept
<1>2. UsedIsOpen'
    BY DEF UsedIsOpen, Undisturbed, CountsKept
<1>3. ClosedOnce'
    BY DEF CountInv, ClosedOnce, Undisturbed, CountsKept
<1>4. AcceptedOnce'
    BY <1>1 DEF CountInv, AcceptedOnce, Undisturbed, CountsKept
<1>5. FreedIsDead'
    BY <1>1 DEF CountInv, FreedIsDead, CountsKept, Side
<1>6. CloserKnows'
    BY <1>1, KnowsKept DEF CountInv, CloserKnows, Undisturbed
<1>7. RefcountsExact'
    BY <1>1 DEF CountInv, RefcountsExact, CountsKept, Promised
<1>8. QED BY <1>2, <1>3, <1>4, <1>5, <1>6, <1>7 DEF CountInv
-----------------------------------------------------------------------------
(* The steps that change counts or sockets. *)

\* Nor does a step that leaves every call where it is.
LEMMA StillUndisturbed ==
    ASSUME CountInv, UNCHANGED local
    PROVE  Undisturbed
BY DEF Undisturbed, local, CountInv, UsedIsOpen, Using, AcceptedBy

\* accept() takes the connection out of the backlog: the promised socket is now the caller's.
LEMMA AcceptInvariant ==
    ASSUME CountInv, TypeOK', NEW t \in Thread, BeginAccept(t)
    PROVE  CountInv'
<1>0. /\ pc \in [Thread -> Labels] /\ cur \in [Thread -> Sock]
      /\ left \in [Thread -> Nat] /\ flag \in [Thread -> BOOLEAN]
    BY DEF CountInv, TypeOK
<1>1. /\ pending = TRUE /\ pending' = FALSE /\ pc[t] = "idle"
      /\ UNCHANGED <<freed, ref, sk>>
    BY DEF BeginAccept, Begin, Idle, At
<1>2. PICK s \in ServerSock : /\ pc' = [pc EXCEPT ![t] = "add_spin"] /\ cur' = [cur EXCEPT ![t] = s]
                              /\ left' = [left EXCEPT ![t] = 0] /\ flag' = [flag EXCEPT ![t] = FALSE]
    BY DEF BeginAccept, Begin
<1>3. /\ \A u \in Thread : ~AcceptedBy(u)
      /\ \A u \in Thread : AcceptedBy(u)' <=> u = t
    BY <1>0, <1>1, <1>2 DEF CountInv, AcceptedOnce, AcceptedBy
<1>4. Accepting' /\ ~Accepting
    BY <1>3 DEF Accepting, AcceptedBy
<1>5. \A side \in Side : /\ OpenSocks(side)' = OpenSocks(side)
                         /\ Promised(side)' <=> Promised(side)
                         /\ Dead(side)' <=> Dead(side)
    BY <1>1, <1>4 DEF OpenSocks, SideOf, Promised, Dead
<1>6. UsedIsOpen'
    BY <1>0, <1>1, <1>2 DEF CountInv, UsedIsOpen, Using
<1>7. ClosedOnce'
    BY <1>0, <1>1, <1>2 DEF CountInv, ClosedOnce
<1>8. AcceptedOnce'
    BY <1>0, <1>1, <1>2, <1>3, <1>4 DEF CountInv, AcceptedOnce
<1>9. FreedIsDead'
    BY <1>1, <1>5 DEF CountInv, FreedIsDead, Side
<1>10. CloserKnows'
    BY <1>0, <1>2, <1>5, KnowsKept DEF CountInv, CloserKnows
<1>11. RefcountsExact'
    BY <1>1, <1>4, <1>5 DEF CountInv, RefcountsExact
<1>12. QED BY <1>6, <1>7, <1>8, <1>9, <1>10, <1>11 DEF CountInv

\* A socket that is being closed still counts.
LEMMA CloseInvariant ==
    ASSUME CountInv, TypeOK', NEW t \in Thread, BeginClose(t)
    PROVE  CountInv'
<1>0. /\ pc \in [Thread -> Labels] /\ cur \in [Thread -> Sock] /\ flag \in [Thread -> BOOLEAN]
      /\ left \in [Thread -> Nat] /\ sk \in [Sock -> {"unused", "open", "closing", "closed"}]
    BY DEF CountInv, TypeOK
<1>1. pc[t] = "idle" /\ UNCHANGED <<pending, freed, ref>>
    BY DEF BeginClose, Begin, Idle, At
<1>2. PICK s \in Sock : /\ sk[s] = "open" /\ ~Busy(s) /\ sk' = [sk EXCEPT ![s] = "closing"]
                        /\ pc' = [pc EXCEPT ![t] = "close_count"] /\ cur' = [cur EXCEPT ![t] = s]
                        /\ left' = [left EXCEPT ![t] = 0] /\ flag' = [flag EXCEPT ![t] = FALSE]
    BY DEF BeginClose, Begin
<1>3. \A u \in Thread : AcceptedBy(u)' <=> AcceptedBy(u)
    BY <1>0, <1>1, <1>2 DEF AcceptedBy
<1>4. Accepting' <=> Accepting
    BY <1>3 DEF Accepting, AcceptedBy
<1>5. \A side \in Side : /\ OpenSocks(side)' = OpenSocks(side)
                         /\ Promised(side)' <=> Promised(side)
                         /\ Dead(side)' <=> Dead(side)
  <2>1. \A x \in Sock : sk'[x] \in {"open", "closing"} <=> sk[x] \in {"open", "closing"}
      BY <1>0, <1>2
  <2>2. \A side \in Side : OpenSocks(side)' = OpenSocks(side)
      BY <2>1 DEF OpenSocks, SideOf
  <2>3. QED BY <2>2, <1>1, <1>4 DEF Promised, Dead
<1>6. \A u \in Thread : u # t /\ pc[u] # "idle" => cur[u] # s
    BY <1>2 DEF Busy
<1>7. UsedIsOpen'
    BY <1>0, <1>1, <1>2, <1>6 DEF CountInv, UsedIsOpen, Using
<1>8. ClosedOnce'
    BY <1>0, <1>1, <1>2, <1>6 DEF CountInv, ClosedOnce
<1>9. AcceptedOnce'
    BY <1>0, <1>1, <1>2, <1>3, <1>4, SockAssumption DEF CountInv, AcceptedOnce, AcceptedBy
<1>10. FreedIsDead'
    BY <1>1, <1>5 DEF CountInv, FreedIsDead, Side
<1>11. CloserKnows'
    BY <1>0, <1>2, <1>5, KnowsKept DEF CountInv, CloserKnows
<1>12. RefcountsExact'
    BY <1>1, <1>4, <1>5 DEF CountInv, RefcountsExact
<1>13. QED BY <1>7, <1>8, <1>9, <1>10, <1>11, <1>12 DEF CountInv

\* dup() adds a socket to a side that has one; accept() adds the one that was promised.
LEMMA AddInvariant ==
    ASSUME CountInv, TypeOK', NEW t \in Thread, AddMutex(t)
    PROVE  CountInv'
<1>0. /\ pc \in [Thread -> Labels] /\ cur \in [Thread -> Sock] /\ flag \in [Thread -> BOOLEAN]
      /\ left \in [Thread -> Nat] /\ sk \in [Sock -> {"unused", "open", "closing", "closed"}]
      /\ ref \in [Side -> Nat]
    BY DEF CountInv, TypeOK
<1>1. CASE UNCHANGED <<socks, ref, sk, spin, local>>
    BY <1>1, StillUndisturbed, QuietInvariant DEF AddMutex, CountsKept
<1>2. CASE ~UNCHANGED <<socks, ref, sk, spin, local>>
  <2>0. PICK my \in Side : my = MySide(t)
      BY <1>0, SidesOfSocks DEF MySide
  <2>1. /\ pc[t] = "add_mutex" /\ pending' = pending /\ freed' = freed
        /\ ref' = [ref EXCEPT ![my] = @ + AddedCount(t)] /\ Return(t)
      BY <1>2, <2>0, Zenon DEF AddMutex, At
  <2>2. PICK new \in Sock : /\ sk[new] = "unused" /\ SideOf(new) = my
                            /\ sk' = [sk EXCEPT ![new] = "open"]
      BY <1>2, <2>0, Zenon DEF AddMutex
  <2>3. /\ flag[t] => sk[cur[t]] = "open" /\ cur[t] \in OpenSocks(my)
        /\ ~flag[t] => AcceptedBy(t) /\ Accepting /\ my = "server" /\ cur[t] \in ServerSock
    <3>1. flag[t] => Using(t)
        BY <2>1 DEF Using
    <3>2. ~flag[t] => AcceptedBy(t)
        BY <2>1 DEF AcceptedBy
    <3>3. AcceptedBy(t) => cur[t] \in ServerSock
        BY DEF CountInv, AcceptedOnce
    <3>4. QED BY <1>0, <2>0, <3>1, <3>2, <3>3, SockAssumption
                 DEF CountInv, UsedIsOpen, OpenSocks, MySide, SideOf, Accepting, AcceptedBy
  <2>4. ~Dead(my)
      BY <2>3 DEF Dead, Promised
  <2>5. ~freed
      BY <2>4 DEF CountInv, FreedIsDead, Side
  <2>6. OpenSocks(my)' = OpenSocks(my) \cup {new} /\ new \notin OpenSocks(my)
      BY <1>0, <2>2 DEF OpenSocks, SideOf
  <2>7. \A side \in Side : side # my => OpenSocks(side)' = OpenSocks(side)
      BY <1>0, <2>2 DEF OpenSocks, SideOf
  <2>8. Cardinality(OpenSocks(my)') = Cardinality(OpenSocks(my)) + 1
      BY <2>6, OpenSocksFinite, FS_AddElement
  <2>9. /\ \A u \in Thread : AcceptedBy(u)' <=> AcceptedBy(u) /\ u # t
        /\ \A u \in Thread : u # t => pc'[u] = pc[u] /\ cur'[u] = cur[u] /\ left'[u] = left[u]
                                     /\ flag'[u] = flag[u]
        /\ pc'[t] = "idle"
      BY <1>0, <2>1 DEF Return, AcceptedBy
  <2>10. /\ flag[t] => (Accepting' <=> Accepting)
         /\ ~flag[t] => ~Accepting'
    <3>1. Accepting <=> \E u \in Thread : AcceptedBy(u)
        BY DEF Accepting, AcceptedBy
    <3>2. Accepting' <=> \E u \in Thread : AcceptedBy(u)'
        BY DEF Accepting, AcceptedBy
    <3>3. flag[t] => ~AcceptedBy(t)
        BY DEF AcceptedBy
    <3>4. AcceptedBy(t) => \A u \in Thread : AcceptedBy(u) => u = t
        BY DEF CountInv, AcceptedOnce
    <3>5. QED BY <2>3, <2>9, <3>1, <3>2, <3>3, <3>4
  <2>11. ~pending \/ flag[t]
      BY <2>3 DEF CountInv, AcceptedOnce
  <2>12. \A side \in Side : side # my => (Promised(side)' <=> Promised(side))
      BY <2>1, <2>3, <2>10 DEF Promised
  <2>13. \A side \in Side : Dead(side) => Dead(side)'
      BY <2>4, <2>7, <2>12 DEF Dead
  <2>14. UsedIsOpen'
      BY <1>0, <2>2, <2>9 DEF CountInv, UsedIsOpen, Using
  <2>15. ClosedOnce'
      BY <1>0, <2>2, <2>9 DEF CountInv, ClosedOnce
  <2>16. AcceptedOnce'
    <3>1. ASSUME pending' \/ Accepting', NEW s \in ServerSock
          PROVE  sk'[s] = "unused"
      <4>1. flag[t] /\ (pending \/ Accepting)
          BY <3>1, <2>1, <2>10, <2>11
      <4>2. \A x \in ServerSock : sk[x] = "unused"
          BY <4>1 DEF CountInv, AcceptedOnce
      <4>3. my = "client"
          BY <4>1, <4>2, <2>3, <2>0, <1>0 DEF Side, MySide, SideOf, Sock
      <4>4. s # new
          BY <2>2, <4>3, SockAssumption DEF SideOf
      <4>5. QED BY <1>0, <2>2, <4>2, <4>4 DEF Sock
    <3>2. QED BY <2>1, <2>9, <3>1 DEF CountInv, AcceptedOnce
  <2>17. FreedIsDead'
      BY <2>1, <2>5 DEF FreedIsDead
  <2>18. CloserKnows'
      BY <2>9, <2>13, KnowsKept DEF CountInv, CloserKnows
  <2>19. RefcountsExact'
    <3> SUFFICES ASSUME NEW side \in Side
                 PROVE  ref'[side] = Cardinality(OpenSocks(side)') + (IF Promised(side)' THEN 1 ELSE 0)
        BY DEF RefcountsExact, Promised
    <3>1. ref[side] = Cardinality(OpenSocks(side)) + (IF Promised(side) THEN 1 ELSE 0)
        BY <2>5 DEF CountInv, RefcountsExact, Promised
    <3>2. CASE side # my
        BY <1>0, <2>1, <2>7, <2>12, <3>1, <3>2
    <3>3. CASE side = my /\ flag[t]
      <4>1. ref'[my] = ref[my] + 1
          BY <1>0, <2>1, <3>3 DEF AddedCount
      <4>2. Promised(my)' <=> Promised(my)
          BY <2>1, <2>10, <3>3 DEF Promised
      <4>3. QED BY <2>8, <3>1, <3>3, <4>1, <4>2, OpenSocksFinite
    <3>4. CASE side = my /\ ~flag[t]
      <4>1. ref'[my] = ref[my]
          BY <1>0, <2>1, <3>4 DEF AddedCount
      <4>2. Promised(my) /\ ~Promised(my)'
          BY <2>1, <2>3, <2>10, <2>11, <3>4 DEF Promised
      <4>3. QED BY <2>8, <3>1, <3>4, <4>1, <4>2, OpenSocksFinite
    <3>5. QED BY <3>2, <3>3, <3>4
  <2>20. QED BY <2>14, <2>15, <2>16, <2>17, <2>18, <2>19 DEF CountInv
<1>3. QED BY <1>1, <1>2

\* A closer's socket leaves its side's count, and it looks whether any is left.
LEMMA CountInvariant ==
    ASSUME CountInv, TypeOK', NEW t \in Thread, CloseCount(t)
    PROVE  CountInv'
<1>0. /\ pc \in [Thread -> Labels] /\ cur \in [Thread -> Sock] /\ flag \in [Thread -> BOOLEAN]
      /\ left \in [Thread -> Nat] /\ sk \in [Sock -> {"unused", "open", "closing", "closed"}]
      /\ ref \in [Side -> Nat] /\ cur[t] \in Sock
    BY DEF CountInv, TypeOK
<1>1. PICK my \in Side : my = MySide(t)
    BY <1>0, SidesOfSocks DEF MySide
<1>2. PICK s \in Sock : s = cur[t]
    BY <1>0
<1>3. /\ pc[t] = "close_count" /\ pending' = pending /\ freed' = freed /\ cur' = cur
      /\ ref' = [ref EXCEPT ![my] = @ - 1] /\ left' = [left EXCEPT ![t] = ref[my] - 1]
      /\ flag' = [flag EXCEPT ![t] = ref[Other(my)] = 0]
      /\ sk' = [sk EXCEPT ![s] = "closed"] /\ pc' = [pc EXCEPT ![t] = "close_remove"]
    BY <1>1, <1>2, Zenon DEF CloseCount, CountAfterClose, At, MySide, Peer
<1>4. sk[s] = "closing" /\ SideOf(s) = my /\ s \in OpenSocks(my)
    BY <1>1, <1>2, <1>3 DEF CountInv, ClosedOnce, MySide, OpenSocks
<1>5. ~freed /\ ~Dead(my)
    BY <1>4 DEF CountInv, FreedIsDead, Side, Dead
<1>6. OpenSocks(my)' = OpenSocks(my) \ {s} /\ \A side \in Side : side # my => OpenSocks(side)' = OpenSocks(side)
  <2>1. \A x \in Sock : sk'[x] \in {"open", "closing"} <=> (x # s /\ sk[x] \in {"open", "closing"})
      BY <1>0, <1>3
  <2>2. \A side : OpenSocks(side)' = OpenSocks(side) \ {s}
      BY <2>1 DEF OpenSocks, SideOf
  <2>3. \A side : side # my => s \notin OpenSocks(side)
      BY <1>4 DEF OpenSocks
  <2>4. QED BY <2>2, <2>3
<1>7. \A side \in Side : side # my => OpenSocks(side)' = OpenSocks(side)
    BY <1>6
<1>8. Cardinality(OpenSocks(my)') = Cardinality(OpenSocks(my)) - 1
  <2>1. IsFiniteSet(OpenSocks(my))
      BY OpenSocksFinite, Zenon
  <2>2. Cardinality(OpenSocks(my) \ {s}) = Cardinality(OpenSocks(my)) - 1
      BY <1>4, <2>1, FS_RemoveElement, Zenon
  <2>3. OpenSocks(my)' = OpenSocks(my) \ {s}
      BY <1>6
  <2>4. QED BY <2>2, <2>3, Zenon
<1>9. /\ \A u \in Thread : AcceptedBy(u)' <=> AcceptedBy(u)
      /\ \A u \in Thread : u # t => pc'[u] = pc[u] /\ left'[u] = left[u] /\ flag'[u] = flag[u]
    BY <1>0, <1>3 DEF AcceptedBy
<1>10. Accepting' <=> Accepting
    BY <1>9 DEF Accepting, AcceptedBy
<1>11. \A side \in Side : Promised(side)' <=> Promised(side)
    BY <1>3, <1>10 DEF Promised
<1>12. \A side \in Side : Dead(side) => Dead(side)'
    BY <1>5, <1>7, <1>11 DEF Dead
<1>13. UsedIsOpen'
    BY <1>0, <1>3, <1>4 DEF CountInv, UsedIsOpen, Using
<1>14. ClosedOnce'
    BY <1>0, <1>2, <1>3 DEF CountInv, ClosedOnce
<1>15. AcceptedOnce'
    BY <1>0, <1>3, <1>4, <1>9, <1>10 DEF CountInv, AcceptedOnce, Sock
<1>16. FreedIsDead'
    BY <1>3, <1>5 DEF FreedIsDead
<1>17. \A side \in Side :
          ref'[side] = Cardinality(OpenSocks(side)') + (IF Promised(side)' THEN 1 ELSE 0)
  <2> SUFFICES ASSUME NEW side \in Side
               PROVE  ref'[side] = Cardinality(OpenSocks(side)') + (IF Promised(side)' THEN 1 ELSE 0)
      OBVIOUS
  <2>1. ref[side] = Cardinality(OpenSocks(side)) + (IF Promised(side) THEN 1 ELSE 0)
      BY <1>5 DEF CountInv, RefcountsExact, Promised
  <2>2. CASE side = my
      BY <1>0, <1>3, <1>8, <1>11, <2>1, <2>2, OpenSocksFinite
  <2>3. CASE side # my
      BY <1>0, <1>3, <1>7, <1>11, <2>1, <2>3
  <2>4. QED BY <2>2, <2>3
<1>18. RefcountsExact'
    BY <1>17 DEF RefcountsExact, Promised
<1>19. Knows(t)'
  <2>1. MySide(t)' = my /\ Peer(t)' = Other(my) /\ Other(my) \in Side /\ Other(my) # my
      BY <1>1, <1>3, SidesOfSocks DEF MySide, Peer
  <2>2. \A side \in Side : ref'[side] = 0 => Dead(side)'
      <3> SUFFICES ASSUME NEW side \in Side, ref'[side] = 0 PROVE Dead(side)'
          OBVIOUS
      <3>1. IsFiniteSet(OpenSocks(side)') /\ Cardinality(OpenSocks(side)') \in Nat
        <4>1. OpenSocks(side)' \subseteq Sock
            BY <1>6, <1>7 DEF OpenSocks
        <4>2. IsFiniteSet(OpenSocks(side)')
            BY <4>1, SockAssumption, FS_Subset DEF Sock
        <4>3. QED BY <4>2, FS_CardinalityType
      <3>2. Cardinality(OpenSocks(side)') = 0 /\ ~Promised(side)'
          BY <1>17, <3>1
      <3>3. QED BY <3>1, <3>2, FS_EmptySet DEF Dead
  <2>3. left'[t] = ref'[my] /\ (flag'[t] <=> ref'[Other(my)] = 0)
      BY <1>0, <1>3, <2>1
  <2>4. QED BY <2>1, <2>2, <2>3 DEF Knows, Dead, OpenSocks, Promised
<1>20. CloserKnows'
    BY <1>0, <1>3, <1>9, <1>12, <1>19, KnowsKept DEF CountInv, CloserKnows
<1>21. QED BY <1>13, <1>14, <1>15, <1>16, <1>18, <1>20 DEF CountInv

\* The last closer of both sides frees the connection.
LEMMA RemoveInvariant ==
    ASSUME CountInv, TypeOK', NEW t \in Thread, CloseRemove(t) \/ CloseNotify(t)
    PROVE  CountInv'
<1>1. CASE UseAfterFree
    BY <1>1, StillUndisturbed, QuietInvariant DEF UseAfterFree, CountsKept
<1>2. CASE ~UseAfterFree /\ CloseNotify(t)
  <2>1. ~freed
      BY <1>2 DEF CloseNotify
  <2>2. QED BY <1>2, <2>1, QuietSteps, QuietUndisturbed, QuietInvariant DEF CountInv
<1>3. CASE ~UseAfterFree /\ CloseRemove(t)
  <2>1. /\ pc[t] = "close_remove" /\ ~freed /\ freed' = (left[t] = 0 /\ flag[t])
        /\ Return(t) \/ Goto(t, "close_notify")
        /\ UNCHANGED <<pending, ref, sk>>
      BY <1>3, Zenon DEF CloseRemove, At
  <2>2. Quiet(t)
      BY <2>1, GotoMoves DEF Quiet, MovesOn, Returns, Closing, Labels, CountInv
  <2>3. Undisturbed
      BY <2>2, QuietUndisturbed
  <2>4. /\ Accepting' <=> Accepting
        /\ \A side \in Side : /\ OpenSocks(side)' = OpenSocks(side)
                              /\ Promised(side)' <=> Promised(side)
                              /\ Dead(side)' <=> Dead(side)
      BY <2>1, <2>3, Unaffected DEF Undisturbed
  <2>5. FreedIsDead'
    <3>1. freed' => Dead(MySide(t)) /\ Dead(Peer(t))
        BY <2>1 DEF CountInv, CloserKnows, Knows
    <3>2. {MySide(t), Peer(t)} = Side
        BY DEF MySide, Peer, SideOf, Other, Side
    <3>3. freed' => \A side \in Side : Dead(side)
        BY <3>1, <3>2
    <3>4. QED BY <2>4, <3>3 DEF FreedIsDead, Side
  <2>6. UsedIsOpen' /\ ClosedOnce' /\ AcceptedOnce'
      BY <2>1, <2>3, <2>4 DEF CountInv, UsedIsOpen, ClosedOnce, AcceptedOnce, Undisturbed
  <2>7. CloserKnows'
      BY <2>3, <2>4, KnowsKept DEF CountInv, CloserKnows, Undisturbed
  <2>8. RefcountsExact'
      BY <2>1, <2>4 DEF CountInv, RefcountsExact
  <2>9. QED BY <2>5, <2>6, <2>7, <2>8 DEF CountInv
<1>4. QED BY <1>1, <1>2, <1>3

\* The listener closes: the promise is withdrawn, and the connection freed if the client is gone.
LEMMA DropInvariant ==
    ASSUME CountInv, TypeOK', NEW t \in Thread, DropBacklog(t)
    PROVE  CountInv'
<1>0. ref \in [Side -> Nat]
    BY DEF CountInv, TypeOK
<1>1. /\ pending = TRUE /\ pending' = FALSE /\ UNCHANGED <<sk, local>>
      /\ \/ /\ ref["client"] > 0 /\ ref' = [ref EXCEPT !["server"] = 0]
            /\ freed' = freed
         \/ ref["client"] = 0 /\ freed' = TRUE /\ ref' = ref
    BY DEF DropBacklog
<1>2. Undisturbed
    BY <1>1, StillUndisturbed
<1>3. ~Accepting /\ ~Accepting' /\ ~freed
  <2>1. \A u \in Thread : ~AcceptedBy(u)
      BY <1>1 DEF CountInv, AcceptedOnce
  <2>2. \A u \in Thread : ~AcceptedBy(u)'
      BY <1>2, <2>1 DEF Undisturbed
  <2>3. ~Dead("server")
      BY <1>1 DEF Dead, Promised
  <2>4. QED BY <2>1, <2>2, <2>3 DEF Accepting, AcceptedBy, CountInv, FreedIsDead
<1>4. OpenSocks("server") = {} /\ \A side \in Side : OpenSocks(side)' = OpenSocks(side)
  <2>1. \A s \in ServerSock : sk[s] = "unused"
      BY <1>1 DEF CountInv, AcceptedOnce
  <2>2. QED BY <1>1, <2>1 DEF OpenSocks, SideOf, Sock
<1>5. \A side \in Side : ~Promised(side)'
    BY <1>1, <1>3 DEF Promised
<1>6. \A side \in Side : Dead(side) => Dead(side)'
    BY <1>4, <1>5 DEF Dead
<1>7. UsedIsOpen' /\ ClosedOnce' /\ AcceptedOnce'
    BY <1>1, <1>2, <1>3 DEF CountInv, UsedIsOpen, ClosedOnce, AcceptedOnce, Undisturbed
<1>8. CloserKnows'
    BY <1>2, <1>6, KnowsKept DEF CountInv, CloserKnows, Undisturbed
<1>9. FreedIsDead'
  <2>1. ref["client"] = 0 => Dead("client")
      BY <1>3, CountZero DEF Side
  <2>2. freed' => Dead("client")
      BY <1>1, <1>3, <2>1
  <2>3. Dead("server")'
      BY <1>4, <1>5 DEF Dead, Side
  <2>4. QED BY <1>6, <2>2, <2>3 DEF FreedIsDead, Side
<1>10. RefcountsExact'
  <2> SUFFICES ASSUME ~freed', NEW side \in Side
               PROVE  ref'[side] = Cardinality(OpenSocks(side)') + (IF Promised(side)' THEN 1 ELSE 0)
      BY DEF RefcountsExact, Promised
  <2>1. ref[side] = Cardinality(OpenSocks(side)) + (IF Promised(side) THEN 1 ELSE 0)
      BY <1>3 DEF CountInv, RefcountsExact, Promised
  <2>2. Cardinality(OpenSocks("server")) = 0
      BY <1>4, FS_EmptySet
  <2>3. ref' = [ref EXCEPT !["server"] = 0]
      BY <1>1
  <2>4. QED BY <1>0, <1>4, <1>5, <2>1, <2>2, <2>3, OpenSocksFinite DEF Side, Promised
<1>11. QED BY <1>7, <1>8, <1>9, <1>10 DEF CountInv
-----------------------------------------------------------------------------
(* Types *)

SharedTypes ==
    /\ fate \in {"running", "aborted", "null_unlock", "use_after_free"}
    /\ pending \in BOOLEAN /\ freed \in BOOLEAN
    /\ ref \in [Side -> Nat]
    /\ spin \in Thread \cup {None}
    /\ mutex \in [Side -> Thread \cup {None}]
    /\ waiting \in [Side -> SUBSET Thread]
    /\ buf \in [Side -> 0..Capacity]
    /\ socks \in [Side -> SUBSET Sock]
    /\ sk \in [Sock -> {"unused", "open", "closing", "closed"}]
    /\ ended \in [Side -> BOOLEAN]
EventTypes == /\ hostfd \in [Sock -> BOOLEAN] /\ efd \in [Sock -> BOOLEAN]
              /\ notified \in [Sock -> BOOLEAN]
LocalTypes == /\ pc \in [Thread -> Labels] /\ cur \in [Thread -> Sock]
              /\ left \in [Thread -> Nat] /\ flag \in [Thread -> BOOLEAN]
\* The three parts of TypeOK.
LEMMA TypeParts == TypeOK <=> SharedTypes /\ EventTypes /\ LocalTypes
BY DEF TypeOK, SharedTypes, EventTypes, LocalTypes

\* A move, a return and a stutter keep the types of the calls.
LEMMA LocalTypesKept ==
    ASSUME LocalTypes, NEW t \in Thread,
           \/ Return(t) \/ \E from, to \in Labels : Moves(t, from, to)
           \/ UNCHANGED local
    PROVE  LocalTypes'
<1> USE DEF LocalTypes, Labels
<1>1. CASE Return(t)
    BY <1>1, SockAssumption DEF Return, Sock
<1>2. CASE \E from, to \in Labels : Moves(t, from, to)
  <2>1. PICK from \in Labels, to \in Labels, n \in Nat :
           /\ pc' = [pc EXCEPT ![t] = to] /\ left' = [left EXCEPT ![t] = n]
           /\ UNCHANGED <<cur, flag>>
      BY <1>2, Zenon DEF Moves
  <2>2. QED BY <2>1
<1>3. CASE UNCHANGED local
    BY <1>3 DEF local
<1>4. QED BY <1>1, <1>2, <1>3

\* Whoever closes a socket finds a count to take away.
LEMMA OpenCounts ==
    ASSUME CountInv, NEW t \in Thread, CloseCount(t)
    PROVE  ~freed /\ ref[MySide(t)] - 1 \in Nat
<1>1. cur[t] \in OpenSocks(MySide(t)) /\ MySide(t) \in Side
    BY SidesOfSocks DEF CloseCount, At, CountInv, ClosedOnce, OpenSocks, MySide, TypeOK
<1>2. ~freed
    BY <1>1 DEF CountInv, FreedIsDead, Dead, Side
<1>3. ref[MySide(t)] > 0 /\ ref[MySide(t)] \in Nat
    BY <1>1, <1>2, CountZero DEF CountInv, TypeOK
<1>4. QED BY <1>2, <1>3

\* Every step keeps the types of the calls; the bytes left are a count also
\* for a closer, which leaves its count there (_connection_remove, 288).
LEMMA LocalStep ==
    ASSUME CountInv, NEW t \in Thread, BeginCall(t) \/ LockStep(t) \/ OwnStep(t)
    PROVE  LocalTypes'
<1> LocalTypes
    BY TypeParts DEF CountInv
<1>1. ASSUME Quiet(t), ~Starts(t) PROVE LocalTypes'
    BY <1>1, LocalTypesKept DEF Quiet, MovesOn, Returns
<1>2. CASE BeginRecv(t)
    BY <1>2, SizeAssumption DEF BeginRecv, Begin, LocalTypes, Labels
<1>3. CASE BeginSend(t)
    BY <1>3, SizeAssumption DEF BeginSend, Begin, LocalTypes, Labels
<1>4. CASE BeginDup(t)
    BY <1>4 DEF BeginDup, Begin, LocalTypes, Labels
<1>5. CASE BeginAccept(t)
    BY <1>5 DEF BeginAccept, Begin, LocalTypes, Labels, Sock
<1>6. CASE BeginClose(t)
    BY <1>6 DEF BeginClose, Begin, LocalTypes, Labels
<1>7. CASE PollCreate(t)
    BY <1>7 DEF PollCreate, Begin, LocalTypes, Labels
<1>8. CASE DropBacklog(t)
    BY <1>8, LocalTypesKept DEF DropBacklog
<1>9. CASE AddMutex(t)
    BY <1>9, LocalTypesKept DEF AddMutex
<1>10. CASE CloseCount(t)
  <2>1. ref[MySide(t)] - 1 \in Nat
      BY <1>10, OpenCounts
  <2>2. QED BY <1>10, <2>1 DEF CloseCount, CountAfterClose, LocalTypes, Labels
<1>11. CASE CloseRemove(t)
  <2>1. Return(t) \/ (pc[t] = "close_remove" /\ Goto(t, "close_notify")) \/ UNCHANGED local
      BY <1>11 DEF CloseRemove, UseAfterFree, At
  <2>2. QED BY <2>1, LocalTypesKept, GotoMoves DEF CountInv, Labels
<1>12. CASE CloseNotify(t)
    BY <1>12, LocalTypesKept DEF CloseNotify, UseAfterFree
<1>13. CASE OwnStep(t)
  <2>1. Quiet(t) /\ ~Starts(t)
      BY <1>13, QuietSteps DEF OwnStep, Starts, Begin, Idle, At, RecvRead, SendWrite, PollSignal,
                             PollMark, PollClear, CountInv
  <2>2. QED BY <1>1, <2>1
<1>14. CASE RecvLock(t) \/ RecvCheck(t) \/ RecvWake(t) \/ SendLock(t) \/ SendCheck(t) \/ SendWake(t)
            \/ AddSpin(t)
  <2>1. Quiet(t) /\ ~Starts(t)
      BY <1>14, QuietSteps DEF Starts, Begin, Idle, At, RecvLock, RecvCheck, RecvWake, SendLock,
                             SendCheck, SendWake, AddSpin, CountInv
  <2>2. QED BY <1>1, <2>1
<1>15. QED BY <1>2, <1>3, <1>4, <1>5, <1>6, <1>7, <1>8, <1>9, <1>10, <1>11, <1>12, <1>13, <1>14
           DEF BeginCall, LockStep

\* _update_events keeps the types of the eventfds.
LEMMA UpdateTypes ==
    ASSUME EventTypes, NEW side, NEW needs \in BOOLEAN, UpdateEvents(side, needs)
    PROVE  efd' \in [Sock -> BOOLEAN] /\ notified' \in [Sock -> BOOLEAN]
<1>1. efd \in [Sock -> BOOLEAN] /\ notified \in [Sock -> BOOLEAN]
    BY DEF EventTypes
<1>2. CASE needs = TRUE
    BY <1>1, <1>2 DEF UpdateEvents
<1>3. CASE needs = FALSE
    BY <1>1, <1>3 DEF UpdateEvents
<1>4. QED BY <1>2, <1>3

\* Every step keeps the types of the connection: no count gets negative, and
\* no buffer holds more than its capacity.
LEMMA SharedStep == ASSUME CountInv, NEW t \in Thread, BeginCall(t) \/ LockStep(t) \/ OwnStep(t)
                  PROVE  SharedTypes'
<1> SharedTypes BY TypeParts DEF CountInv
<1> MySide(t) \in Side /\ Peer(t) \in Side BY SidesOfSocks DEF CountInv, TypeOK, MySide, Peer
<1> USE SizeAssumption DEF SharedTypes, shared
<1>1. CASE BeginRecv(t)
    BY <1>1 DEF BeginRecv
<1>2. CASE BeginSend(t)
    BY <1>2 DEF BeginSend
<1>3. CASE BeginDup(t)
    BY <1>3 DEF BeginDup
<1>4. CASE BeginAccept(t)
    BY <1>4 DEF BeginAccept
<1>5. CASE BeginClose(t)
  <2>1. \E s \in Sock : sk' = [sk EXCEPT ![s] = "closing"]
      BY <1>5, Zenon DEF BeginClose
  <2>2. UNCHANGED <<fate, pending, freed, ref, spin, mutex, waiting, buf, socks, ended>>
      BY <1>5, Zenon DEF BeginClose, events
  <2>3. QED BY <2>1, <2>2
<1>6. CASE PollCreate(t)
    BY <1>6 DEF PollCreate
<1>7. CASE DropBacklog(t)
  <2>1. \/ /\ fate' = "null_unlock" /\ ref' = [ref EXCEPT !["server"] = 0]
           /\ spin' = t /\ freed' = freed
        \/ freed' = TRUE /\ UNCHANGED <<fate, ref, spin>>
      BY <1>7, Zenon DEF DropBacklog
  <2>2. pending' = FALSE /\ UNCHANGED <<mutex, waiting, buf, socks, sk, ended>>
      BY <1>7, Zenon DEF DropBacklog
  <2>3. /\ fate' \in {"running", "aborted", "null_unlock", "use_after_free"}
        /\ freed' \in BOOLEAN /\ ref' \in [Side -> Nat] /\ spin' \in Thread \cup {None}
    <3>1. CASE freed' = TRUE /\ UNCHANGED <<fate, ref, spin>>
        BY <3>1
    <3>2. CASE /\ fate' = "null_unlock" /\ ref' = [ref EXCEPT !["server"] = 0]
               /\ spin' = t /\ freed' = freed
        BY <3>2
    <3>3. QED BY <2>1, <3>1, <3>2
  <2>4. pending' \in BOOLEAN
      BY <2>2
  <2>5. QED BY <2>2, <2>3, <2>4
<1>8. CASE RecvLock(t)
    BY <1>8 DEF RecvLock, Lock
<1>9. CASE RecvCheck(t)
  <2>1. UNCHANGED <<fate, pending, freed, ref, spin, buf, socks, sk>>
      BY <1>9, Zenon DEF RecvCheck
  <2>2. PICK my \in Side : my = MySide(t)
      OBVIOUS
  <2>3. mutex' = [mutex EXCEPT ![my] = None]
      BY <1>9, <2>2, Zenon DEF RecvCheck, Sleep, Unlock
  <2>4. waiting' = waiting \/ waiting' = [waiting EXCEPT ![my] = @ \cup {t}]
      BY <1>9, <2>2 DEF RecvCheck, Sleep
  <2>5. ended' = ended \/ ended' = [ended EXCEPT ![my] = TRUE]
      BY <1>9, <2>2, Zenon DEF RecvCheck
  <2>6. mutex' \in [Side -> Thread \cup {None}] /\ waiting' \in [Side -> SUBSET Thread]
      BY <2>3, <2>4
  <2>7. ended' \in [Side -> BOOLEAN]
      BY <2>5
  <2>8. QED BY <2>1, <2>6, <2>7
<1>10. CASE RecvWake(t)
    BY <1>10 DEF RecvWake, Lock
<1>11. CASE SendLock(t)
    BY <1>11 DEF SendLock, Lock
<1>12. CASE SendCheck(t)
    BY <1>12 DEF SendCheck, Unlock
<1>13. CASE SendWake(t)
    BY <1>13 DEF SendWake, Lock
<1>14. CASE AddSpin(t)
    BY <1>14 DEF AddSpin
<1>15. CASE AddMutex(t)
  <2>1. UNCHANGED <<pending, freed, mutex, waiting, buf, ended>>
      BY <1>15, Zenon DEF AddMutex
  <2>2. PICK my \in Side : my = MySide(t)
      OBVIOUS
  <2>3. CASE fate' = "aborted" /\ UNCHANGED <<socks, ref, sk, spin>>
      BY <2>1, <2>3
  <2>4. CASE /\ \E new \in Sock : /\ socks' = [socks EXCEPT ![my] = @ \cup {new}]
                                   /\ sk' = [sk EXCEPT ![new] = "open"]
             /\ ref' = [ref EXCEPT ![my] = @ + AddedCount(t)] /\ spin' = None /\ fate' = fate
    <3>1. AddedCount(t) \in Nat
        BY DEF AddedCount
    <3>2. QED BY <2>1, <2>4, <3>1
  <2>5. QED BY <1>15, <2>2, <2>3, <2>4, Zenon DEF AddMutex
<1>16. CASE CloseCount(t)
  <2>1. UNCHANGED <<fate, pending, freed, spin, mutex, waiting, buf, socks, ended>>
      BY <1>16, Zenon DEF CloseCount, events
  <2>2. PICK my \in Side : my = MySide(t)
      OBVIOUS
  <2>3. ref' = [ref EXCEPT ![my] = @ - 1] /\ sk' = [sk EXCEPT ![cur[t]] = "closed"]
      BY <1>16, <2>2 DEF CloseCount
  <2>4. ref[my] - 1 \in Nat
      BY <1>16, <2>2, OpenCounts
  <2>5. QED BY <2>1, <2>3, <2>4
<1>17. CASE CloseRemove(t)
    BY <1>17 DEF CloseRemove, UseAfterFree
<1>18. CASE CloseNotify(t)
    BY <1>18 DEF CloseNotify, UseAfterFree, Broadcast
<1>19. CASE RecvRead(t)
  <2>1. UNCHANGED <<fate, pending, freed, ref, spin, socks, sk, ended>>
      BY <1>19, Zenon DEF RecvRead
  <2>2. PICK my \in Side : my = MySide(t)
      OBVIOUS
  <2>3. CASE UNCHANGED <<buf, waiting, mutex>>
      BY <2>1, <2>3
  <2>4. CASE ~UNCHANGED <<buf, waiting, mutex>>
    <3>1. PICK n : n = Lesser(left[t], buf[my])
        OBVIOUS
    <3>2. n \in 0..buf[my]
        BY <3>1, <2>2, TypeParts DEF Lesser, CountInv, LocalTypes
    <3>3. RecvSome(t, n)
        BY <1>19, <2>2, <2>4, <3>1, Zenon DEF RecvRead
    <3>4. /\ buf' = [buf EXCEPT ![my] = @ - n] /\ waiting' = [waiting EXCEPT ![my] = {}]
          /\ mutex' = [mutex EXCEPT ![my] = None]
        BY <2>2, <3>3 DEF RecvSome, Broadcast, Unlock
    <3>5. QED BY <2>1, <3>2, <3>4
  <2>5. QED BY <2>3, <2>4
<1>20. CASE SendWrite(t)
  <2>1. UNCHANGED <<fate, pending, freed, ref, spin, socks, sk, ended>>
      BY <1>20, Zenon DEF SendWrite
  <2>2. PICK peer \in Side : peer = Peer(t)
      OBVIOUS
  <2>3. PICK n : n = Lesser(left[t], Room(peer))
      OBVIOUS
  <2>4. n \in 0..(Capacity - buf[peer])
      BY <2>2, <2>3, TypeParts DEF Lesser, Room, CountInv, LocalTypes
  <2>5. /\ buf' = [buf EXCEPT ![peer] = @ + n]
        /\ mutex' = [mutex EXCEPT ![peer] = None]
        /\ waiting' = [waiting EXCEPT ![peer] = {}] \/ waiting' = [waiting EXCEPT ![peer] = {t}]
      BY <1>20, <2>2, <2>3 DEF SendWrite, Broadcast, Unlock
  <2>6. QED BY <2>1, <2>4, <2>5
<1>21. CASE PollSignal(t)
    BY <1>21 DEF PollSignal
<1>22. CASE PollMark(t)
    BY <1>22 DEF PollMark
<1>23. CASE PollClear(t)
    BY <1>23 DEF PollClear
<1>30. QED BY <1>1, <1>2, <1>3, <1>4, <1>5, <1>6, <1>7, <1>8, <1>9, <1>10, <1>11, <1>12, <1>13, <1>14, <1>15, <1>16, <1>17, <1>18, <1>19, <1>20, <1>21, <1>22, <1>23 DEF BeginCall, LockStep, OwnStep

\* Every step keeps the types of the eventfds.
LEMMA EventStep == ASSUME CountInv, NEW t \in Thread, BeginCall(t) \/ LockStep(t) \/ OwnStep(t)
                  PROVE  EventTypes'
<1> EventTypes BY TypeParts DEF CountInv
<1> MySide(t) \in Side /\ Peer(t) \in Side BY SidesOfSocks DEF CountInv, TypeOK, MySide, Peer
<1> USE DEF EventTypes, events
<1>1. CASE BeginRecv(t)
    BY <1>1 DEF BeginRecv
<1>2. CASE BeginSend(t)
    BY <1>2 DEF BeginSend
<1>3. CASE BeginDup(t)
    BY <1>3 DEF BeginDup
<1>4. CASE BeginAccept(t)
    BY <1>4 DEF BeginAccept
<1>5. CASE BeginClose(t)
    BY <1>5 DEF BeginClose
<1>6. CASE PollCreate(t)
    BY <1>6 DEF PollCreate
<1>7. CASE DropBacklog(t)
    BY <1>7 DEF DropBacklog
<1>8. CASE RecvLock(t)
    BY <1>8 DEF RecvLock
<1>9. CASE RecvCheck(t)
    BY <1>9 DEF RecvCheck
<1>10. CASE RecvWake(t)
    BY <1>10 DEF RecvWake
<1>11. CASE SendLock(t)
    BY <1>11 DEF SendLock
<1>12. CASE SendCheck(t)
    BY <1>12 DEF SendCheck
<1>13. CASE SendWake(t)
    BY <1>13 DEF SendWake
<1>14. CASE AddSpin(t)
    BY <1>14 DEF AddSpin
<1>15. CASE AddMutex(t)
    BY <1>15 DEF AddMutex
<1>16. CASE CloseCount(t)
    BY <1>16 DEF CloseCount
<1>17. CASE CloseRemove(t)
    BY <1>17 DEF CloseRemove, UseAfterFree
<1>18. CASE CloseNotify(t)
  <2>1. UNCHANGED events \/ (UNCHANGED hostfd /\ UpdateEvents(Peer(t), TRUE))
      BY <1>18 DEF CloseNotify, UseAfterFree
  <2>2. QED BY <2>1, UpdateTypes
<1>19. CASE RecvRead(t)
  <2>1. PICK b \in BOOLEAN : UNCHANGED events \/ (UNCHANGED hostfd /\ UpdateEvents(MySide(t), b))
    <3>1. (buf'[MySide(t)] > 0) \in BOOLEAN
        OBVIOUS
    <3>2. UNCHANGED events \/ (UNCHANGED hostfd /\ UpdateEvents(MySide(t), buf'[MySide(t)] > 0))
        BY <1>19, Zenon DEF RecvRead, RecvSome
    <3>3. QED BY <3>1, <3>2, Zenon
  <2>2. QED BY <2>1, UpdateTypes
<1>20. CASE SendWrite(t)
  <2>1. PICK b \in BOOLEAN : UNCHANGED hostfd /\ UpdateEvents(Peer(t), b)
    <3>1. (buf'[Peer(t)] > 0) \in BOOLEAN
        OBVIOUS
    <3>2. UNCHANGED hostfd /\ UpdateEvents(Peer(t), buf'[Peer(t)] > 0)
        BY <1>20, Zenon DEF SendWrite
    <3>3. QED BY <3>1, <3>2, Zenon
  <2>2. QED BY <2>1, UpdateTypes
<1>21. CASE PollSignal(t)
    BY <1>21 DEF PollSignal
<1>22. CASE PollMark(t)
    BY <1>22 DEF PollMark
<1>23. CASE PollClear(t)
  <2>1. UNCHANGED hostfd /\ UpdateEvents(MySide(t), FALSE)
      BY <1>23 DEF PollClear, shared
  <2>2. QED BY <2>1, UpdateTypes
<1>30. QED BY <1>1, <1>2, <1>3, <1>4, <1>5, <1>6, <1>7, <1>8, <1>9, <1>10, <1>11, <1>12, <1>13, <1>14, <1>15, <1>16, <1>17, <1>18, <1>19, <1>20, <1>21, <1>22, <1>23 DEF BeginCall, LockStep, OwnStep

\* Every step keeps the type invariant.
LEMMA TypeStep ==
    ASSUME CountInv, Next
    PROVE  TypeOK'
<1>1. PICK t \in Thread : BeginCall(t) \/ LockStep(t) \/ OwnStep(t)
    BY DEF Next
<1>2. SharedTypes' /\ EventTypes' /\ LocalTypes'
    BY <1>1, SharedStep, EventStep, LocalStep
<1>3. QED BY <1>2 DEF TypeOK, SharedTypes, EventTypes, LocalTypes
-----------------------------------------------------------------------------
(* The counts *)

\* The counts are exact when connect() has succeeded.
LEMMA CountInit == ASSUME Init PROVE CountInv
<1>1. TypeOK
  <2>1. SharedTypes
    <3>1. /\ fate \in {"running", "aborted", "null_unlock", "use_after_free"}
          /\ pending \in BOOLEAN /\ freed \in BOOLEAN /\ spin \in Thread \cup {None}
        BY DEF Init
    <3>2. /\ ref \in [Side -> Nat] /\ mutex \in [Side -> Thread \cup {None}]
          /\ waiting \in [Side -> SUBSET Thread] /\ buf \in [Side -> 0..Capacity]
        BY SizeAssumption DEF Init
    <3>3. socks \in [Side -> SUBSET Sock]
        BY SockAssumption DEF Init, Sock
    <3>4. sk \in [Sock -> {"unused", "open", "closing", "closed"}] /\ ended \in [Side -> BOOLEAN]
        BY DEF Init
    <3>5. QED BY <3>1, <3>2, <3>3, <3>4 DEF SharedTypes
  <2>2. EventTypes
    <3>1. PICK polled \in BOOLEAN : hostfd = [s \in Sock |-> s = First /\ polled]
        BY DEF Init
    <3>2. hostfd \in [Sock -> BOOLEAN]
        BY <3>1, Zenon
    <3>3. efd = [s \in Sock |-> FALSE] /\ notified = [s \in Sock |-> FALSE]
        BY DEF Init
    <3>4. QED BY <3>2, <3>3 DEF EventTypes
  <2>3. LocalTypes
      BY SockAssumption DEF Init, LocalTypes, Labels, Sock
  <2>4. QED BY <2>1, <2>2, <2>3, TypeParts
<1>2. \A t \in Thread : ~Using(t) /\ ~AcceptedBy(t) /\ pc[t] = "idle"
    BY DEF Init, Using, AcceptedBy
<1>3. UsedIsOpen /\ ClosedOnce /\ AcceptedOnce /\ CloserKnows /\ FreedIsDead
  <2>1. ~freed /\ \A s \in ServerSock : sk[s] = "unused"
      BY SockAssumption DEF Init, Sock
  <2>2. QED BY <1>2, <2>1 DEF UsedIsOpen, ClosedOnce, AcceptedOnce, CloserKnows, FreedIsDead
<1>4. RefcountsExact
  <2>1. OpenSocks("client") = {First} /\ OpenSocks("server") = {}
      BY SockAssumption DEF Init, OpenSocks, SideOf, Sock
  <2>2. Cardinality({First}) = 1 /\ Cardinality({}) = 0
      BY FS_Singleton, FS_EmptySet
  <2>3. ref["client"] = 1 /\ ref["server"] = 1 /\ pending
      BY DEF Init, Side
  <2>4. QED BY <2>1, <2>2, <2>3 DEF RefcountsExact, Side
<1>5. QED BY <1>1, <1>3, <1>4 DEF CountInv

\* Every step keeps the counts exact.
LEMMA CountNext == ASSUME CountInv, [Next]_vars PROVE CountInv'
<1>1. CASE Next
  <2>1. TypeOK'
      BY <1>1, TypeStep
  <2>2. PICK t \in Thread : BeginCall(t) \/ LockStep(t) \/ OwnStep(t)
      BY <1>1 DEF Next
  <2>3. CASE BeginAccept(t) \/ BeginClose(t) \/ AddMutex(t) \/ CloseCount(t) \/ CloseRemove(t)
                \/ DropBacklog(t)
      BY <2>1, <2>3, AcceptInvariant, CloseInvariant, AddInvariant, CountInvariant,
         RemoveInvariant, DropInvariant
  <2>4. CASE CloseNotify(t) /\ freed
    <3>1. UNCHANGED local /\ CountsKept
        BY <2>4 DEF CloseNotify, UseAfterFree, CountsKept
    <3>2. QED BY <2>1, <3>1, StillUndisturbed, QuietInvariant
  <2>5. CASE \/ BeginRecv(t) \/ BeginSend(t) \/ BeginDup(t) \/ PollCreate(t)
             \/ RecvLock(t) \/ RecvCheck(t) \/ RecvWake(t) \/ SendLock(t) \/ SendCheck(t)
             \/ SendWake(t) \/ AddSpin(t) \/ (CloseNotify(t) /\ ~freed) \/ OwnStep(t)
    <3>1. Quiet(t) /\ CountsKept
        BY <2>5, QuietSteps DEF CountInv
    <3>2. QED BY <2>1, <3>1, QuietUndisturbed, QuietInvariant
  <2>6. QED BY <2>2, <2>3, <2>4, <2>5 DEF BeginCall, LockStep
<1>2. CASE UNCHANGED vars
  <2>1. UNCHANGED local /\ CountsKept
      BY <1>2 DEF vars, shared, CountsKept
  <2>2. TypeOK'
      BY <1>2 DEF CountInv, TypeOK, vars, shared, events, local
  <2>3. QED BY <2>1, <2>2, StillUndisturbed, QuietInvariant
<1>3. QED BY <1>1, <1>2

\* _get_refcount tells the truth: in every state of a connection that is not
\* yet freed, the count of a side is the number of its sockets, one more for the
\* server while nobody has accepted it, however dup(), accept() and close()
\* interleave (_connection_add 239, _connection_remove 275, _free_boundsock 528).
THEOREM CountsExact == Spec => []RefcountsExact
<1>1. CountInv => RefcountsExact
    BY DEF CountInv
<1>2. Spec => []CountInv
    BY CountInit, CountNext, PTL DEF Spec
<1>3. QED BY <1>1, <1>2, PTL

\* The type invariant: no count ever drops below zero (_connection_remove, 286),
\* and no buffer holds more than its capacity (_sock_sendto, 961).
THEOREM TypeCorrect == Spec => []TypeOK
<1>1. CountInv => TypeOK
    BY DEF CountInv
<1>2. Spec => []CountInv
    BY CountInit, CountNext, PTL DEF Spec
<1>3. QED BY <1>1, <1>2, PTL
-----------------------------------------------------------------------------
(* The end of a connection *)

\* The closer that found both counts at zero has still to free the connection.
LastCloser(u) == pc[u] = "close_remove" /\ left[u] = 0 /\ flag[u]
DeadIsFreed == Running /\ ~freed /\ Dead("client") /\ Dead("server") =>
                  \E u \in Thread : LastCloser(u)

\* A thread's step leaves the calls of the other threads where they are.
OthersKeep(t) == \A u \in Thread : u # t => /\ pc'[u] = pc[u] /\ cur'[u] = cur[u]
                                            /\ left'[u] = left[u] /\ flag'[u] = flag[u]

\* The three forms a step of a call takes, and a step that is none.
LEMMA FormsKeepOthers ==
    ASSUME LocalTypes, NEW t \in Thread,
           \/ Return(t) \/ UNCHANGED local \/ \E label : Goto(t, label)
           \/ \E s, label, n, f : Begin(t, s, label, n, f)
    PROVE  OthersKeep(t)
<1>1. CASE Return(t) BY <1>1 DEF LocalTypes, Return, OthersKeep
<1>2. CASE UNCHANGED local BY <1>2 DEF local, OthersKeep
<1>3. CASE \E label : Goto(t, label) BY <1>3 DEF LocalTypes, Goto, OthersKeep
<1>4. CASE \E s, label, n, f : Begin(t, s, label, n, f)
  <2>1. PICK s, label, n, f : Begin(t, s, label, n, f)
      BY <1>4, Zenon
  <2>2. QED BY <2>1 DEF LocalTypes, Begin, OthersKeep
<1>5. QED BY <1>1, <1>2, <1>3, <1>4

\* Every step is a step of one thread, while the program runs.
LEMMA StepKeepsOthers ==
    ASSUME TypeOK, NEW t \in Thread, BeginCall(t) \/ LockStep(t) \/ OwnStep(t)
    PROVE  OthersKeep(t) /\ Running
<1> LocalTypes
    BY TypeParts
<1>1. CASE BeginCall(t)
  <2>1. \/ UNCHANGED local \/ \E s, label, n, f : Begin(t, s, label, n, f)
      BY <1>1, Zenon DEF BeginCall, BeginRecv, BeginSend, BeginDup, BeginAccept, BeginClose,
         PollCreate, DropBacklog
  <2>2. Running
      BY <1>1, Zenon DEF BeginCall, BeginRecv, BeginSend, BeginDup, BeginAccept, BeginClose,
         PollCreate, DropBacklog, Begin, Idle, At
  <2>3. QED BY <2>1, <2>2, FormsKeepOthers
<1>2. CASE CloseCount(t)
    BY <1>2 DEF CloseCount, At, LocalTypes, OthersKeep
<1>3. CASE SendWrite(t)
  <2>1. \/ Return(t)
        \/ /\ pc' = [pc EXCEPT ![t] = "send_wait"] /\ UNCHANGED <<cur, flag>>
           /\ \E n : left' = [left EXCEPT ![t] = n]
      BY <1>3, Zenon DEF SendWrite
  <2>2. Running
      BY <1>3, Zenon DEF SendWrite, At
  <2>3. QED BY <2>1, <2>2, FormsKeepOthers DEF LocalTypes, OthersKeep
<1>4. CASE (LockStep(t) /\ ~CloseCount(t)) \/ (OwnStep(t) /\ ~SendWrite(t))
  <2>1. \/ Return(t) \/ UNCHANGED local \/ \E label : Goto(t, label)
      BY <1>4, Zenon DEF LockStep, RecvLock, RecvCheck, RecvWake, SendLock, SendCheck, SendWake,
         AddSpin, AddMutex, CloseRemove, CloseNotify, UseAfterFree, OwnStep, RecvRead, RecvSome,
         PollSignal, PollMark, PollClear
  <2>2. Running
      BY <1>4, Zenon DEF LockStep, RecvLock, RecvCheck, RecvWake, SendLock, SendCheck, SendWake,
         AddSpin, AddMutex, CloseRemove, CloseNotify, OwnStep, RecvRead,
         PollSignal, PollMark, PollClear, At
  <2>3. QED BY <2>1, <2>2, FormsKeepOthers
<1>5. QED BY <1>1, <1>2, <1>3, <1>4

\* A step that keeps the sockets keeps the last closer, unless it is that closer's own.
LEMMA LastCloserKept ==
    ASSUME DeadIsFreed, Running, NEW t \in Thread, OthersKeep(t), ~LastCloser(t),
           ~freed, \A side \in Side : Dead(side)' <=> Dead(side)
    PROVE  DeadIsFreed'
<1> SUFFICES ASSUME Dead("client")', Dead("server")' PROVE (\E u \in Thread : LastCloser(u))'
    BY DEF DeadIsFreed
<1>1. Dead("client") /\ Dead("server")
    BY DEF Side
<1>2. PICK u \in Thread : LastCloser(u)
    BY <1>1 DEF DeadIsFreed
<1>3. LastCloser(u)'
    BY <1>2 DEF OthersKeep, LastCloser
<1>4. QED BY <1>3

\* Whatever leaves the last socket of a connection leaves it to a closer to be freed.
LEMMA FreeNext ==
    ASSUME CountInv, CountInv', DeadIsFreed, NEW t \in Thread,
           BeginCall(t) \/ LockStep(t) \/ OwnStep(t)
    PROVE  DeadIsFreed'
<1> USE DEF At
<1>0. /\ OthersKeep(t) /\ Running
      /\ pc \in [Thread -> Labels] /\ cur \in [Thread -> Sock] /\ flag \in [Thread -> BOOLEAN]
      /\ left \in [Thread -> Nat] /\ sk \in [Sock -> {"unused", "open", "closing", "closed"}]
    BY StepKeepsOthers DEF CountInv, TypeOK
<1>a. ASSUME ~Running' \/ freed' \/ (\E side \in Side : ~Dead(side)')
      PROVE  DeadIsFreed'
    BY <1>a DEF DeadIsFreed, Side
<1>1. CASE \/ BeginRecv(t) \/ BeginSend(t) \/ BeginDup(t) \/ PollCreate(t)
           \/ RecvLock(t) \/ RecvCheck(t) \/ RecvWake(t) \/ SendLock(t) \/ SendCheck(t)
           \/ SendWake(t) \/ AddSpin(t) \/ (CloseNotify(t) /\ ~freed) \/ OwnStep(t)
  <2>1. Quiet(t) /\ CountsKept
      BY <1>1, QuietSteps DEF CountInv
  <2>2. \A side \in Side : Dead(side)' <=> Dead(side)
      BY <2>1, QuietUndisturbed, Unaffected DEF Undisturbed, CountsKept
  <2>3. pc[t] # "close_remove"
      BY <1>1, Zenon DEF BeginRecv, BeginSend, BeginDup, PollCreate, Begin, Idle, RecvLock,
         RecvCheck, RecvWake, SendLock, SendCheck, SendWake, AddSpin, CloseNotify, OwnStep,
         RecvRead, SendWrite, PollSignal, PollMark, PollClear
  <2>4. CASE freed
      BY <2>1, <2>4, <1>a DEF CountsKept
  <2>5. CASE ~freed
      BY <1>0, <2>2, <2>3, <2>5, LastCloserKept DEF LastCloser
  <2>6. QED BY <2>4, <2>5
<1>2. CASE BeginAccept(t)
  <2>1. AcceptedBy(t)'
    <3>1. pc' = [pc EXCEPT ![t] = "add_spin"] /\ flag' = [flag EXCEPT ![t] = FALSE]
        BY <1>2, Zenon DEF BeginAccept, Begin
    <3>2. QED BY <1>0, <3>1 DEF AcceptedBy
  <2>2. ~Dead("server")'
      BY <2>1 DEF Dead, Promised, Accepting, AcceptedBy
  <2>3. QED BY <2>2, <1>a DEF Side
<1>3. CASE BeginClose(t)
  <2>1. PICK s \in Sock : sk' = [sk EXCEPT ![s] = "closing"]
      BY <1>3, Zenon DEF BeginClose
  <2>2. s \in OpenSocks(SideOf(s))' /\ SideOf(s) \in Side
      BY <1>0, <2>1, SidesOfSocks DEF OpenSocks, SideOf
  <2>3. QED BY <2>2, <1>a DEF Dead
<1>4. CASE AddMutex(t)
  <2>1. CASE fate' = "aborted"
      BY <2>1, <1>a DEF Running
  <2>2. CASE \E new \in Sock : sk' = [sk EXCEPT ![new] = "open"]
    <3>1. PICK new \in Sock : sk' = [sk EXCEPT ![new] = "open"]
        BY <2>2
    <3>2. new \in OpenSocks(SideOf(new))' /\ SideOf(new) \in Side
        BY <1>0, <3>1, SidesOfSocks DEF OpenSocks, SideOf
    <3>3. QED BY <3>2, <1>a DEF Dead
  <2>3. QED BY <1>4, <2>1, <2>2, Zenon DEF AddMutex
<1>5. CASE CloseCount(t)
  <2> SUFFICES ASSUME ~freed', Dead("client")', Dead("server")' PROVE LastCloser(t)'
      BY DEF DeadIsFreed
  <2>1. PICK my \in Side, peer \in Side : my = MySide(t) /\ peer = Peer(t) /\ my # peer
      BY SidesOfSocks DEF MySide, Peer, CountInv, TypeOK
  <2>2. \A side \in Side : ref'[side] = 0
    <3> TAKE side \in Side
    <3>1. OpenSocks(side)' = {} /\ ~Promised(side)'
        BY DEF Dead, Side
    <3>2. ref'[side] = Cardinality(OpenSocks(side)') + (IF Promised(side)' THEN 1 ELSE 0)
        BY DEF CountInv, RefcountsExact, Promised
    <3>3. QED BY <3>1, <3>2, FS_EmptySet
  <2>3. /\ ref' = [ref EXCEPT ![my] = @ - 1] /\ left' = [left EXCEPT ![t] = ref[my] - 1]
        /\ flag' = [flag EXCEPT ![t] = ref[peer] = 0] /\ pc' = [pc EXCEPT ![t] = "close_remove"]
      BY <1>5, <2>1, Zenon DEF CloseCount, CountAfterClose
  <2>4. ref[my] - 1 = 0 /\ ref[peer] = 0
      BY <2>1, <2>2, <2>3 DEF CountInv, TypeOK
  <2>5. QED BY <1>0, <2>3, <2>4 DEF LastCloser
<1>6. CASE CloseRemove(t)
  <2>1. CASE UseAfterFree
      BY <2>1, <1>a DEF UseAfterFree, Running
  <2>2. CASE /\ ~freed /\ freed' = (left[t] = 0 /\ flag[t])
             /\ Return(t) \/ Goto(t, "close_notify")
             /\ UNCHANGED <<pending, sk>>
    <3>1. CASE LastCloser(t)
        BY <2>2, <3>1, <1>a DEF LastCloser
    <3>2. CASE ~LastCloser(t)
      <4>1. Undisturbed
          BY <1>6, <2>2, QuietUndisturbed, GotoMoves
             DEF CloseRemove, Quiet, MovesOn, Returns, Closing, Labels, CountInv
      <4>2. \A side \in Side : Dead(side)' <=> Dead(side)
          BY <2>2, <4>1, Unaffected DEF Undisturbed
      <4>3. QED BY <1>0, <2>2, <3>2, <4>2, LastCloserKept
    <3>3. QED BY <3>1, <3>2
  <2>3. QED BY <1>6, <2>1, <2>2, Zenon DEF CloseRemove
<1>7. CASE CloseNotify(t) /\ freed
    BY <1>7, <1>a DEF CloseNotify, UseAfterFree, Running
<1>8. CASE DropBacklog(t)
    BY <1>8, <1>a DEF DropBacklog, Running
<1>9. QED BY <1>1, <1>2, <1>3, <1>4, <1>5, <1>6, <1>7, <1>8 DEF BeginCall, LockStep

\* The last of the sockets of both sides to be closed frees the connection: when
\* nobody is in a call and no socket is left, neither accepted nor in the backlog,
\* the connection has been freed (_connection_remove 311, _free_boundsock 567).
THEOREM NothingLeaks == Spec => []NoLeak
<1>1. Init => CountInv /\ DeadIsFreed
  <2>1. Init => ~Dead("client")
      BY SockAssumption DEF Init, Dead, OpenSocks, Sock, SideOf
  <2>2. QED BY <2>1, CountInit DEF DeadIsFreed
<1>2. CountInv /\ DeadIsFreed /\ [Next]_vars => (CountInv /\ DeadIsFreed)'
  <2> SUFFICES ASSUME CountInv, DeadIsFreed, [Next]_vars PROVE CountInv' /\ DeadIsFreed'
      OBVIOUS
  <2>1. CountInv'
      BY CountNext
  <2>2. CASE Next
      BY <2>1, <2>2, FreeNext DEF Next
  <2>3. CASE UNCHANGED vars
    <3>1. UNCHANGED <<fate, pending, freed, sk, local>>
        BY <2>3 DEF vars, shared
    <3>2. (Dead("client")' <=> Dead("client")) /\ (Dead("server")' <=> Dead("server"))
        BY <3>1, StillUndisturbed, Unaffected DEF Undisturbed, Side
    <3>3. \A u \in Thread : LastCloser(u)' <=> LastCloser(u)
        BY <3>1 DEF local, LastCloser
    <3>4. QED BY <2>1, <3>1, <3>2, <3>3 DEF DeadIsFreed, Running
  <2>4. QED BY <2>1, <2>2, <2>3
<1>3. CountInv /\ DeadIsFreed => NoLeak
  <2> SUFFICES ASSUME DeadIsFreed, Running, ~pending, \A t \in Thread : pc[t] = "idle",
                      \A s \in Sock : sk[s] \in {"unused", "closed"}
               PROVE  freed
      BY DEF NoLeak
  <2>1. Dead("client") /\ Dead("server")
      BY DEF Dead, OpenSocks, Promised, Accepting
  <2>2. \A u \in Thread : ~LastCloser(u)
      BY DEF LastCloser
  <2>3. QED BY <2>1, <2>2 DEF DeadIsFreed
<1>4. QED BY <1>1, <1>2, <1>3, PTL DEF Spec
-----------------------------------------------------------------------------
(* The buffers *)

\* A thread inside a buffer holds its mutex, every recv asks for something,
\* and between a receiver's two looks nobody has filled the buffer.
BufferUse(t) == /\ pc[t] \in {"recv_read", "recv_check"} => mutex[MySide(t)] = t
                /\ pc[t] \in {"send_check", "send_write"} => mutex[Peer(t)] = t
                /\ pc[t] \in {"recv_lock", "recv_read", "recv_check", "recv_wait"} => left[t] > 0
                /\ pc[t] = "recv_check" => buf[MySide(t)] = 0
StreamInv == (\A t \in Thread : BufferUse(t)) /\ EofIsFinal

OthersStay(t) == \A u \in Thread : u # t => pc'[u] = pc[u] /\ cur'[u] = cur[u] /\ left'[u] = left[u]
Section == {"recv_read", "recv_check", "send_check", "send_write"}

\* The steps of a call that is not inside a buffer.
Elsewhere(t) == /\ UNCHANGED <<mutex, buf, ended>>
                /\ \A side \in Side : ref[side] = 0 => ref'[side] = 0
                /\ OthersStay(t)
                /\ pc'[t] \notin Section
                /\ pc'[t] \in {"recv_lock", "recv_wait"} => left'[t] > 0

\* A step outside the buffers keeps what is known of the buffers.
LEMMA ElsewhereKeeps ==
    ASSUME CountInv, StreamInv, NEW t \in Thread, Elsewhere(t)
    PROVE  StreamInv'
<1> USE DEF Section
<1>1. \A u \in Thread : u # t => MySide(u)' = MySide(u) /\ Peer(u)' = Peer(u)
    BY DEF Elsewhere, OthersStay, MySide, Peer
<1>2. \A u \in Thread : BufferUse(u)'
    BY <1>1 DEF StreamInv, BufferUse, Elsewhere, OthersStay
<1>3. EofIsFinal'
    BY SidesOfSocks DEF StreamInv, EofIsFinal, Elsewhere
<1>4. QED BY <1>2, <1>3 DEF StreamInv

\* Whoever is in a call on an open socket keeps its side from being counted out.
LEMMA UserOpen ==
    ASSUME CountInv, NEW t \in Thread, Using(t)
    PROVE  ~freed /\ ref[MySide(t)] > 0
<1>1. cur[t] \in OpenSocks(MySide(t)) /\ MySide(t) \in Side
    BY SidesOfSocks DEF CountInv, UsedIsOpen, OpenSocks, MySide, TypeOK
<1>2. ~freed
    BY <1>1 DEF CountInv, FreedIsDead, Dead, Side
<1>3. QED BY <1>1, <1>2, CountZero

\* The start of a call concerns the caller only.
LEMMA BeginMoves ==
    ASSUME TypeOK, NEW t \in Thread, NEW s, NEW label, NEW n, NEW f, Begin(t, s, label, n, f)
    PROVE  OthersStay(t) /\ pc'[t] = label /\ left'[t] = n
BY DEF TypeOK, Begin, OthersStay

\* So does its end, and each of its moves.
LEMMA OthersStayAfter ==
    ASSUME TypeOK, NEW t \in Thread,
           \/ Return(t) \/ \E label : Goto(t, label)
           \/ UNCHANGED local
    PROVE  OthersStay(t)
BY DEF TypeOK, Return, Goto, local, OthersStay

\* AddedCount(t) is 0 unless the caller has a socket open on its side.
LEMMA ElsewhereSteps ==
    ASSUME CountInv, TypeOK', NEW t \in Thread,
           \/ BeginCall(t) \/ AddSpin(t) \/ AddMutex(t)
           \/ CloseCount(t) \/ CloseRemove(t) \/ CloseNotify(t)
           \/ PollSignal(t) \/ PollMark(t) \/ PollClear(t)
    PROVE  Elsewhere(t)
<1> USE DEF shared
<1> TypeOK BY DEF CountInv
<1>1. CASE BeginRecv(t)
  <2>1. \E s \in Sock, n \in RecvCounts, block \in BOOLEAN : Begin(t, s, "recv_lock", n, block)
      BY <1>1, Zenon DEF BeginRecv
  <2>2. OthersStay(t) /\ pc'[t] \notin Section /\ (pc'[t] \in {"recv_lock", "recv_wait"} => left'[t] > 0)
      BY <2>1, BeginMoves, SizeAssumption DEF Section
  <2>3. UNCHANGED <<mutex, buf, ended, ref>>
      BY <1>1, Zenon DEF BeginRecv
  <2>4. QED BY <2>2, <2>3 DEF Elsewhere
<1>2. CASE BeginSend(t)
  <2>1. \E s \in Sock, n \in SendCounts : Begin(t, s, "send_lock", n, FALSE)
      BY <1>2, Zenon DEF BeginSend
  <2>2. OthersStay(t) /\ pc'[t] = "send_lock"
      BY <2>1, BeginMoves, Zenon
  <2>3. UNCHANGED <<mutex, buf, ended, ref>>
      BY <1>2, Zenon DEF BeginSend
  <2>4. QED BY <2>2, <2>3 DEF Elsewhere, Section
<1>3. CASE BeginDup(t)
  <2>1. \E s \in Sock : Begin(t, s, "add_spin", 0, TRUE)
      BY <1>3, Zenon DEF BeginDup
  <2>2. OthersStay(t) /\ pc'[t] = "add_spin"
      BY <2>1, BeginMoves, Zenon
  <2>3. UNCHANGED <<mutex, buf, ended, ref>>
      BY <1>3, Zenon DEF BeginDup
  <2>4. QED BY <2>2, <2>3 DEF Elsewhere, Section
<1>4. CASE BeginAccept(t)
  <2>1. \E s \in Sock : Begin(t, s, "add_spin", 0, FALSE)
      BY <1>4 DEF BeginAccept, Sock
  <2>2. OthersStay(t) /\ pc'[t] = "add_spin"
      BY <2>1, BeginMoves, Zenon
  <2>3. UNCHANGED <<mutex, buf, ended, ref>>
      BY <1>4, Zenon DEF BeginAccept
  <2>4. QED BY <2>2, <2>3 DEF Elsewhere, Section
<1>5. CASE BeginClose(t)
  <2>1. \E s \in Sock : Begin(t, s, "close_count", 0, FALSE)
      BY <1>5, Zenon DEF BeginClose
  <2>2. OthersStay(t) /\ pc'[t] = "close_count"
      BY <2>1, BeginMoves, Zenon
  <2>3. UNCHANGED <<mutex, buf, ended, ref>>
      BY <1>5, Zenon DEF BeginClose
  <2>4. QED BY <2>2, <2>3 DEF Elsewhere, Section
<1>6. CASE PollCreate(t)
  <2>1. \E s \in Sock : Begin(t, s, "poll_signal", 0, buf[SideOf(s)] > 0)
      BY <1>6, Zenon DEF PollCreate
  <2>2. OthersStay(t) /\ pc'[t] = "poll_signal"
      BY <2>1, BeginMoves, Zenon
  <2>3. UNCHANGED <<mutex, buf, ended, ref>>
      BY <1>6, Zenon DEF PollCreate
  <2>4. QED BY <2>2, <2>3 DEF Elsewhere, Section
<1>7. CASE DropBacklog(t)
  <2>1. UNCHANGED <<mutex, buf, ended>> /\ OthersStay(t) /\ pc'[t] = "idle"
    <3>1. UNCHANGED <<mutex, buf, ended, local>> /\ pc[t] = "idle"
        BY <1>7, Zenon DEF DropBacklog, Idle, At
    <3>2. QED BY <3>1, OthersStayAfter DEF local
  <2>2. ref' = ref \/ ref' = [ref EXCEPT !["server"] = 0]
      BY <1>7, Zenon DEF DropBacklog
  <2>3. \A side \in Side : ref[side] = 0 => ref'[side] = 0
      BY <2>2 DEF TypeOK
  <2>4. QED BY <2>1, <2>3 DEF Elsewhere, Section
<1>8. CASE AddSpin(t)
    BY <1>8, OthersStayAfter DEF AddSpin, Goto, Section, TypeOK, Elsewhere
<1>9. CASE AddMutex(t)
  <2>1. Return(t) \/ UNCHANGED local
      BY <1>9, Zenon DEF AddMutex
  <2>2. OthersStay(t) /\ pc'[t] \in {"idle", "add_mutex"}
      BY <1>9, <2>1, OthersStayAfter DEF AddMutex, At, Return, local, TypeOK
  <2>3. UNCHANGED <<mutex, buf, ended>>
      BY <1>9, Zenon DEF AddMutex
  <2>4. \A side \in Side : ref[side] = 0 => ref'[side] = 0
    <3>1. CASE flag[t]
      <4>1. Using(t) /\ MySide(t) \in Side
          BY <1>9, <3>1, SidesOfSocks DEF AddMutex, At, Using, MySide, TypeOK
      <4>2. ref[MySide(t)] > 0
          BY <4>1, UserOpen
      <4>3. ref' = ref \/ ref' = [ref EXCEPT ![MySide(t)] = @ + AddedCount(t)]
          BY <1>9, Zenon DEF AddMutex
      <4>4. QED BY <4>1, <4>2, <4>3 DEF TypeOK
    <3>2. CASE ~flag[t]
      <4>1. AddedCount(t) = 0
          BY <3>2, Zenon DEF AddedCount
      <4>2. ref' = ref \/ ref' = [ref EXCEPT ![MySide(t)] = @ + 0]
          BY <1>9, <4>1, Zenon DEF AddMutex
      <4>3. QED BY <4>2 DEF TypeOK
    <3>3. QED BY <3>1, <3>2
  <2>5. QED BY <2>2, <2>3, <2>4 DEF Elsewhere, Section
<1>10. CASE CloseCount(t)
  <2>1. /\ cur' = cur /\ pc' = [pc EXCEPT ![t] = "close_remove"]
        /\ left' = [left EXCEPT ![t] = CountAfterClose(t)]
        /\ UNCHANGED <<mutex, buf, ended>>
      BY <1>10, Zenon DEF CloseCount
  <2>2. OthersStay(t) /\ pc'[t] = "close_remove"
      BY <2>1 DEF TypeOK, OthersStay
  <2>3. \A side \in Side : ref[side] = 0 => ref'[side] = 0
    <3>1. PICK my \in Side : my = MySide(t)
        BY SidesOfSocks DEF MySide, TypeOK
    <3>2. ref' = [ref EXCEPT ![my] = @ - 1]
        BY <1>10, <3>1, Zenon DEF CloseCount
    <3>3. ref[my] - 1 \in Nat
        BY <1>10, <3>1, OpenCounts
    <3>4. QED BY <3>2, <3>3 DEF TypeOK
  <2>4. QED BY <2>1, <2>2, <2>3 DEF Elsewhere, Section
<1>11. CASE CloseRemove(t)
  <2>1. Return(t) \/ Goto(t, "close_notify") \/ (UNCHANGED local /\ pc[t] = "close_remove")
      BY <1>11, Zenon DEF CloseRemove, UseAfterFree, At
  <2>2. OthersStay(t) /\ pc'[t] \in {"idle", "close_notify", "close_remove"}
      BY <2>1, OthersStayAfter DEF Return, Goto, local, TypeOK
  <2>3. UNCHANGED <<mutex, buf, ended, ref>>
      BY <1>11, Zenon DEF CloseRemove, UseAfterFree
  <2>4. QED BY <2>2, <2>3 DEF Elsewhere, Section
<1>12. CASE CloseNotify(t)
  <2>1. Return(t) \/ (UNCHANGED local /\ pc[t] = "close_notify")
      BY <1>12, Zenon DEF CloseNotify, UseAfterFree, At
  <2>2. OthersStay(t) /\ pc'[t] \in {"idle", "close_notify"}
      BY <2>1, OthersStayAfter DEF Return, local, TypeOK
  <2>3. UNCHANGED <<mutex, buf, ended, ref>>
      BY <1>12, Zenon DEF CloseNotify, UseAfterFree
  <2>4. QED BY <2>2, <2>3 DEF Elsewhere, Section
<1>13. CASE PollSignal(t) \/ PollMark(t) \/ PollClear(t)
  <2>1. Return(t) \/ Goto(t, "poll_mark") \/ Goto(t, "poll_clear")
      BY <1>13, Zenon DEF PollSignal, PollMark, PollClear
  <2>2. OthersStay(t) /\ pc'[t] \in {"idle", "poll_mark", "poll_clear"}
      BY <2>1, OthersStayAfter DEF Return, Goto, TypeOK
  <2>3. UNCHANGED <<mutex, buf, ended, ref>>
      BY <1>13, Zenon DEF PollSignal, PollMark, PollClear
  <2>4. QED BY <2>2, <2>3 DEF Elsewhere, Section
<1>14. QED BY <1>1, <1>2, <1>3, <1>4, <1>5, <1>6, <1>7, <1>8, <1>9, <1>10, <1>11, <1>12, <1>13
           DEF BeginCall

\* A thread touches a buffer's mutex and bytes only to take the mutex while it
\* is free and while it holds it: nobody else in a section is concerned.
Touches(t, side) ==
    /\ \/ mutex' = mutex
       \/ mutex[side] = None /\ mutex' = [mutex EXCEPT ![side] = t]
       \/ mutex[side] = t /\ mutex' = [mutex EXCEPT ![side] = None]
    /\ \/ buf' = buf
       \/ mutex[side] = t /\ \E n : buf' = [buf EXCEPT ![side] = n]

\* A thread that is inside a buffer keeps the others out of it.
LEMMA OthersUnaffected ==
    ASSUME TypeOK, NEW t \in Thread, OthersStay(t), NEW side \in Side, Touches(t, side),
           NEW u \in Thread, u # t, BufferUse(u)
    PROVE  BufferUse(u)'
<1>1. /\ pc'[u] = pc[u] /\ cur'[u] = cur[u] /\ left'[u] = left[u]
      /\ MySide(u)' = MySide(u) /\ Peer(u)' = Peer(u)
    BY DEF OthersStay, MySide, Peer
<1>2. \A other \in Side : mutex[other] = u => mutex'[other] = u /\ buf'[other] = buf[other]
    BY NoneAssumption DEF Touches, TypeOK
<1>3. MySide(u) \in Side /\ Peer(u) \in Side
    BY SidesOfSocks DEF TypeOK, MySide, Peer
<1>4. QED BY <1>1, <1>2, <1>3 DEF BufferUse

\* A step inside a buffer keeps what is known of the buffers.
LEMMA SectionSteps ==
    ASSUME CountInv, StreamInv, TypeOK', NEW t \in Thread,
           \/ RecvLock(t) \/ RecvRead(t) \/ RecvCheck(t) \/ RecvWake(t)
           \/ SendLock(t) \/ SendCheck(t) \/ SendWrite(t) \/ SendWake(t)
    PROVE  StreamInv'
<1> TypeOK /\ BufferUse(t) BY DEF CountInv, StreamInv
<1> PICK my \in Side, peer \in Side : my = MySide(t) /\ peer = Peer(t)
    BY SidesOfSocks DEF MySide, Peer, TypeOK
<1>1. SUFFICES /\ OthersStay(t) /\ \E side \in Side : Touches(t, side)
               /\ BufferUse(t)' /\ EofIsFinal'
    BY OthersUnaffected DEF StreamInv
<1>2. ASSUME UNCHANGED <<buf, ended, ref>> PROVE EofIsFinal'
    BY <1>2 DEF StreamInv, EofIsFinal
<1>3. ASSUME Return(t) PROVE OthersStay(t) /\ BufferUse(t)'
    BY <1>3, OthersStayAfter DEF Return, BufferUse, TypeOK
<1>4. CASE RecvLock(t) \/ RecvWake(t)
  <2>1. /\ UNCHANGED <<buf, ended, ref>> /\ Goto(t, "recv_read") /\ Lock(t, my)
        /\ pc[t] \in {"recv_lock", "recv_wait"}
      BY <1>4, Zenon DEF RecvLock, RecvWake, events, At
  <2>2. OthersStay(t) /\ pc'[t] = "recv_read" /\ UNCHANGED <<cur, left>>
      BY <2>1, OthersStayAfter DEF Goto, TypeOK
  <2>3. mutex'[my] = t /\ Touches(t, my)
      BY <2>1 DEF Lock, Touches, TypeOK
  <2>4. MySide(t)' = my
      BY <2>2 DEF MySide
  <2>5. BufferUse(t)'
      BY <2>1, <2>2, <2>3, <2>4 DEF BufferUse
  <2>6. QED BY <1>2, <2>1, <2>2, <2>3, <2>5
<1>5. CASE RecvRead(t)
  <2>1. pc[t] = "recv_read" /\ mutex[my] = t /\ left[t] > 0 /\ UNCHANGED <<ref, ended>>
      BY <1>5, Zenon DEF RecvRead, At, BufferUse
  <2>2. PICK n : n = Lesser(left[t], buf[my])
      OBVIOUS
  <2>3. n \in 0..buf[my] /\ (n = 0 => buf[my] = 0)
      BY <2>1, <2>2 DEF Lesser, TypeOK
  <2>4. CASE RecvSome(t, n)
    <3>1. /\ buf' = [buf EXCEPT ![my] = @ - n] /\ Return(t)
          /\ mutex' = [mutex EXCEPT ![my] = None]
        BY <2>4, Zenon DEF RecvSome, Unlock
    <3>2. Touches(t, my)
        BY <2>1, <3>1, Zenon DEF Touches
    <3>3. EofIsFinal'
        BY <2>1, <2>3, <3>1 DEF StreamInv, EofIsFinal, TypeOK
    <3>4. QED BY <1>3, <3>1, <3>2, <3>3
  <2>5. CASE n = 0 /\ Goto(t, "recv_check") /\ UNCHANGED <<buf, mutex>>
    <3>1. OthersStay(t) /\ pc'[t] = "recv_check" /\ UNCHANGED <<cur, left>>
        BY <2>5, OthersStayAfter DEF Goto, TypeOK
    <3>2. MySide(t)' = my
        BY <3>1 DEF MySide
    <3>3. BufferUse(t)'
        BY <2>1, <2>3, <2>5, <3>1, <3>2 DEF BufferUse
    <3>4. Touches(t, my)
        BY <2>5 DEF Touches
    <3>5. QED BY <1>2, <2>1, <2>5, <3>1, <3>3, <3>4
  <2>6. QED BY <1>5, <2>2, <2>4, <2>5, Zenon DEF RecvRead
<1>6. CASE RecvCheck(t)
  <2>1. /\ pc[t] = "recv_check" /\ mutex[my] = t /\ buf[my] = 0 /\ left[t] > 0
        /\ UNCHANGED <<ref, buf>>
      BY <1>6, Zenon DEF RecvCheck, At, BufferUse
  <2>2. mutex' = [mutex EXCEPT ![my] = None]
      BY <1>6, Zenon DEF RecvCheck, Unlock, Sleep
  <2>3. Touches(t, my)
      BY <2>1, <2>2 DEF Touches
  <2>4. OthersStay(t) /\ BufferUse(t)'
    <3>1. CASE Goto(t, "recv_wait")
      <4>1. OthersStay(t) /\ pc'[t] = "recv_wait" /\ UNCHANGED left
          BY <3>1, OthersStayAfter DEF Goto, TypeOK
      <4>2. QED BY <2>1, <4>1 DEF BufferUse
    <3>2. QED BY <1>6, <1>3, <3>1, Zenon DEF RecvCheck
  <2>5. EofIsFinal'
    <3>1. CASE ended' = ended
        BY <2>1, <3>1, <1>2
    <3>2. CASE ended' = [ended EXCEPT ![my] = TRUE] /\ ref[peer] = 0
      <4>1. peer = Other(my)
          BY DEF MySide, Peer
      <4>2. QED BY <2>1, <3>2, <4>1 DEF StreamInv, EofIsFinal, TypeOK
    <3>3. QED BY <1>6, <3>1, <3>2, Zenon DEF RecvCheck
  <2>6. QED BY <2>3, <2>4, <2>5
<1>7. CASE SendLock(t) \/ SendWake(t)
  <2>1. UNCHANGED <<buf, ended, ref>> /\ Goto(t, "send_check") /\ Lock(t, peer)
      BY <1>7, Zenon DEF SendLock, SendWake, events
  <2>2. OthersStay(t) /\ pc'[t] = "send_check" /\ UNCHANGED cur
      BY <2>1, OthersStayAfter DEF Goto, TypeOK
  <2>3. mutex'[peer] = t /\ Touches(t, peer)
      BY <2>1 DEF Lock, Touches, TypeOK
  <2>4. Peer(t)' = peer
      BY <2>2 DEF Peer
  <2>5. BufferUse(t)'
      BY <2>2, <2>3, <2>4 DEF BufferUse
  <2>6. QED BY <1>2, <2>1, <2>2, <2>3, <2>5
<1>8. CASE SendCheck(t)
  <2>1. pc[t] = "send_check" /\ mutex[peer] = t /\ UNCHANGED <<buf, ended, ref>>
      BY <1>8, Zenon DEF SendCheck, At, BufferUse, events
  <2>2. CASE Goto(t, "send_write") /\ UNCHANGED mutex
    <3>1. OthersStay(t) /\ pc'[t] = "send_write" /\ UNCHANGED cur
        BY <2>2, OthersStayAfter DEF Goto, TypeOK
    <3>2. Peer(t)' = peer
        BY <3>1 DEF Peer
    <3>3. BufferUse(t)' /\ Touches(t, peer)
        BY <2>1, <2>2, <3>1, <3>2 DEF BufferUse, Touches
    <3>4. QED BY <1>2, <2>1, <3>1, <3>3
  <2>3. CASE Unlock(t, peer) /\ Return(t)
    <3>1. Touches(t, peer)
        BY <2>1, <2>3 DEF Touches, Unlock
    <3>2. QED BY <1>2, <1>3, <2>1, <2>3, <3>1
  <2>4. QED BY <1>8, <2>2, <2>3, Zenon DEF SendCheck
<1>9. CASE SendWrite(t)
  <2>1. pc[t] = "send_write" /\ mutex[peer] = t /\ UNCHANGED <<ended, ref>>
      BY <1>9, Zenon DEF SendWrite, At, BufferUse
  <2>2. PICK n : n = Lesser(left[t], Room(peer))
      OBVIOUS
  <2>3. buf' = [buf EXCEPT ![peer] = @ + n] /\ mutex' = [mutex EXCEPT ![peer] = None]
      BY <1>9, <2>2, Zenon DEF SendWrite, Unlock
  <2>4. Touches(t, peer)
      BY <2>1, <2>3, Zenon DEF Touches
  <2>5. OthersStay(t) /\ BufferUse(t)'
    <3>1. CASE /\ pc' = [pc EXCEPT ![t] = "send_wait"] /\ left' = [left EXCEPT ![t] = @ - n]
               /\ UNCHANGED <<cur, flag>>
      <4>1. OthersStay(t) /\ pc'[t] = "send_wait"
          BY <3>1 DEF OthersStay, TypeOK
      <4>2. QED BY <4>1 DEF BufferUse
    <3>2. QED BY <1>9, <1>3, <2>2, <3>1, Zenon DEF SendWrite
  <2>6. EofIsFinal'
    <3>1. ref[my] > 0
        BY <2>1, UserOpen DEF Using
    <3>2. Other(peer) = my
        BY SidesOfSocks DEF MySide, Peer, TypeOK
    <3>3. ~ended[peer]
        BY <3>1, <3>2 DEF StreamInv, EofIsFinal
    <3>4. QED BY <2>1, <2>3, <3>3 DEF StreamInv, EofIsFinal, TypeOK
  <2>7. QED BY <2>4, <2>5, <2>6
<1>10. QED BY <1>4, <1>5, <1>6, <1>7, <1>8, <1>9

\* Every step keeps what is known of the buffers.
LEMMA StreamNext == ASSUME CountInv, StreamInv, [Next]_vars PROVE StreamInv'
<1>1. CASE Next
  <2>1. TypeOK'
      BY <1>1, TypeStep
  <2>2. PICK t \in Thread : BeginCall(t) \/ LockStep(t) \/ OwnStep(t)
      BY <1>1 DEF Next
  <2>3. QED BY <2>1, <2>2, ElsewhereSteps, ElsewhereKeeps, SectionSteps DEF LockStep, OwnStep
<1>2. CASE UNCHANGED vars
    BY <1>2 DEF vars, shared, local, StreamInv, BufferUse, EofIsFinal, MySide, Peer
<1>3. QED BY <1>1, <1>2

\* It is known when connect() has succeeded: both buffers are empty.
LEMMA StreamInit == ASSUME Init PROVE StreamInv
BY DEF Init, StreamInv, BufferUse, EofIsFinal

\* End of file is final: once a recv of a side has returned 0, no byte is in its
\* buffer, no socket of the other side is left, and none is added (_sock_recvfrom, 870).
THEOREM EofFinal == Spec => []EofIsFinal
<1>1. StreamInv => EofIsFinal
    BY DEF StreamInv
<1>2. Spec => [](CountInv /\ StreamInv)
  <2>1. Init => CountInv /\ StreamInv
      BY CountInit, StreamInit
  <2>2. CountInv /\ StreamInv /\ [Next]_vars => (CountInv /\ StreamInv)'
      BY CountNext, StreamNext
  <2>3. QED BY <2>1, <2>2, PTL DEF Spec
<1>3. QED BY <1>1, <1>2, PTL
-----------------------------------------------------------------------------
(* The refinement *)

Opened == [side \in Side |-> ref[side] > 0]

\* The two specifications have the same sides.
LEMMA SameSides == Stream!Side = Side /\ \A side : Stream!Other(side) = Other(side)
BY DEF Stream!Side, Side, Stream!Other, Other

\* A step that keeps the bytes and who is open is a stutter.
LEMMA StutterMaps ==
    ASSUME UNCHANGED <<buf, ended>>, \A side \in Side : (ref'[side] > 0) <=> (ref[side] > 0)
    PROVE  UNCHANGED Stream!vars
<1>1. \A side \in Side : (ref'[side] > 0) = (ref[side] > 0)
    OBVIOUS
<1>2. Opened' = Opened
    BY <1>1, Zenon DEF Opened
<1>3. QED BY <1>2 DEF Opened, Stream!vars

\* The last socket of a side is closed.
LEMMA CloseMaps ==
    ASSUME UNCHANGED <<buf, ended>>, NEW my \in Side, ref[my] > 0, ~(ref'[my] > 0),
           \A side \in Side : side # my => ((ref'[side] > 0) <=> (ref[side] > 0))
    PROVE  Stream!Next
<1>1. Opened' = [Opened EXCEPT ![my] = FALSE]
  <2>1. \A side \in Side : Opened'[side] = IF side = my THEN FALSE ELSE Opened[side]
    <3> TAKE side \in Side
    <3>1. CASE side = my
      <4>1. (ref'[my] > 0) = FALSE
          OBVIOUS
      <4>2. QED BY <3>1, <4>1, Zenon DEF Opened
    <3>2. CASE side # my
      <4>1. (ref'[side] > 0) = (ref[side] > 0)
          BY <3>2
      <4>2. QED BY <3>2, <4>1, Zenon DEF Opened
    <3>3. QED BY <3>1, <3>2
  <2>2. QED BY <2>1 DEF Opened
<1>2. Opened[my]
    BY DEF Opened
<1>3. Stream!Close(my)
    BY <1>1, <1>2 DEF Stream!Close, Opened
<1>4. QED BY <1>3, SameSides DEF Stream!Next

\* Bytes are sent by a side that is open to one that was not told end of file.
LEMMA TransmitMaps ==
    ASSUME UNCHANGED <<ended, ref>>, NEW peer \in Side, ref[Other(peer)] > 0, ~ended[peer],
           NEW n \in 1..Capacity, buf[peer] + n <= Capacity, buf' = [buf EXCEPT ![peer] = @ + n]
    PROVE  Stream!Next
<1>1. Opened' = Opened /\ Opened[Other(peer)]
    BY SidesOfSocks DEF Opened
<1>2. Stream!Transmit(peer, n)
    BY <1>1, SameSides DEF Stream!Transmit, Opened
<1>3. QED BY <1>2, SameSides DEF Stream!Next

\* Bytes that were sent are received.
LEMMA ReceiveMaps ==
    ASSUME UNCHANGED <<ended, ref>>, NEW my \in Side,
           NEW n \in 1..Capacity, n <= buf[my], buf' = [buf EXCEPT ![my] = @ - n]
    PROVE  Stream!Next
<1>1. Opened' = Opened
    BY DEF Opened
<1>2. Stream!Receive(my, n)
    BY <1>1 DEF Stream!Receive, Opened
<1>3. QED BY <1>2, SameSides DEF Stream!Next

\* End of file is told when nothing is left and the other side is closed.
LEMMA EndOfFileMaps ==
    ASSUME UNCHANGED <<buf, ref>>, NEW my \in Side, ref[Other(my)] = 0, buf[my] = 0,
           ended' = [ended EXCEPT ![my] = TRUE]
    PROVE  Stream!Next
<1>1. Opened' = Opened
    BY DEF Opened
<1>2. ~Opened[Other(my)]
  <2>1. PICK other \in Side : other = Other(my)
      BY SidesOfSocks
  <2>2. ~(ref[other] > 0)
      BY <2>1
  <2>3. QED BY <2>1, <2>2, Zenon DEF Opened
<1>3. Stream!EndOfFile(my)
    BY <1>1, <1>2, SameSides DEF Stream!EndOfFile, Opened
<1>4. QED BY <1>3, SameSides DEF Stream!Next

\* Every step of a connection is a step of a pair of stream sockets, or a stutter.
LEMMA StreamStep ==
    ASSUME CountInv, StreamInv, NEW t \in Thread, BeginCall(t) \/ LockStep(t) \/ OwnStep(t)
    PROVE  Stream!Next \/ UNCHANGED Stream!vars
<1> TypeOK /\ BufferUse(t) BY DEF CountInv, StreamInv
<1> PICK my \in Side, peer \in Side : my = MySide(t) /\ peer = Peer(t)
    BY SidesOfSocks DEF MySide, Peer, TypeOK
<1>0. Other(my) = peer /\ Other(peer) = my
    BY SidesOfSocks DEF MySide, Peer, TypeOK
<1>1. CASE \/ BeginRecv(t) \/ BeginSend(t) \/ BeginDup(t) \/ BeginAccept(t) \/ BeginClose(t) \/ PollCreate(t)
           \/ RecvLock(t) \/ RecvWake(t) \/ SendLock(t) \/ SendCheck(t) \/ SendWake(t)
           \/ AddSpin(t) \/ CloseRemove(t) \/ CloseNotify(t)
           \/ PollSignal(t) \/ PollMark(t) \/ PollClear(t)
  <2>1. UNCHANGED <<buf, ended, ref>>
      BY <1>1, Zenon DEF BeginRecv, BeginSend, BeginDup, BeginAccept, BeginClose, PollCreate,
         RecvLock, RecvWake, SendLock, SendCheck, SendWake, AddSpin, CloseRemove, CloseNotify,
         UseAfterFree, PollSignal, PollMark, PollClear, shared
  <2>2. QED BY <2>1, StutterMaps
<1>2. CASE DropBacklog(t)
  <2>1. UNCHANGED <<buf, ended>>
      BY <1>2, Zenon DEF DropBacklog
  <2>2. CASE ref' = ref
      BY <2>1, <2>2, StutterMaps
  <2>3. CASE ref' = [ref EXCEPT !["server"] = 0]
    <3>1. ref'["server"] = 0 /\ \A side \in Side : side # "server" => ref'[side] = ref[side]
        BY <2>3 DEF TypeOK, Side
    <3>2. ref["server"] > 0
      <4>1. Promised("server")
          BY <1>2 DEF DropBacklog, Promised
      <4>2. ~freed
          BY <4>1 DEF CountInv, FreedIsDead, Dead
      <4>3. QED BY <4>1, <4>2, CountZero DEF Side
    <3>3. QED BY <2>1, <3>1, <3>2, CloseMaps DEF Side
  <2>4. QED BY <1>2, <2>2, <2>3, Zenon DEF DropBacklog
<1>3. CASE AddMutex(t)
  <2>1. UNCHANGED <<buf, ended>>
      BY <1>3, Zenon DEF AddMutex
  <2>2. CASE ref' = ref
      BY <2>1, <2>2, StutterMaps
  <2>3. CASE ref' = [ref EXCEPT ![my] = @ + AddedCount(t)]
    <3>1. AddedCount(t) \in Nat /\ (~flag[t] => AddedCount(t) = 0)
        BY DEF AddedCount
    <3>2. flag[t] => ref[my] > 0
        BY <1>3, UserOpen DEF Using, AddMutex, At
    <3>3. \A side \in Side : (ref'[side] > 0) <=> (ref[side] > 0)
        BY <2>3, <3>1, <3>2 DEF TypeOK
    <3>4. QED BY <2>1, <3>3, StutterMaps
  <2>4. QED BY <1>3, <2>2, <2>3, Zenon DEF AddMutex
<1>4. CASE CloseCount(t)
  <2>1. UNCHANGED <<buf, ended>> /\ ref' = [ref EXCEPT ![my] = @ - 1]
      BY <1>4, Zenon DEF CloseCount
  <2>2. ref[my] > 0
    <3>1. ref[my] - 1 \in Nat
        BY <1>4, OpenCounts
    <3>2. QED BY <3>1 DEF TypeOK
  <2>3. \A side \in Side : side # my => ref'[side] = ref[side]
      BY <2>1 DEF TypeOK
  <2>4. CASE ref'[my] > 0
      BY <2>1, <2>2, <2>3, <2>4, StutterMaps
  <2>5. CASE ~(ref'[my] > 0)
      BY <2>1, <2>2, <2>3, <2>5, CloseMaps
  <2>6. QED BY <2>4, <2>5
<1>5. CASE RecvRead(t)
  <2>1. UNCHANGED <<ref, ended>>
      BY <1>5, Zenon DEF RecvRead
  <2>2. PICK n : n = Lesser(left[t], buf[my])
      OBVIOUS
  <2>3. n \in 0..buf[my] /\ buf[my] \in 0..Capacity
      BY <2>2 DEF Lesser, TypeOK
  <2>4. CASE n > 0 /\ buf' = [buf EXCEPT ![my] = @ - n]
    <3>1. n \in 1..Capacity /\ n <= buf[my]
        BY <2>3, <2>4, SizeAssumption
    <3>2. QED BY <2>1, <2>4, <3>1, ReceiveMaps
  <2>5. CASE buf' = buf
      BY <2>1, <2>5, StutterMaps
  <2>6. QED BY <1>5, <2>2, <2>4, <2>5, Zenon DEF RecvRead, RecvSome
<1>6. CASE SendWrite(t)
  <2>1. pc[t] = "send_write" /\ UNCHANGED <<ref, ended>>
      BY <1>6, Zenon DEF SendWrite, At
  <2>2. PICK n : n = Lesser(left[t], Room(peer))
      OBVIOUS
  <2>3. n \in 0..Capacity /\ buf[peer] + n <= Capacity /\ buf[peer] \in Nat
      BY <2>2, SizeAssumption DEF Lesser, Room, TypeOK
  <2>4. buf' = [buf EXCEPT ![peer] = @ + n]
      BY <1>6, <2>2, Zenon DEF SendWrite
  <2>5. ref[Other(peer)] > 0 /\ ~ended[peer]
    <3>1. ref[my] > 0
        BY <2>1, UserOpen DEF Using
    <3>2. QED BY <1>0, <3>1 DEF StreamInv, EofIsFinal
  <2>6. CASE n = 0
    <3>1. buf' = buf
        BY <2>3, <2>4, <2>6 DEF TypeOK
    <3>2. QED BY <2>1, <3>1, StutterMaps
  <2>7. CASE n # 0
    <3>1. n \in 1..Capacity
        BY <2>3, <2>7, SizeAssumption
    <3>2. QED BY <2>1, <2>3, <2>4, <2>5, <3>1, TransmitMaps
  <2>8. QED BY <2>6, <2>7
<1>7. CASE RecvCheck(t)
  <2>1. UNCHANGED <<buf, ref>> /\ buf[my] = 0
      BY <1>7, Zenon DEF RecvCheck, BufferUse, At
  <2>2. CASE ended' = ended
      BY <2>1, <2>2, StutterMaps
  <2>3. CASE ref[peer] = 0 /\ ended' = [ended EXCEPT ![my] = TRUE]
      BY <1>0, <2>1, <2>3, EndOfFileMaps
  <2>4. QED BY <1>7, <2>2, <2>3, Zenon DEF RecvCheck
<1>8. QED BY <1>1, <1>2, <1>3, <1>4, <1>5, <1>6, <1>7 DEF BeginCall, LockStep, OwnStep

\* A connection of internalsock.c is a pair of stream sockets, for any number of
\* threads, sockets and calls and any sizes: nothing is lost, nothing is sent by
\* a closed side, and recv returns 0 only when the other side is closed and
\* everything it has sent has been received (_sock_recvfrom, 870; _sock_sendto, 927).
THEOREM StreamImplemented == Spec => ImplementsStream
<1>1. Init => CountInv /\ StreamInv
    BY CountInit, StreamInit
<1>2. CountInv /\ StreamInv /\ [Next]_vars => (CountInv /\ StreamInv)'
    BY CountNext, StreamNext
<1>3. Init => Stream!Init
  <2> SUFFICES ASSUME Init PROVE Stream!Init
      OBVIOUS
  <2>1. buf = [side \in Side |-> 0] /\ ended = [side \in Side |-> FALSE]
      BY DEF Init
  <2>2. [side \in Side |-> ref[side] > 0] = [side \in Side |-> TRUE]
    <3>1. \A side \in Side : (ref[side] > 0) = TRUE
        BY DEF Init
    <3>2. QED BY <3>1, Zenon
  <2>3. QED BY <2>1, <2>2, SameSides, Zenon DEF Stream!Init
<1>4. CountInv /\ StreamInv /\ [Next]_vars => [Stream!Next]_(Stream!vars)
  <2> SUFFICES ASSUME CountInv, StreamInv, [Next]_vars PROVE Stream!Next \/ UNCHANGED Stream!vars
      OBVIOUS
  <2>1. CASE Next
      BY <2>1, StreamStep DEF Next
  <2>2. CASE UNCHANGED vars
      BY <2>2, StutterMaps DEF vars, shared
  <2>3. QED BY <2>1, <2>2
<1>5. QED BY <1>1, <1>2, <1>3, <1>4, PTL DEF Spec, ImplementsStream, Stream!Spec
-----------------------------------------------------------------------------
(* No wakeup is lost *)

\* A step either only adds its own thread to those asleep on a buffer and leaves
\* the buffer alone, or wakes everybody else who sleeps there.
Rouses(t, side) == \/ buf'[side] = buf[side] /\ waiting'[side] \subseteq waiting[side] \cup {t}
                   \/ waiting'[side] \subseteq {t}

\* Whoever changes a buffer wakes all who wait for a change.
LEMMA ChangesRouse ==
    ASSUME TypeOK, NEW t \in Thread, BeginCall(t) \/ LockStep(t) \/ OwnStep(t), NEW side \in Side
    PROVE  Rouses(t, side)
<1> PICK my \in Side, peer \in Side : my = MySide(t) /\ peer = Peer(t)
    BY SidesOfSocks DEF MySide, Peer, TypeOK
<1> USE DEF Rouses
<1>1. CASE UNCHANGED <<buf, waiting>>
    BY <1>1
<1>2. CASE RecvCheck(t)
  <2>1. buf' = buf /\ (waiting' = waiting \/ waiting' = [waiting EXCEPT ![my] = @ \cup {t}])
      BY <1>2, Zenon DEF RecvCheck, Sleep
  <2>2. QED BY <2>1 DEF TypeOK
<1>3. CASE CloseNotify(t)
  <2>1. \/ UNCHANGED <<buf, waiting>>
        \/ buf' = buf /\ waiting' = [waiting EXCEPT ![peer] = {}]
      BY <1>3, Zenon DEF CloseNotify, UseAfterFree, Broadcast
  <2>2. QED BY <2>1 DEF TypeOK
<1>4. CASE RecvRead(t)
  <2>1. \/ UNCHANGED <<buf, waiting>>
        \/ \E n : buf' = [buf EXCEPT ![my] = n] /\ waiting' = [waiting EXCEPT ![my] = {}]
      BY <1>4, Zenon DEF RecvRead, RecvSome, Broadcast
  <2>2. QED BY <2>1 DEF TypeOK
<1>5. CASE SendWrite(t)
  <2>1. /\ \E n : buf' = [buf EXCEPT ![peer] = n]
        /\ waiting' = [waiting EXCEPT ![peer] = {}] \/ waiting' = [waiting EXCEPT ![peer] = {t}]
      BY <1>5, Zenon DEF SendWrite, Broadcast
  <2>2. QED BY <2>1 DEF TypeOK
<1>6. BeginCall(t) => UNCHANGED <<buf, waiting>>
    BY Zenon DEF BeginCall, BeginRecv, BeginSend, BeginDup, BeginAccept, BeginClose, PollCreate,
       DropBacklog, shared
<1>7. LockStep(t) => UNCHANGED <<buf, waiting>> \/ RecvCheck(t) \/ CloseNotify(t)
    BY Zenon DEF LockStep, RecvLock, RecvWake, SendLock, SendCheck, SendWake, AddSpin, AddMutex,
       CloseCount, CloseRemove, UseAfterFree
<1>8. OwnStep(t) => UNCHANGED <<buf, waiting>> \/ RecvRead(t) \/ SendWrite(t)
    BY Zenon DEF OwnStep, PollSignal, PollMark, PollClear, shared
<1>9. QED BY <1>1, <1>2, <1>3, <1>4, <1>5, <1>6, <1>7, <1>8

\* What the two kinds of sleepers wait for.
ReceiverAsleep(u) == pc[u] = "recv_wait" /\ u \in waiting[MySide(u)]
SenderAsleep(u) == pc[u] = "send_wait" /\ u \in waiting[Peer(u)]
WillBeWoken(side) == ref[side] > 0 \/ \E u \in Thread : WillNotify(u, side)
Attended(u) == /\ ReceiverAsleep(u) => buf[MySide(u)] = 0 /\ WillBeWoken(Peer(u))
               /\ SenderAsleep(u) => buf[Peer(u)] = Capacity

\* A receiver goes to sleep on an empty buffer while the other side is open; a
\* sender on a full one.
LEMMA AsleepForAReason ==
    ASSUME CountInv, NEW t \in Thread, BufferUse(t), BeginCall(t) \/ LockStep(t) \/ OwnStep(t),
           Running'
    PROVE  Attended(t)'
<1> TypeOK BY DEF CountInv
<1> PICK my \in Side, peer \in Side : my = MySide(t) /\ peer = Peer(t)
    BY SidesOfSocks DEF MySide, Peer, TypeOK
<1>1. CASE pc'[t] \notin {"recv_wait", "send_wait"}
    BY <1>1 DEF Attended, ReceiverAsleep, SenderAsleep
<1>2. CASE RecvCheck(t) /\ Goto(t, "recv_wait")
  <2>1. ref[peer] > 0 /\ UNCHANGED <<buf, ref>> /\ pc[t] = "recv_check"
    <3>1. pc'[t] = "recv_wait"
        BY <1>2 DEF Goto, TypeOK
    <3>2. ~Return(t)
        BY <3>1 DEF Return, TypeOK
    <3>3. QED BY <1>2, <3>2, Zenon DEF RecvCheck, At
  <2>2. pc'[t] = "recv_wait" /\ cur' = cur
      BY <1>2 DEF Goto, TypeOK
  <2>3. MySide(t)' = my /\ Peer(t)' = peer
      BY <2>2 DEF MySide, Peer
  <2>4. buf[my] = 0
      BY <2>1 DEF BufferUse
  <2>5. QED BY <2>1, <2>2, <2>3, <2>4 DEF Attended, ReceiverAsleep, SenderAsleep, WillBeWoken
<1>3. CASE SendWrite(t) /\ ~Return(t)
  <2>1. PICK n : n = Lesser(left[t], Room(peer))
      OBVIOUS
  <2>2. /\ left[t] > n /\ buf' = [buf EXCEPT ![peer] = @ + n]
        /\ pc' = [pc EXCEPT ![t] = "send_wait"] /\ cur' = cur
      BY <1>3, <2>1, Zenon DEF SendWrite
  <2>3. n = Capacity - buf[peer]
      BY <2>1, <2>2, SizeAssumption DEF Lesser, Room, TypeOK
  <2>4. buf'[peer] = Capacity
      BY <2>2, <2>3, SizeAssumption DEF TypeOK
  <2>5. pc'[t] = "send_wait" /\ Peer(t)' = peer
      BY <2>2 DEF Peer, TypeOK
  <2>6. QED BY <2>4, <2>5 DEF Attended, ReceiverAsleep, SenderAsleep
<1>4. ASSUME Return(t) \/ (\E label \in Labels \ {"recv_wait", "send_wait"} : Goto(t, label))
             \/ (\E s, n, f : \E label \in Labels \ {"recv_wait", "send_wait"} : Begin(t, s, label, n, f))
      PROVE  pc'[t] \notin {"recv_wait", "send_wait"}
    BY <1>4 DEF Return, Goto, Begin, TypeOK
<1>5. CASE BeginCall(t) /\ ~DropBacklog(t)
  <2>1. \E s, n, f : \E label \in Labels \ {"recv_wait", "send_wait"} : Begin(t, s, label, n, f)
    <3>1. {"recv_lock", "send_lock", "add_spin", "close_count", "poll_signal"}
              \subseteq Labels \ {"recv_wait", "send_wait"}
        BY DEF Labels
    <3>2. \E s, n, f : \E label \in {"recv_lock", "send_lock", "add_spin", "close_count", "poll_signal"} :
             Begin(t, s, label, n, f)
        BY <1>5, Zenon DEF BeginCall, BeginRecv, BeginSend, BeginDup, BeginAccept, BeginClose, PollCreate
    <3>3. QED BY <3>1, <3>2, Zenon
  <2>2. QED BY <1>1, <1>4, <2>1
<1>6. CASE DropBacklog(t)
  <2>1. pc[t] = "idle" /\ pc' = pc
      BY <1>6, Zenon DEF DropBacklog, Idle, At, local
  <2>2. QED BY <2>1, <1>1
<1>7. CASE CloseCount(t)
  <2>1. pc' = [pc EXCEPT ![t] = "close_remove"]
      BY <1>7, Zenon DEF CloseCount
  <2>2. QED BY <2>1, <1>1 DEF TypeOK
<1>8. CASE \/ RecvLock(t) \/ RecvWake(t) \/ SendLock(t) \/ SendCheck(t) \/ SendWake(t)
           \/ AddSpin(t) \/ AddMutex(t) \/ CloseRemove(t) \/ CloseNotify(t)
           \/ RecvRead(t) \/ PollSignal(t) \/ PollMark(t) \/ PollClear(t)
           \/ (RecvCheck(t) /\ ~Goto(t, "recv_wait"))
  <2>1. \/ Return(t)
        \/ \E label \in {"recv_read", "recv_check", "send_check", "send_write", "add_mutex",
                         "close_notify", "poll_mark", "poll_clear"} : Goto(t, label)
        \/ fate' \in {"aborted", "use_after_free"}
      BY <1>8, Zenon DEF RecvLock, RecvWake, SendLock, SendCheck, SendWake, AddSpin, AddMutex,
         CloseRemove, CloseNotify, UseAfterFree, RecvRead, RecvSome, PollSignal, PollMark, PollClear,
         RecvCheck
  <2>2. {"recv_read", "recv_check", "send_check", "send_write", "add_mutex",
         "close_notify", "poll_mark", "poll_clear"} \subseteq Labels \ {"recv_wait", "send_wait"}
      BY DEF Labels
  <2>3. Return(t) \/ \E label \in Labels \ {"recv_wait", "send_wait"} : Goto(t, label)
      BY <2>1, <2>2, Zenon DEF Running
  <2>4. QED BY <2>3, <1>1, <1>4
<1>9. CASE SendWrite(t) /\ Return(t)
    BY <1>9, <1>1, <1>4
<1>10. QED BY <1>2, <1>3, <1>5, <1>6, <1>7, <1>8, <1>9 DEF LockStep, OwnStep

\* A side is closed only by the closer of its last socket, who has then still
\* to tell the other side.
LEMMA LastCloserNotifies ==
    ASSUME CountInv, NEW t \in Thread, BeginCall(t) \/ LockStep(t) \/ OwnStep(t), Running',
           NEW side \in Side, ref[side] > 0, ~(ref'[side] > 0)
    PROVE  WillNotify(t, side)'
<1> TypeOK BY DEF CountInv
<1> PICK my \in Side : my = MySide(t)
    BY SidesOfSocks DEF MySide, TypeOK
<1>1. CASE CloseCount(t)
  <2>1. /\ ref' = [ref EXCEPT ![my] = @ - 1] /\ left' = [left EXCEPT ![t] = ref[my] - 1]
        /\ pc' = [pc EXCEPT ![t] = "close_remove"] /\ cur' = cur
      BY <1>1, Zenon DEF CloseCount, CountAfterClose
  <2>2. side = my /\ ref[my] - 1 = 0
      BY <2>1 DEF TypeOK
  <2>3. MySide(t)' = my /\ pc'[t] = "close_remove" /\ left'[t] = 0
      BY <2>1, <2>2 DEF MySide, TypeOK
  <2>4. QED BY <2>2, <2>3 DEF WillNotify
<1>2. CASE AddMutex(t)
  <2>1. ref' = ref \/ ref' = [ref EXCEPT ![my] = @ + AddedCount(t)]
      BY <1>2, Zenon DEF AddMutex
  <2>2. AddedCount(t) \in Nat
      BY DEF AddedCount
  <2>3. QED BY <2>1, <2>2 DEF TypeOK
<1>3. CASE DropBacklog(t)
  <2>1. ref' = ref
      BY <1>3, Zenon DEF DropBacklog, Running
  <2>2. QED BY <2>1
<1>4. BeginCall(t) => ref' = ref \/ DropBacklog(t)
    BY Zenon DEF BeginCall, BeginRecv, BeginSend, BeginDup, BeginAccept, BeginClose, PollCreate, shared
<1>5. LockStep(t) => ref' = ref \/ CloseCount(t) \/ AddMutex(t)
    BY Zenon DEF LockStep, RecvLock, RecvCheck, RecvWake, SendLock, SendCheck, SendWake, AddSpin,
       CloseRemove, CloseNotify, UseAfterFree
<1>6. OwnStep(t) => ref' = ref
    BY Zenon DEF OwnStep, RecvRead, SendWrite, PollSignal, PollMark, PollClear, shared
<1>7. QED BY <1>1, <1>2, <1>3, <1>4, <1>5, <1>6

\* Whoever has to tell a receiver that the other side is closed does so before it
\* is done: it does not find the receiver's own side closed.
LEMMA WakerStays ==
    ASSUME CountInv, NEW t \in Thread, BeginCall(t) \/ LockStep(t) \/ OwnStep(t), Running',
           NEW u \in Thread, u # t, ReceiverAsleep(u), u \in waiting'[MySide(u)],
           WillNotify(t, Peer(u))
    PROVE  WillNotify(t, Peer(u))'
<1> TypeOK BY DEF CountInv
<1> PICK my \in Side, peer \in Side : my = MySide(t) /\ peer = Peer(t)
    BY SidesOfSocks DEF MySide, Peer, TypeOK
<1>1. peer = MySide(u) /\ my = Peer(u) /\ OthersKeep(t)
  <2>1. Other(my) = peer /\ Other(peer) = my /\ Other(MySide(u)) = Peer(u) /\ MySide(u) \in Side
      BY SidesOfSocks DEF MySide, Peer, TypeOK
  <2>2. QED BY <2>1, StepKeepsOthers, SidesOfSocks DEF WillNotify
<1>2. Peer(u)' = Peer(u)
    BY <1>1 DEF OthersKeep, Peer
<1>3. ~Dead(peer)
  <2>1. Using(u) /\ MySide(u) = peer
      BY <1>1 DEF ReceiverAsleep, Using
  <2>2. cur[u] \in OpenSocks(peer)
      BY <2>1 DEF CountInv, UsedIsOpen, OpenSocks, MySide, TypeOK
  <2>3. QED BY <2>2 DEF Dead
<1>4. CASE CloseRemove(t)
  <2>1. /\ pc[t] = "close_remove" /\ left[t] = 0
        /\ IF left[t] = 0 /\ ~flag[t] THEN Goto(t, "close_notify") ELSE Return(t)
      BY <1>4, Zenon DEF CloseRemove, UseAfterFree, Running, At, WillNotify
  <2>2. ~flag[t]
      BY <1>3, <2>1 DEF CountInv, CloserKnows, Knows
  <2>3. Goto(t, "close_notify")
      BY <2>1, <2>2
  <2>4. pc'[t] = "close_notify" /\ left'[t] = 0 /\ MySide(t)' = my
      BY <2>1, <2>3 DEF Goto, MySide, TypeOK
  <2>5. QED BY <1>1, <1>2, <2>4 DEF WillNotify
<1>5. CASE CloseNotify(t)
  <2>1. waiting' = [waiting EXCEPT ![peer] = {}]
      BY <1>5, Zenon DEF CloseNotify, UseAfterFree, Running, Broadcast
  <2>2. QED BY <1>1, <2>1 DEF TypeOK
<1>6. pc[t] \in {"close_remove", "close_notify"}
    BY DEF WillNotify
<1>7. BeginCall(t) => pc[t] = "idle"
    BY Zenon DEF BeginCall, BeginRecv, BeginSend, BeginDup, BeginAccept, BeginClose, PollCreate,
       DropBacklog, Begin, Idle, At
<1>8. LockStep(t) => CloseRemove(t) \/ CloseNotify(t) \/ pc[t] \in
          {"recv_lock", "recv_check", "recv_wait", "send_lock", "send_check", "send_wait",
           "add_spin", "add_mutex", "close_count"}
    BY DEF LockStep, RecvLock, RecvCheck, RecvWake, SendLock, SendCheck, SendWake, AddSpin, AddMutex,
       CloseCount, At
<1>9. OwnStep(t) => pc[t] \in {"recv_read", "send_write", "poll_signal", "poll_mark", "poll_clear"}
    BY DEF OwnStep, RecvRead, SendWrite, PollSignal, PollMark, PollClear, At
<1>10. QED BY <1>4, <1>5, <1>6, <1>7, <1>8, <1>9

\* Nobody sleeps through what it waits for: a step of another thread leaves a
\* sleeper what it waits for, or wakes it.
LEMMA SleepersAttended ==
    ASSUME CountInv, TypeOK', NEW t \in Thread, BeginCall(t) \/ LockStep(t) \/ OwnStep(t), Running',
           NEW u \in Thread, u # t, Attended(u)
    PROVE  Attended(u)'
<1> TypeOK BY DEF CountInv
<1>1. OthersKeep(t) /\ MySide(u) \in Side /\ Peer(u) \in Side
    BY StepKeepsOthers, SidesOfSocks DEF MySide, Peer, TypeOK
<1>2. MySide(u)' = MySide(u) /\ Peer(u)' = Peer(u) /\ pc'[u] = pc[u]
    BY <1>1 DEF OthersKeep, MySide, Peer
<1>3. \A side \in Side : u \in waiting'[side] => u \in waiting[side] /\ buf'[side] = buf[side]
    BY ChangesRouse DEF Rouses
<1>4. SenderAsleep(u)' => buf'[Peer(u)] = Capacity
    BY <1>1, <1>2, <1>3 DEF SenderAsleep, Attended
<1>5. ASSUME ReceiverAsleep(u)' PROVE buf'[MySide(u)] = 0 /\ WillBeWoken(Peer(u))'
  <2>1. ReceiverAsleep(u) /\ buf'[MySide(u)] = buf[MySide(u)] /\ u \in waiting'[MySide(u)]
      BY <1>1, <1>2, <1>3, <1>5 DEF ReceiverAsleep
  <2>2. buf'[MySide(u)] = 0 /\ WillBeWoken(Peer(u))
      BY <2>1 DEF Attended
  <2>3. ASSUME NEW w \in Thread, WillNotify(w, Peer(u))' PROVE WillBeWoken(Peer(u))'
      BY <2>3 DEF WillBeWoken
  <2>4. CASE ref[Peer(u)] > 0
    <3>1. CASE ref'[Peer(u)] > 0
        BY <1>2, <2>2, <3>1 DEF WillBeWoken
    <3>2. CASE ~(ref'[Peer(u)] > 0)
      <4>1. PICK peer \in Side : peer = Peer(u)
          BY <1>1
      <4>2. WillNotify(t, peer)'
          BY <2>4, <3>2, <4>1, LastCloserNotifies
      <4>3. Peer(u)' = peer
          BY <1>2, <4>1
      <4>4. QED BY <2>2, <4>2, <4>3 DEF WillBeWoken, WillNotify
    <3>3. QED BY <3>1, <3>2
  <2>5. CASE \E w \in Thread : WillNotify(w, Peer(u))
    <3>1. PICK w \in Thread : WillNotify(w, Peer(u))
        BY <2>5
    <3>2. CASE w = t
        BY <2>1, <2>2, <2>3, <3>1, <3>2, WakerStays
    <3>3. CASE w # t
      <4>1. MySide(w)' = MySide(w) /\ pc'[w] = pc[w] /\ left'[w] = left[w]
          BY <1>1, <3>3 DEF OthersKeep, MySide
      <4>2. WillNotify(w, Peer(u))'
          BY <1>2, <3>1, <4>1 DEF WillNotify
      <4>3. QED BY <2>2, <2>3, <4>2
    <3>4. QED BY <3>2, <3>3
  <2>6. QED BY <2>2, <2>4, <2>5 DEF WillBeWoken
<1>6. QED BY <1>2, <1>4, <1>5 DEF Attended

AllAttended == Running => \A t \in Thread : Attended(t)

\* Every step keeps the sleepers attended to.
LEMMA AttendedNext ==
    ASSUME CountInv, StreamInv, AllAttended, [Next]_vars
    PROVE  AllAttended'
<1> SUFFICES ASSUME Running', NEW u \in Thread PROVE Attended(u)'
    BY DEF AllAttended
<1>1. CASE Next
  <2>1. PICK t \in Thread : BeginCall(t) \/ LockStep(t) \/ OwnStep(t)
      BY <1>1 DEF Next
  <2>2. Running /\ BufferUse(t) /\ TypeOK'
      BY <1>1, <2>1, StepKeepsOthers, TypeStep DEF CountInv, StreamInv
  <2>3. CASE u = t
      BY <2>1, <2>2, <2>3, AsleepForAReason
  <2>4. CASE u # t
      BY <2>1, <2>2, <2>4, SleepersAttended DEF AllAttended
  <2>5. QED BY <2>3, <2>4
<1>2. CASE UNCHANGED vars
    BY <1>2 DEF vars, shared, local, AllAttended, Attended, Running, ReceiverAsleep, SenderAsleep,
                WillBeWoken, WillNotify, MySide, Peer
<1>3. QED BY <1>1, <1>2

\* Nobody sleeps through what it waits for: a receiver that sleeps has an empty
\* buffer, and the other side is open or its last closer has still to wake it; a
\* sender that sleeps has a full one (_sock_recvfrom 907, _sock_sendto 967,
\* _connection_remove 318).
THEOREM WakeupsKept == Spec => []NoLostWakeup
<1>1. Init => CountInv /\ StreamInv /\ AllAttended
  <2>1. Init => \A t \in Thread : ~ReceiverAsleep(t) /\ ~SenderAsleep(t)
      BY DEF Init, ReceiverAsleep, SenderAsleep
  <2>2. QED BY <2>1, CountInit, StreamInit DEF AllAttended, Attended
<1>2. CountInv /\ StreamInv /\ AllAttended /\ [Next]_vars => (CountInv /\ StreamInv /\ AllAttended)'
    BY CountNext, StreamNext, AttendedNext
<1>3. AllAttended => NoLostWakeup
    BY DEF AllAttended, Attended, ReceiverAsleep, SenderAsleep, WillBeWoken, NoLostWakeup
<1>4. QED BY <1>1, <1>2, <1>3, PTL DEF Spec
-----------------------------------------------------------------------------
(* The eventfds, when no socket is polled for the first time while the connection is in use *)

\* A socket's eventfd and its mark say the same; they say it if there is data.
Told(s, side) == efd[s] = notified[s] /\ (buf[side] > 0 => efd[s])
EventInv == /\ \A t \in Thread : pc[t] \notin {"poll_signal", "poll_mark", "poll_clear"}
            /\ \A s \in Sock : hostfd[s] => sk[s] # "unused"
            /\ \A side \in Side : \A s \in socks[side] : SideOf(s) = side /\ (hostfd[s] => Told(s, side))

\* _update_events brings the eventfds of one buffer in line and leaves the others alone.
LEMMA UpdateTells ==
    ASSUME TypeOK, EventInv, NEW side \in Side, NEW needs \in BOOLEAN, UpdateEvents(side, needs)
    PROVE  /\ \A s \in socks[side] : hostfd[s] => efd'[s] = needs /\ notified'[s] = needs
           /\ \A s \in Sock \ socks[side] : efd'[s] = efd[s] /\ notified'[s] = notified[s]
<1>1. /\ \A s \in socks[side] : s \in Sock /\ (hostfd[s] => efd[s] = notified[s])
      /\ efd \in [Sock -> BOOLEAN] /\ notified \in [Sock -> BOOLEAN]
    BY DEF TypeOK, EventInv, Told
<1>2. CASE needs = TRUE
    BY <1>1, <1>2 DEF UpdateEvents, Pollable
<1>3. CASE needs = FALSE
    BY <1>1, <1>3 DEF UpdateEvents, Pollable
<1>4. QED BY <1>2, <1>3

\* A step that changes a buffer, or closes the side that fills it, brings its eventfds in line.
LEMMA UpdateKeepsTold ==
    ASSUME TypeOK, EventInv, NEW side \in Side, NEW needs \in BOOLEAN, UpdateEvents(side, needs),
           hostfd' = hostfd, socks' = socks, buf'[side] > 0 => needs,
           \A other \in Side : other # side => buf'[other] = buf[other]
    PROVE  \A other \in Side : \A s \in socks'[other] :
              SideOf(s) = other /\ (hostfd'[s] => Told(s, other)')
<1> SUFFICES ASSUME NEW other \in Side, NEW s \in socks[other]
             PROVE  SideOf(s) = other /\ (hostfd[s] => Told(s, other)')
    OBVIOUS
<1>1. SideOf(s) = other /\ s \in Sock /\ (hostfd[s] => Told(s, other))
    BY DEF EventInv, TypeOK
<1>2. CASE other = side
  <2>1. hostfd[s] => efd'[s] = needs /\ notified'[s] = needs
      BY <1>2, UpdateTells
  <2>2. QED BY <1>1, <1>2, <2>1 DEF Told
<1>3. CASE other # side
  <2>1. s \notin socks[side]
      BY <1>1, <1>3 DEF EventInv
  <2>2. efd'[s] = efd[s] /\ notified'[s] = notified[s]
      BY <1>1, <2>1, UpdateTells
  <2>3. buf'[other] = buf[other]
      BY <1>3
  <2>4. QED BY <1>1, <2>2, <2>3 DEF Told
<1>4. QED BY <1>2, <1>3

\* Every step of a connection whose sockets are not polled for the first time.
LEMMA EventNext ==
    ASSUME "poll" \notin Calls, TypeOK, EventInv, [Next]_vars
    PROVE  EventInv'
<1> DEFINE Polls == {"poll_signal", "poll_mark", "poll_clear"}
<1>1. CASE Next
  <2>1. PICK t \in Thread : BeginCall(t) \/ LockStep(t) \/ OwnStep(t)
      BY <1>1 DEF Next
  <2> PICK my \in Side, peer \in Side : my = MySide(t) /\ peer = Peer(t)
      BY SidesOfSocks DEF MySide, Peer, TypeOK
  <2>2. ~PollCreate(t) /\ ~PollSignal(t) /\ ~PollMark(t) /\ ~PollClear(t)
      BY Zenon DEF PollCreate, PollSignal, PollMark, PollClear, EventInv, At
  <2>3. hostfd' = hostfd
      BY <2>1, <2>2, Zenon DEF BeginCall, BeginRecv, BeginSend, BeginDup, BeginAccept, BeginClose,
         DropBacklog, LockStep, RecvLock, RecvCheck, RecvWake, SendLock, SendCheck, SendWake, AddSpin,
         AddMutex, CloseCount, CloseRemove, CloseNotify, UseAfterFree, OwnStep, RecvRead, SendWrite, events
  <2>4. \A u \in Thread : pc'[u] \notin Polls
    <3>1. pc'[t] \notin Polls
      <4>1. PICK label : (label \notin Polls /\ pc' = [pc EXCEPT ![t] = label]) \/ pc' = pc
        <5>1. CASE BeginCall(t)
            BY <2>2, <5>1 DEF BeginCall, BeginRecv, BeginSend, BeginDup, BeginAccept, BeginClose,
               DropBacklog, Begin, local
        <5>2. CASE LockStep(t)
            BY <5>2 DEF LockStep, RecvLock, RecvCheck, RecvWake, SendLock, SendCheck, SendWake, AddSpin,
               AddMutex, CloseCount, CloseRemove, CloseNotify, UseAfterFree, Goto, Return, local
        <5>3. CASE OwnStep(t)
            BY <2>2, <5>3 DEF OwnStep, RecvRead, RecvSome, SendWrite, Goto, Return
        <5>4. QED BY <2>1, <5>1, <5>2, <5>3
      <4>2. pc[t] \notin Polls
          BY DEF EventInv
      <4>3. QED BY <4>1, <4>2 DEF TypeOK
    <3>2. QED BY <2>1, <3>1, StepKeepsOthers DEF OthersKeep, EventInv
  <2>5. \A s \in Sock : sk'[s] = "unused" => sk[s] = "unused"
    <3>1. CASE sk' = sk
        BY <3>1
    <3>2. CASE \E s \in Sock, label \in {"open", "closing", "closed"} : sk' = [sk EXCEPT ![s] = label]
        BY <3>2 DEF TypeOK
    <3>3. CASE CloseCount(t)
      <4>1. sk' = [sk EXCEPT ![cur[t]] = "closed"]
          BY <3>3, Zenon DEF CloseCount
      <4>2. QED BY <4>1 DEF TypeOK
    <3>4. QED BY <2>1, <2>2, <3>1, <3>2, <3>3 DEF BeginCall, BeginRecv, BeginSend, BeginDup, BeginAccept, BeginClose,
         DropBacklog, LockStep, RecvLock, RecvCheck, RecvWake, SendLock, SendCheck, SendWake, AddSpin,
         AddMutex, CloseRemove, CloseNotify, UseAfterFree, OwnStep, RecvRead, SendWrite, shared
  <2>6. \A s \in Sock : hostfd'[s] => sk'[s] # "unused"
      BY <2>3, <2>5 DEF EventInv
  <2>7. \A side \in Side : \A s \in socks'[side] : SideOf(s) = side /\ (hostfd'[s] => Told(s, side)')
    <3>1. CASE RecvRead(t) /\ ~UNCHANGED <<buf, efd, notified>>
      <4>1. UpdateEvents(my, buf'[my] > 0) /\ socks' = socks /\ (\E n : buf' = [buf EXCEPT ![my] = n])
          BY <3>1, Zenon DEF RecvRead, RecvSome
      <4>2. (buf'[my] > 0) \in BOOLEAN /\ \A other \in Side : other # my => buf'[other] = buf[other]
          BY <4>1 DEF TypeOK
      <4>3. PICK needs \in BOOLEAN : needs = (buf'[my] > 0) /\ UpdateEvents(my, needs)
          BY <4>1, <4>2
      <4>4. QED BY <2>3, <4>1, <4>2, <4>3, UpdateKeepsTold
    <3>2. CASE SendWrite(t)
      <4>1. UpdateEvents(peer, buf'[peer] > 0) /\ socks' = socks /\ (\E n : buf' = [buf EXCEPT ![peer] = n])
          BY <3>2, Zenon DEF SendWrite
      <4>2. (buf'[peer] > 0) \in BOOLEAN /\ \A other \in Side : other # peer => buf'[other] = buf[other]
          BY <4>1 DEF TypeOK
      <4>3. PICK needs \in BOOLEAN : needs = (buf'[peer] > 0) /\ UpdateEvents(peer, needs)
          BY <4>1, <4>2
      <4>4. QED BY <2>3, <4>1, <4>2, <4>3, UpdateKeepsTold
    <3>3. CASE CloseNotify(t) /\ ~UseAfterFree
      <4>1. UpdateEvents(peer, TRUE) /\ UNCHANGED <<socks, buf>>
          BY <3>3, Zenon DEF CloseNotify
      <4>2. QED BY <2>3, <4>1, UpdateKeepsTold
    <3>4. CASE UNCHANGED <<buf, efd, notified>> /\ \A side \in Side : \A s \in socks'[side] :
                  s \in socks[side] \/ (SideOf(s) = side /\ sk[s] = "unused" /\ s \in Sock)
      <4> SUFFICES ASSUME NEW side \in Side, NEW s \in socks'[side]
                   PROVE  SideOf(s) = side /\ (hostfd'[s] => Told(s, side)')
          OBVIOUS
      <4>1. Told(s, side)' <=> Told(s, side)
          BY <3>4 DEF Told
      <4>2. QED BY <2>3, <3>4, <4>1 DEF EventInv
    <3>5. CASE AddMutex(t) \/ CloseRemove(t)
      <4>1. UNCHANGED <<buf, efd, notified>>
          BY <3>5, Zenon DEF AddMutex, CloseRemove, UseAfterFree, events
      <4>2. \/ socks' = socks
            \/ \E new \in Sock : /\ sk[new] = "unused" /\ SideOf(new) = my
                                 /\ socks' = [socks EXCEPT ![my] = @ \cup {new}]
            \/ \E old : socks' = [socks EXCEPT ![my] = @ \ {old}]
          BY <3>5, Zenon DEF AddMutex, CloseRemove, UseAfterFree
      <4>3. \A side \in Side : \A s \in socks'[side] :
                  s \in socks[side] \/ (SideOf(s) = side /\ sk[s] = "unused" /\ s \in Sock)
          BY <4>2 DEF TypeOK
      <4>4. QED BY <3>4, <4>1, <4>3
    <3>6. UNCHANGED <<buf, efd, notified, socks>> \/ RecvRead(t) \/ SendWrite(t)
            \/ (CloseNotify(t) /\ ~UseAfterFree) \/ AddMutex(t) \/ CloseRemove(t)
        BY <2>1, <2>2, Zenon DEF BeginCall, BeginRecv, BeginSend, BeginDup, BeginAccept, BeginClose,
         DropBacklog, LockStep, RecvLock, RecvCheck, RecvWake, SendLock, SendCheck, SendWake, AddSpin,
         CloseCount, CloseNotify, UseAfterFree, OwnStep, events, shared
    <3>7. CASE RecvRead(t) /\ UNCHANGED <<buf, efd, notified>>
      <4>1. socks' = socks
          BY <3>7, Zenon DEF RecvRead
      <4>2. QED BY <3>4, <3>7, <4>1
    <3>8. QED BY <3>1, <3>2, <3>3, <3>4, <3>5, <3>6, <3>7
  <2>8. QED BY <2>4, <2>6, <2>7 DEF EventInv
<1>2. CASE UNCHANGED vars
    BY <1>2 DEF vars, shared, events, local, EventInv, Told
<1>3. QED BY <1>1, <1>2

\* As long as no socket is polled for the first time while the connection is in
\* use, an eventfd is readable whenever its buffer has data, and event_notified
\* tells whether it is readable: a poller that waits does not miss data, and
\* _update_events never blocks in reading an eventfd (internalsock.c 160-203).
THEOREM EventfdsCoherent ==
    ASSUME "poll" \notin Calls
    PROVE  Spec => []EventsCoherent
<1>1. Init => EventInv
  <2> SUFFICES ASSUME Init PROVE EventInv
      OBVIOUS
  <2>1. PICK polled \in BOOLEAN : hostfd = [s \in Sock |-> s = First /\ polled]
      BY DEF Init
  <2>2. \A s \in Sock : hostfd[s] => s = First
      BY <2>1
  <2>3. \A s \in Sock : efd[s] = FALSE /\ notified[s] = FALSE
      BY DEF Init
  <2>4. First \in Sock /\ SideOf(First) = "client" /\ sk[First] = "open"
      BY SockAssumption DEF Init, Sock, SideOf
  <2>5. \A side \in Side : buf[side] = 0 /\ \A s \in socks[side] : s = First /\ side = "client"
      BY DEF Init
  <2>6. \A t \in Thread : pc[t] = "idle"
      BY DEF Init
  <2>7. \A s \in Sock, side \in Side : Told(s, side)
    <3> TAKE s \in Sock, side \in Side
    <3>1. ~(buf[side] > 0)
        BY <2>5
    <3>2. QED BY <2>3, <3>1, Zenon DEF Told
  <2>8. \A side \in Side : \A s \in socks[side] : s \in Sock /\ SideOf(s) = side
      BY <2>4, <2>5
  <2>9. QED BY <2>2, <2>4, <2>6, <2>7, <2>8 DEF EventInv
<1>2. CountInv /\ EventInv /\ [Next]_vars => (CountInv /\ EventInv)'
    BY CountNext, EventNext DEF CountInv
<1>3. CountInv /\ EventInv => EventsCoherent
    BY SidesOfSocks DEF EventInv, Told, EventsCoherent, CountInv, TypeOK
<1>4. QED BY <1>1, <1>2, <1>3, CountInit, PTL DEF Spec
==============================================================================
