------------------------- MODULE SockListenerProofs -------------------------
(***************************************************************************)
(* SockListener, for any number of threads, listeners, connections, ports  *)
(* and backlogs: ports are unique, connect never uses a freed listener, a  *)
(* freed listener leaves no connection behind, and every established       *)
(* connection waits in exactly one place of one backlog.                   *)
(***************************************************************************)
EXTENDS SockListener, FiniteSetTheorems, TLAPS

\* What a call under way may rely on: it has a listener; a connect that has found
\* one owns _lock, and so close cannot take it off the list; a listener that is
\* being closed never becomes bound again.
InCall(t) == /\ pc[t] # "idle" => sock[t] \in Listener
             /\ pc[t] = "connect_mutex" => con[t] \in Conn /\ lock = t /\ sock[t] \in list
             /\ pc[t] \in {"close_mutex", "close_drain"} => life[sock[t]] \in {"closing", "closed"}

\* close takes a listener off the list first, and nothing enters its backlog from
\* then on; nothing enters a backlog that has no buffer.
ListedAreBound == \A l \in list : life[l] = "bound"
EmptyQueues == \A l \in Listener : room[l] = 0 \/ life[l] = "closed" => queue[l] = <<>>

ListenerInv == /\ TypeOK /\ (\A t \in Thread : InCall(t))
               /\ ListedAreBound /\ PortsUnique /\ EmptyQueues
-----------------------------------------------------------------------------
(* Types *)

Labels == {"idle", "listen_socks", "connect_mutex", "accept_lock", "accept_wait",
           "close_mutex", "close_drain"}
BoundTypes == /\ fate \in {"running", "null_unlock"} /\ lock \in Thread \cup {None}
              /\ list \subseteq Listener
              /\ life \in [Listener -> {"unbound", "failed", "bound", "closing", "closed"}]
              /\ port \in [Listener -> Port \cup {0}] /\ \A l \in list : port[l] # 0
QueueTypes == /\ room \in [Listener -> Nat] /\ queue \in [Listener -> Seq(Conn)]
              /\ mutex \in [Listener -> Thread \cup {None}]
              /\ asleep \in [Listener -> SUBSET Thread]
EventTypes == /\ polled \in [Listener -> BOOLEAN] /\ hostfd \in [Listener -> BOOLEAN]
              /\ efd \in [Listener -> BOOLEAN] /\ notified \in [Listener -> BOOLEAN]
EndTypes == /\ client \in [Conn -> {"none", "calling", "refused", "open", "closed"}]
            /\ server \in [Conn -> {"none", "queued", "accepted", "dropped"}]
CallTypes == /\ pc \in [Thread -> Labels] /\ sock \in [Thread -> Listener \cup {None}]
             /\ con \in [Thread -> Conn \cup {None}] /\ block \in [Thread -> BOOLEAN]

\* The parts of TypeOK.
LEMMA TypeParts == TypeOK <=> BoundTypes /\ QueueTypes /\ EventTypes /\ EndTypes /\ CallTypes
BY DEF TypeOK, BoundTypes, QueueTypes, EventTypes, EndTypes, CallTypes, Labels

\* And of TypeOK in the next state.
LEMMA TypePartsNext ==
    BoundTypes' /\ QueueTypes' /\ EventTypes' /\ EndTypes' /\ CallTypes' => TypeOK'
BY DEF TypeOK, BoundTypes, QueueTypes, EventTypes, EndTypes, CallTypes, Labels

\* A call begins, goes on or returns.
Moves(t) == \/ \E l \in Listener \cup {None}, c \in Conn \cup {None}, b \in BOOLEAN, label \in Labels :
                  Begin(t, l, c, b, label)
            \/ \E label \in Labels : Goto(t, label)
            \/ Return(t) \/ UNCHANGED local

\* Every step of a thread is such a move.
LEMMA StepsMove ==
    ASSUME TypeOK, NEW t \in Thread,
           Bind(t) \/ Listen(t) \/ ConnectFind(t) \/ AcceptBegin(t) \/ CloseUnlink(t) \/ Step(t)
    PROVE  Moves(t)
<1> USE DEF Moves, Labels
<1>1. \A p : Found(p) \subseteq Listener
    BY DEF Found, TypeOK
<1>2. CASE Bind(t) BY <1>2 DEF Bind
<1>3. CASE Listen(t) BY <1>3 DEF Listen
<1>4. CASE ConnectFind(t)
  <2>1. (\E c \in Conn, p \in Port : \E l \in Found(p) : Begin(t, l, c, FALSE, "connect_mutex")) \/ UNCHANGED local
      BY <1>4, Zenon DEF ConnectFind
  <2>2. QED BY <1>1, <2>1
<1>5. CASE AcceptBegin(t) BY <1>5, Zenon DEF AcceptBegin
<1>6. CASE CloseUnlink(t)
  <2>1. (\E l \in Listener : Begin(t, l, None, FALSE, "close_mutex")) \/ UNCHANGED local
      BY <1>6, Zenon DEF CloseUnlink
  <2>2. QED BY <2>1
<1>7. CASE Accept(t) \/ AcceptWake(t)
    BY <1>7, Zenon DEF Accept, AcceptWake, AcceptLocked
<1>8. CASE ListenSocks(t) BY <1>8 DEF ListenSocks
<1>9. CASE ConnectEnqueue(t) BY <1>9, Zenon DEF ConnectEnqueue
<1>10. CASE CloseMutex(t) BY <1>10 DEF CloseMutex
<1>11. CASE CloseDrain(t) BY <1>11 DEF CloseDrain
<1>12. CASE CloseFree(t) BY <1>12 DEF CloseFree
<1>13. QED BY <1>2, <1>3, <1>4, <1>5, <1>6, <1>7, <1>8, <1>9, <1>10, <1>11, <1>12 DEF Step

\* So the types of the calls are kept, and nobody else's call changes.
LEMMA MovesKeep ==
    ASSUME CallTypes, NEW t \in Thread, Moves(t)
    PROVE  /\ CallTypes'
           /\ \A u \in Thread : u # t => pc'[u] = pc[u] /\ sock'[u] = sock[u] /\ con'[u] = con[u]
<1> USE DEF CallTypes
<1>1. CASE \E l \in Listener \cup {None}, c \in Conn \cup {None}, b \in BOOLEAN, label \in Labels :
              Begin(t, l, c, b, label)
  <2>1. PICK l \in Listener \cup {None}, c \in Conn \cup {None}, b \in BOOLEAN, label \in Labels :
              /\ pc' = [pc EXCEPT ![t] = label] /\ sock' = [sock EXCEPT ![t] = l]
              /\ con' = [con EXCEPT ![t] = c] /\ block' = [block EXCEPT ![t] = b]
      BY <1>1, Zenon DEF Begin
  <2>2. QED BY <2>1
<1>2. CASE \E label \in Labels : Goto(t, label)
    BY <1>2 DEF Goto
<1>3. CASE Return(t)
    BY <1>3 DEF Return, Labels
<1>4. CASE UNCHANGED local
    BY <1>4 DEF local
<1>5. QED BY <1>1, <1>2, <1>3, <1>4 DEF Moves
-----------------------------------------------------------------------------
(* Calls *)

\* A step of t that only moves sockets towards closed, and takes a socket off
\* the list or _lock from its owner only when nobody else holds it, leaves the
\* other threads' calls what they rely on.
LEMMA OthersKeep ==
    ASSUME TypeOK, NEW t \in Thread, Moves(t), NEW u \in Thread \ {t}, InCall(u),
           (list \subseteq list' /\ lock' = lock) \/ lock \in {None, t},
           \A l \in Listener : life[l] \in {"closing", "closed"} => life'[l] \in {"closing", "closed"}
    PROVE  InCall(u)'
<1>1. pc'[u] = pc[u] /\ sock'[u] = sock[u] /\ con'[u] = con[u]
    BY MovesKeep, TypeParts
<1>2. lock \in {None, t} => pc[u] # "connect_mutex"
    BY NoneNotAThread DEF InCall
<1>3. QED BY <1>1, <1>2 DEF InCall

\* A thread that is idle has no call to rely on anything.
LEMMA ReturnKeeps ==
    ASSUME TypeOK, NEW t \in Thread, Return(t)
    PROVE  InCall(t)'
BY DEF Return, InCall, TypeOK

\* UpdateEvents changes flags to flags.
LEMMA UpdateKeeps ==
    ASSUME EventTypes, NEW l \in Listener, UpdateEvents(l), UNCHANGED <<polled, hostfd>>
    PROVE  EventTypes'
<1> DEFINE needs == queue'[l] # <<>>
           seen == polled[l] /\ hostfd[l]
           e == IF seen /\ ~needs /\ notified[l] THEN FALSE ELSE efd[l] \/ (seen /\ needs)
           n == IF seen THEN needs ELSE notified[l]
<1>1. efd' = [efd EXCEPT ![l] = e] /\ notified' = [notified EXCEPT ![l] = n]
    BY DEF UpdateEvents, EventTypes
<1>2. e \in BOOLEAN /\ n \in BOOLEAN
    BY DEF EventTypes
<1> HIDE DEF e, n
<1>3. QED BY <1>1, <1>2 DEF EventTypes

\* The oldest connection leaves a queue: the queues keep their types, and
\* no queue that was empty is different.
LEMMA DequeueKeeps ==
    ASSUME QueueTypes, EndTypes, NEW l \in Listener, queue[l] # <<>>,
           NEW end \in {"accepted", "dropped"}, Dequeue(l, end)
    PROVE  /\ queue' \in [Listener -> Seq(Conn)]
           /\ server' \in [Conn -> {"none", "queued", "accepted", "dropped"}]
           /\ \A m \in Listener : queue[m] = <<>> => queue'[m] = <<>>
<1>1. queue[l] \in Seq(Conn) BY DEF QueueTypes
<1>2. Tail(queue[l]) \in Seq(Conn) BY <1>1
<1>3. queue' = [queue EXCEPT ![l] = Tail(queue[l])]
    BY DEF Dequeue, QueueTypes
<1>4. server' = [server EXCEPT ![Head(queue[l])] = end]
    BY DEF Dequeue
<1>5. queue' \in [Listener -> Seq(Conn)] /\ \A m \in Listener \ {l} : queue'[m] = queue[m]
  <2> DEFINE q == Tail(queue[l])
  <2>1. q \in Seq(Conn) /\ queue' = [queue EXCEPT ![l] = q] BY <1>2, <1>3
  <2> HIDE DEF q
  <2>2. QED BY <2>1 DEF QueueTypes
<1>6. server' \in [Conn -> {"none", "queued", "accepted", "dropped"}]
  <2> DEFINE c == Head(queue[l])
  <2>1. server' = [server EXCEPT ![c] = end] BY <1>4
  <2> HIDE DEF c
  <2>2. QED BY <2>1 DEF EndTypes
<1>7. QED BY <1>5, <1>6
-----------------------------------------------------------------------------
(* Every step keeps the invariant *)

\* bind takes a port that nobody else has.
LEMMA BindKeeps ==
    ASSUME ListenerInv, NEW t \in Thread, Bind(t)
    PROVE  ListenerInv'
<1> USE DEF ListenerInv
<1>1. PICK l \in Listener : /\ life[l] \in {"unbound", "failed"}
                            /\ \/ \E q \in Port : /\ Found(q) = {}
                                                  /\ port' = [port EXCEPT ![l] = q]
                                                  /\ life' = [life EXCEPT ![l] = "bound"]
                                                  /\ list' = list \cup {l}
                               \/ /\ life' = [life EXCEPT ![l] = "failed"]
                                  /\ UNCHANGED <<port, list>>
    BY DEF Bind, Unused
<1>2. UNCHANGED <<fate, lock, mutex, queues, events, ends, local>>
    BY DEF Bind
<1>3. l \notin list
    BY <1>1 DEF ListedAreBound
<1>4. BoundTypes'
    BY <1>1, <1>2, TypeParts, PortsAreNonzero DEF BoundTypes
<1>5. TypeOK'
    BY <1>2, <1>4, TypeParts, TypePartsNext DEF QueueTypes, EventTypes, EndTypes, CallTypes, queues, events, ends, local
<1>6. \A u \in Thread : InCall(u)'
    BY <1>1, <1>2, TypeParts DEF InCall, BoundTypes, CallTypes, local
<1>7. ListedAreBound'
    BY <1>1, TypeParts DEF ListedAreBound, BoundTypes
<1>8. PortsUnique'
    BY <1>1, <1>3, TypeParts DEF PortsUnique, Found, BoundTypes
<1>9. EmptyQueues'
    BY <1>1, <1>2, TypeParts DEF EmptyQueues, BoundTypes, queues
<1>10. QED BY <1>5, <1>6, <1>7, <1>8, <1>9

\* listen gives an empty backlog its buffer.
LEMMA ListenKeeps ==
    ASSUME ListenerInv, NEW t \in Thread, Listen(t) \/ ListenSocks(t)
    PROVE  ListenerInv'
<1> USE DEF ListenerInv
<1>1. Moves(t)
    BY StepsMove DEF Step
<1>2. UNCHANGED <<fate, lock, mutex, bounds, queue, asleep, events, ends>>
    BY DEF Listen, ListenSocks
<1>5. /\ QueueTypes' /\ EventTypes' /\ \A m \in Listener : room'[m] = 0 => room[m] = 0
      /\ InCall(t)'
  <2>1. CASE Listen(t)
    <3>1. PICK l \in Listener, n \in Backlogs :
                 room' = [room EXCEPT ![l] = Capacity(n)] /\ Begin(t, l, None, FALSE, "listen_socks")
        BY <2>1 DEF Listen
    <3>2. Capacity(n) \in Nat \ {0}
        BY BacklogsAreInts DEF Capacity
    <3>3. /\ QueueTypes' /\ EventTypes' /\ \A m \in Listener : room'[m] = 0 => room[m] = 0
        BY <1>2, <2>1, <3>1, <3>2, TypeParts DEF Listen, QueueTypes, EventTypes, events
    <3>4. InCall(t)'
        BY <3>1, TypeParts DEF Begin, InCall, CallTypes
    <3>5. QED BY <3>3, <3>4
  <2>2. CASE ListenSocks(t)
    <3>1. polled' = [polled EXCEPT ![sock[t]] = TRUE] /\ room' = room /\ Return(t)
        BY <2>2 DEF ListenSocks
    <3>2. /\ QueueTypes' /\ EventTypes' /\ \A m \in Listener : room'[m] = 0 => room[m] = 0
        BY <1>2, <3>1, TypeParts DEF QueueTypes, EventTypes, events
    <3>3. QED BY <3>1, <3>2, ReturnKeeps
  <2>3. QED BY <2>1, <2>2
<1>6. TypeOK'
    BY <1>1, <1>2, <1>5, MovesKeep, TypeParts, TypePartsNext DEF BoundTypes, EndTypes, bounds, ends
<1>7. \A u \in Thread : InCall(u)'
  <2>1. /\ list \subseteq list' /\ lock' = lock /\ life' = life BY <1>2 DEF bounds
  <2>2. \A u \in Thread \ {t} : InCall(u)' BY <1>1, <2>1, OthersKeep
  <2>3. QED BY <1>5, <2>2
<1>8. ListedAreBound' /\ PortsUnique'
    BY <1>2 DEF ListedAreBound, PortsUnique, bounds
<1>9. EmptyQueues'
    BY <1>2, <1>5 DEF EmptyQueues, bounds
<1>10. QED BY <1>6, <1>7, <1>8, <1>9

\* connect keeps _lock when it has found a listener.
LEMMA FindKeeps ==
    ASSUME ListenerInv, NEW t \in Thread, ConnectFind(t)
    PROVE  ListenerInv'
<1> USE DEF ListenerInv
<1>1. Moves(t)
    BY StepsMove
<1>2. lock = None /\ UNCHANGED <<fate, mutex, bounds, queues, events, server>>
    BY DEF ConnectFind
<1>3. PICK c \in Conn, p \in Port :
         \/ /\ At(t, "idle") /\ client' = [client EXCEPT ![c] = "refused"]
            /\ UNCHANGED <<local, lock>>
         \/ /\ client' = [client EXCEPT ![c] = "calling"]
            /\ lock' = t
            /\ \E l \in Found(p) : Begin(t, l, c, FALSE, "connect_mutex")
    BY Zenon DEF ConnectFind
<1>4. EndTypes' /\ BoundTypes'
    BY <1>2, <1>3, TypeParts DEF EndTypes, BoundTypes, bounds
<1>5. TypeOK'
    BY <1>1, <1>2, <1>4, MovesKeep, TypeParts, TypePartsNext DEF QueueTypes, EventTypes, queues, events
<1>6. InCall(t)'
  <2>1. CASE At(t, "idle") /\ UNCHANGED <<local, lock>>
      BY <2>1 DEF InCall, At, local
  <2>2. CASE lock' = t /\ \E l \in Found(p) : Begin(t, l, c, FALSE, "connect_mutex")
    <3>1. PICK l \in list : Begin(t, l, c, FALSE, "connect_mutex") BY <2>2 DEF Found
    <3>2. l \in Listener /\ list' = list BY <1>2, TypeParts DEF BoundTypes, bounds
    <3>3. QED BY <2>2, <3>1, <3>2, TypeParts DEF InCall, Begin, CallTypes
  <2>3. QED BY <1>3, <2>1, <2>2
<1>7. \A u \in Thread : InCall(u)'
  <2>1. lock = None /\ life' = life BY <1>2 DEF bounds
  <2>2. \A u \in Thread \ {t} : InCall(u)' BY <1>1, <2>1, OthersKeep
  <2>3. QED BY <1>6, <2>2
<1>8. ListedAreBound' /\ PortsUnique' /\ EmptyQueues'
    BY <1>2 DEF ListedAreBound, PortsUnique, EmptyQueues, bounds, queues
<1>9. QED BY <1>5, <1>7, <1>8

\* connect puts its connection into the backlog of a listener that is on the list.
LEMMA EnqueueKeeps ==
    ASSUME ListenerInv, NEW t \in Thread, ConnectEnqueue(t)
    PROVE  ListenerInv'
<1> USE DEF ListenerInv
<1> DEFINE l == sock[t]
           c == con[t]
<1>1. Moves(t) /\ Return(t) /\ lock' = None
    BY StepsMove DEF Step, ConnectEnqueue
<1>2. UNCHANGED <<fate, mutex, bounds, room, polled, hostfd>>
    BY DEF ConnectEnqueue
<1>3. l \in list /\ l \in Listener /\ c \in Conn /\ lock = t
    BY DEF ConnectEnqueue, At, InCall
<1>4. \/ /\ client' = [client EXCEPT ![c] = "refused"]
         /\ UNCHANGED <<queue, asleep, server, efd, notified>>
      \/ /\ Len(queue[l]) < room[l]
         /\ queue' = [queue EXCEPT ![l] = Append(@, c)]
         /\ client' = [client EXCEPT ![c] = "open"]
         /\ server' = [server EXCEPT ![c] = "queued"]
         /\ Signal(l) /\ UpdateEvents(l)
    BY Zenon DEF ConnectEnqueue
<1>5. life[l] = "bound"
    BY <1>3 DEF ListedAreBound
<1> HIDE DEF l, c
<1>6. QueueTypes' /\ EventTypes' /\ EmptyQueues'
  <2>1. CASE UNCHANGED <<queue, asleep, server, efd, notified>>
      BY <1>2, <2>1, TypeParts DEF QueueTypes, EventTypes, EmptyQueues, bounds
  <2>2. CASE /\ Len(queue[l]) < room[l]
             /\ queue' = [queue EXCEPT ![l] = Append(@, c)]
             /\ Signal(l) /\ UpdateEvents(l)
    <3>1. EventTypes' BY <1>2, <1>3, <2>2, UpdateKeeps, TypeParts
    <3>2. asleep' \in [Listener -> SUBSET Thread]
        BY <1>3, <2>2, TypeParts DEF Signal, QueueTypes
    <3>3. queue[l] \in Seq(Conn) BY <1>3, TypeParts DEF QueueTypes
    <3>4. room[l] # 0 BY <1>3, <2>2, <3>3, TypeParts DEF QueueTypes
    <3>5. Append(queue[l], c) \in Seq(Conn) BY <1>3, <3>3
    <3>6. queue' \in [Listener -> Seq(Conn)] /\ \A m \in Listener \ {l} : queue'[m] = queue[m]
      <4> DEFINE q == Append(queue[l], c)
      <4>1. q \in Seq(Conn) /\ queue' = [queue EXCEPT ![l] = q] BY <2>2, <3>5
      <4> HIDE DEF q
      <4>2. QED BY <4>1, TypeParts DEF QueueTypes
    <3>7. EmptyQueues'
        BY <1>2, <1>5, <3>4, <3>6 DEF EmptyQueues, bounds
    <3>8. QED BY <1>2, <3>1, <3>2, <3>6, <3>7, TypeParts DEF QueueTypes
  <2>3. QED BY <1>4, <2>1, <2>2
<1>7. EndTypes' /\ BoundTypes'
    BY <1>1, <1>2, <1>4, TypeParts DEF EndTypes, BoundTypes, bounds
<1>8. TypeOK'
    BY <1>1, <1>6, <1>7, MovesKeep, TypeParts, TypePartsNext
<1>9. \A u \in Thread : InCall(u)'
  <2>1. lock = t /\ life' = life BY <1>2, <1>3 DEF bounds
  <2>2. \A u \in Thread \ {t} : InCall(u)' BY <1>1, <2>1, OthersKeep
  <2>3. QED BY <1>1, <2>2, ReturnKeeps
<1>10. ListedAreBound' /\ PortsUnique'
    BY <1>2 DEF ListedAreBound, PortsUnique, bounds
<1>11. QED BY <1>6, <1>8, <1>9, <1>10

\* accept begins.
LEMMA AcceptBeginKeeps ==
    ASSUME ListenerInv, NEW t \in Thread, AcceptBegin(t)
    PROVE  ListenerInv'
<1> USE DEF ListenerInv
<1>1. Moves(t)
    BY StepsMove
<1>2. UNCHANGED <<fate, lock, mutex, bounds, queues, events, ends>>
    BY DEF AcceptBegin
<1>3. TypeOK'
    BY <1>1, <1>2, MovesKeep, TypeParts, TypePartsNext
    DEF BoundTypes, QueueTypes, EventTypes, EndTypes, bounds, queues, events, ends
<1>4. InCall(t)'
    BY TypeParts DEF AcceptBegin, Begin, InCall, CallTypes
<1>5. \A u \in Thread : InCall(u)'
  <2>1. list \subseteq list' /\ lock' = lock /\ life' = life BY <1>2 DEF bounds
  <2>2. \A u \in Thread \ {t} : InCall(u)' BY <1>1, <2>1, OthersKeep
  <2>3. QED BY <1>4, <2>2
<1>6. ListedAreBound' /\ PortsUnique' /\ EmptyQueues'
    BY <1>2 DEF ListedAreBound, PortsUnique, EmptyQueues, bounds, queues
<1>7. QED BY <1>3, <1>5, <1>6

\* accept, with the mutex, takes a connection, sleeps or gives up.
LEMMA AcceptKeeps ==
    ASSUME ListenerInv, NEW t \in Thread,
           NEW label \in {"accept_lock", "accept_wait"}, AcceptLocked(t, label), Moves(t)
    PROVE  ListenerInv'
<1> USE DEF ListenerInv
<1> DEFINE l == sock[t]
<1>1. UNCHANGED <<fate, lock, mutex, bounds, room, polled, hostfd, client>>
    BY DEF AcceptLocked
<1>2. l \in Listener
    BY DEF AcceptLocked, At, InCall
<1>3. \/ /\ queue[l] # <<>> /\ Dequeue(l, "accepted") /\ UpdateEvents(l) /\ Return(t)
         /\ UNCHANGED asleep
      \/ /\ asleep' = [asleep EXCEPT ![l] = @ \cup {t}]
         /\ Goto(t, "accept_wait") /\ UNCHANGED <<queue, server, efd, notified>>
      \/ Return(t) /\ UNCHANGED <<queue, server, efd, notified, asleep>>
    BY Zenon DEF AcceptLocked
<1>4. InCall(t)'
  <2>1. CASE Return(t)
      BY <2>1, ReturnKeeps
  <2>2. CASE Goto(t, "accept_wait")
      BY <1>2, <2>2, TypeParts DEF Goto, InCall, CallTypes
  <2>3. QED BY <1>3, <2>1, <2>2
<1> HIDE DEF l
<1>5. /\ queue' \in [Listener -> Seq(Conn)] /\ EndTypes' /\ EventTypes'
      /\ \A m \in Listener : queue[m] = <<>> => queue'[m] = <<>>
  <2>1. CASE queue[l] # <<>> /\ Dequeue(l, "accepted") /\ UpdateEvents(l)
    <3>1. EventTypes' BY <1>1, <1>2, <2>1, UpdateKeeps, TypeParts
    <3>2. /\ queue' \in [Listener -> Seq(Conn)]
          /\ server' \in [Conn -> {"none", "queued", "accepted", "dropped"}]
          /\ \A m \in Listener : queue[m] = <<>> => queue'[m] = <<>>
        BY <1>2, <2>1, DequeueKeeps, TypeParts
    <3>3. QED BY <1>1, <3>1, <3>2, TypeParts DEF EndTypes
  <2>2. CASE UNCHANGED <<queue, server, efd, notified>>
      BY <1>1, <2>2, TypeParts DEF QueueTypes, EndTypes, EventTypes
  <2>3. QED BY <1>3, <2>1, <2>2
<1>6. asleep' \in [Listener -> SUBSET Thread]
    BY <1>2, <1>3, TypeParts DEF QueueTypes
<1>7. TypeOK'
    BY <1>1, <1>5, <1>6, MovesKeep, TypeParts, TypePartsNext DEF BoundTypes, QueueTypes, bounds
<1>8. \A u \in Thread : InCall(u)'
  <2>1. list \subseteq list' /\ lock' = lock /\ life' = life BY <1>1 DEF bounds
  <2>2. \A u \in Thread \ {t} : InCall(u)' BY <2>1, OthersKeep
  <2>3. QED BY <1>4, <2>2
<1>9. ListedAreBound' /\ PortsUnique' /\ EmptyQueues'
    BY <1>1, <1>5 DEF ListedAreBound, PortsUnique, EmptyQueues, bounds
<1>10. QED BY <1>7, <1>8, <1>9

\* close takes a listener off the list while no connect is under way.
LEMMA UnlinkKeeps ==
    ASSUME ListenerInv, NEW t \in Thread, CloseUnlink(t)
    PROVE  ListenerInv'
<1> USE DEF ListenerInv
<1>1. Moves(t)
    BY StepsMove
<1>2. lock = None /\ UNCHANGED <<fate, lock, mutex, port, queues, events, ends>>
    BY DEF CloseUnlink
<1>3. PICK l \in Listener :
         /\ life[l] = "bound" /\ list' = list \ {l}
         /\ \/ /\ room[l] = 0 /\ At(t, "idle")
               /\ life' = [life EXCEPT ![l] = "closed"] /\ UNCHANGED local
            \/ /\ room[l] > 0
               /\ life' = [life EXCEPT ![l] = "closing"] /\ Begin(t, l, None, FALSE, "close_mutex")
    BY Zenon DEF CloseUnlink
<1>4. TypeOK'
    BY <1>1, <1>2, <1>3, MovesKeep, TypeParts, TypePartsNext
    DEF BoundTypes, QueueTypes, EventTypes, EndTypes, queues, events, ends
<1>5. InCall(t)'
    BY <1>3, TypeParts DEF InCall, Begin, At, local, CallTypes, BoundTypes
<1>6. \A u \in Thread : InCall(u)'
  <2>1. \A m \in Listener : life[m] \in {"closing", "closed"} => life'[m] \in {"closing", "closed"}
      BY <1>3, TypeParts DEF BoundTypes
  <2>2. \A u \in Thread \ {t} : InCall(u)' BY <1>1, <1>2, <2>1, OthersKeep
  <2>3. QED BY <1>5, <2>2
<1>7. ListedAreBound' /\ PortsUnique'
    BY <1>2, <1>3, TypeParts DEF ListedAreBound, PortsUnique, BoundTypes
<1>8. EmptyQueues'
    BY <1>2, <1>3, TypeParts DEF EmptyQueues, BoundTypes, queues
<1>9. QED BY <1>4, <1>6, <1>7, <1>8

\* close drops what is in the backlog and frees the listener when nothing is left.
LEMMA CloseKeeps ==
    ASSUME ListenerInv, NEW t \in Thread, CloseMutex(t) \/ CloseDrain(t) \/ CloseFree(t)
    PROVE  ListenerInv'
<1> USE DEF ListenerInv
<1> DEFINE l == sock[t]
<1>1. Moves(t)
    BY StepsMove DEF Step
<1>2. l \in Listener /\ life[l] \in {"closing", "closed"}
    BY DEF CloseMutex, CloseDrain, CloseFree, At, InCall
<1>3. UNCHANGED <<lock, list, port, room, asleep, polled, events, client>>
    BY DEF CloseMutex, CloseDrain, CloseFree, bounds, queues, ends
<1>4. \/ CloseMutex(t) /\ mutex' = [mutex EXCEPT ![l] = t] /\ Goto(t, "close_drain")
         /\ UNCHANGED <<fate, life, queue, server>>
      \/ /\ queue[l] # <<>> /\ Dequeue(l, "dropped")
         /\ fate' \in {fate, "null_unlock"} /\ UNCHANGED <<life, mutex, local>>
      \/ /\ queue[l] = <<>> /\ life' = [life EXCEPT ![l] = "closed"]
         /\ mutex' = [mutex EXCEPT ![l] = None] /\ Return(t)
         /\ UNCHANGED <<fate, queue, server>>
    BY DEF CloseMutex, CloseDrain, CloseFree, bounds, queues, ends
<1>5. InCall(t)'
  <2>1. CASE Goto(t, "close_drain") /\ UNCHANGED life
      BY <1>2, <2>1, TypeParts DEF Goto, InCall, CallTypes
  <2>2. CASE UNCHANGED <<life, local>>
      BY <1>3, <2>2 DEF InCall, local
  <2>3. CASE Return(t)
      BY <2>3, ReturnKeeps
  <2>4. QED BY <1>4, <2>1, <2>2, <2>3
<1> HIDE DEF l
<1>6. /\ queue' \in [Listener -> Seq(Conn)] /\ EndTypes'
      /\ \A m \in Listener : queue[m] = <<>> => queue'[m] = <<>>
  <2>1. CASE queue[l] # <<>> /\ Dequeue(l, "dropped")
    <3>1. /\ queue' \in [Listener -> Seq(Conn)]
          /\ server' \in [Conn -> {"none", "queued", "accepted", "dropped"}]
          /\ \A m \in Listener : queue[m] = <<>> => queue'[m] = <<>>
        BY <1>2, <2>1, DequeueKeeps, TypeParts
    <3>2. QED BY <1>3, <3>1, TypeParts DEF EndTypes
  <2>2. CASE UNCHANGED <<queue, server>>
      BY <1>3, <2>2, TypeParts DEF QueueTypes, EndTypes
  <2>3. QED BY <1>4, <2>1, <2>2
<1>7. mutex' \in [Listener -> Thread \cup {None}]
    BY <1>2, <1>4, TypeParts DEF QueueTypes
<1>8. /\ BoundTypes'
      /\ \A m \in Listener : life[m] \in {"closing", "closed"} => life'[m] \in {"closing", "closed"}
      /\ \A m \in Listener : life[m] = "bound" => life'[m] = "bound"
      /\ \A m \in Listener : life'[m] = "closed" => life[m] = "closed" \/ queue'[m] = <<>>
    BY <1>2, <1>3, <1>4, TypeParts DEF BoundTypes
<1>9. TypeOK'
    BY <1>1, <1>3, <1>6, <1>7, <1>8, MovesKeep, TypeParts, TypePartsNext DEF QueueTypes, EventTypes, events
<1>10. \A u \in Thread : InCall(u)'
  <2>1. list \subseteq list' /\ lock' = lock BY <1>3
  <2>2. \A u \in Thread \ {t} : InCall(u)' BY <1>1, <1>8, <2>1, OthersKeep
  <2>3. QED BY <1>5, <2>2
<1>11. ListedAreBound' /\ PortsUnique'
    BY <1>3, <1>8, TypeParts DEF ListedAreBound, PortsUnique, BoundTypes
<1>12. EmptyQueues'
    BY <1>3, <1>6, <1>8 DEF EmptyQueues
<1>13. QED BY <1>9, <1>10, <1>11, <1>12

\* A client's close, the creation of an eventfd and a stutter.
LEMMA OutsideKeeps ==
    ASSUME ListenerInv,
           \/ \E c \in Conn : ClientClose(c)
           \/ \E l \in Listener : PollCreate(l)
           \/ UNCHANGED vars
    PROVE  ListenerInv'
<1> USE DEF ListenerInv
<1>1. UNCHANGED <<fate, lock, mutex, bounds, queues, local>>
    BY DEF ClientClose, PollCreate, vars
<1>2. EventTypes' /\ EndTypes'
    BY TypeParts DEF ClientClose, PollCreate, vars, EventTypes, EndTypes, events, ends, queues
<1>3. TypeOK'
    BY <1>1, <1>2, TypeParts, TypePartsNext DEF BoundTypes, QueueTypes, CallTypes, bounds, queues, local
<1>4. \A u \in Thread : InCall(u)'
    BY <1>1 DEF InCall, bounds, local
<1>5. ListedAreBound' /\ PortsUnique' /\ EmptyQueues'
    BY <1>1 DEF ListedAreBound, PortsUnique, EmptyQueues, bounds, queues
<1>6. QED BY <1>3, <1>4, <1>5
-----------------------------------------------------------------------------
(* The theorems *)

\* The invariant holds at first.
LEMMA InitHolds == Init => ListenerInv
<1>1. Init => TypeOK
    BY DEF Init, TypeOK
<1>2. QED BY <1>1 DEF Init, ListenerInv, InCall, ListedAreBound, PortsUnique, EmptyQueues

\* Every step keeps the invariant.
LEMMA NextKeeps == ListenerInv /\ [Next]_vars => ListenerInv'
<1>1. SUFFICES ASSUME ListenerInv, [Next]_vars PROVE ListenerInv'
    OBVIOUS
<1>2. ASSUME NEW t \in Thread, Accept(t) \/ AcceptWake(t) PROVE ListenerInv'
  <2>1. Moves(t) BY <1>1, <1>2, StepsMove DEF Step, ListenerInv
  <2>2. AcceptLocked(t, "accept_lock") \/ AcceptLocked(t, "accept_wait")
      BY <1>2 DEF Accept, AcceptWake
  <2>3. QED BY <1>1, <2>1, <2>2, AcceptKeeps
<1>3. ASSUME NEW t \in Thread,
             Bind(t) \/ Listen(t) \/ ConnectFind(t) \/ AcceptBegin(t) \/ CloseUnlink(t) \/ Step(t)
      PROVE  ListenerInv'
    BY <1>1, <1>2, <1>3, BindKeeps, ListenKeeps, FindKeeps, EnqueueKeeps, AcceptBeginKeeps,
       UnlinkKeeps, CloseKeeps DEF Step
<1>4. QED BY <1>1, <1>3, OutsideKeeps DEF Next

\* The invariant holds in every reachable state.
THEOREM Invariant == Spec => []ListenerInv
BY InitHolds, NextKeeps, PTL DEF Spec

\* Type correctness.
THEOREM ListenerTypes == Spec => []TypeOK
<1>1. ListenerInv => TypeOK
    BY DEF ListenerInv
<1>2. QED BY <1>1, Invariant, PTL

\* _bound_sockets never holds two sockets of one port, whatever bind and close do.
THEOREM UniquePorts == Spec => []PortsUnique
<1>1. ListenerInv => PortsUnique
    BY DEF ListenerInv
<1>2. QED BY <1>1, Invariant, PTL

\* The listener that connect has found is not freed until connect has released _lock.
THEOREM ConnectSafe == Spec => []TargetAlive
<1>1. ListenerInv => TargetAlive
    BY DEF ListenerInv, TargetAlive, InCall, ListedAreBound
<1>2. QED BY <1>1, Invariant, PTL

\* _free_boundsock leaves no connection in the backlog of the listener it frees.
THEOREM DrainComplete == Spec => []NothingLeftBehind
<1>1. ListenerInv => NothingLeftBehind
    BY DEF ListenerInv, EmptyQueues, NothingLeftBehind
<1>2. QED BY <1>1, Invariant, PTL
-----------------------------------------------------------------------------
(* Every established connection has one place *)

\* No connection has two places, and those that have one are queued.
Places(l) == 1..Len(queue[l])
NextPlaces(l) == 1..Len(queue'[l])
OnePlace == \A l, m \in Listener : \A i \in Places(l), j \in Places(m) :
               queue[l][i] = queue[m][j] => l = m /\ i = j
PlacedQueued == \A l \in Listener : \A i \in Places(l) : server[queue[l][i]] = "queued"
QueuedPlaced == \A c \in Conn : server[c] = "queued" =>
                   \E l \in Listener : \E i \in Places(l) : queue[l][i] = c
PlacesInv == OnePlace /\ PlacedQueued /\ QueuedPlaced

\* Both ends are established together; a connection that connect is about to
\* enqueue is new.
EndsAgree == \A c \in Conn : server[c] # "none" <=> client[c] \in {"open", "closed"}
CallingIsNew == \A t \in Thread : pc[t] = "connect_mutex" => client[con[t]] = "calling"

EstablishedInv == ListenerInv /\ PlacesInv /\ EndsAgree /\ CallingIsNew

\* The places of the tail of a sequence and of a sequence one longer.
LEMMA TailPlaces ==
    ASSUME NEW q \in Seq(Conn), q # <<>>
    PROVE  /\ Len(q) \in Nat \ {0} /\ Head(q) = q[1] /\ q[1] \in Conn
           /\ Len(Tail(q)) = Len(q) - 1
           /\ \A i \in 1..Len(Tail(q)) : Tail(q)[i] = q[i + 1]
OBVIOUS

\* See TailPlaces.
LEMMA AppendPlaces ==
    ASSUME NEW q \in Seq(Conn), NEW c \in Conn
    PROVE  /\ Len(q) \in Nat /\ Len(Append(q, c)) = Len(q) + 1
           /\ \A i \in 1..Len(q) : Append(q, c)[i] = q[i]
           /\ Append(q, c)[Len(q) + 1] = c
OBVIOUS

\* The oldest connection of a backlog leaves its only place.
LEMMA DequeuePlaces ==
    ASSUME QueueTypes, EndTypes, PlacesInv, NEW l \in Listener, queue[l] # <<>>,
           NEW end \in {"accepted", "dropped"}, Dequeue(l, end)
    PROVE  PlacesInv'
<1> DEFINE c == Head(queue[l])
           q == Tail(queue[l])
<1>1. queue[l] \in Seq(Conn) BY DEF QueueTypes
<1>2. /\ Len(queue[l]) \in Nat \ {0} /\ c = queue[l][1] /\ c \in Conn
      /\ Len(q) = Len(queue[l]) - 1
      /\ \A i \in 1..Len(q) : q[i] = queue[l][i + 1]
    BY <1>1, TailPlaces
<1>3. queue' = [queue EXCEPT ![l] = q] /\ server' = [server EXCEPT ![c] = end]
    BY DEF Dequeue, QueueTypes
<1> HIDE DEF c, q
<1>4. /\ queue'[l] = q /\ \A m \in Listener \ {l} : queue'[m] = queue[m]
      /\ server'[c] = end /\ \A d \in Conn \ {c} : server'[d] = server[d]
    BY <1>2, <1>3 DEF QueueTypes, EndTypes
<1>5. \A m \in Listener : Len(queue[m]) \in Nat /\ \A i \in Places(m) : queue[m][i] \in Conn
    BY DEF QueueTypes, Places, NextPlaces
\* Where what is still queued was.
<1> DEFINE Was(m, i) == IF m = l THEN i + 1 ELSE i
<1>6. ASSUME NEW m \in Listener, NEW i \in NextPlaces(m)
      PROVE  /\ i \in Nat /\ Was(m, i) \in Places(m) /\ queue'[m][i] = queue[m][Was(m, i)]
             /\ m = l => Was(m, i) # 1
    BY <1>2, <1>4, <1>5 DEF Places, NextPlaces
<1>7. ASSUME NEW m \in Listener, NEW i \in NextPlaces(m)
      PROVE  queue'[m][i] # c /\ queue'[m][i] \in Conn
  <2>1. 1 \in Places(l) BY <1>2 DEF Places, NextPlaces
  <2>2. QED BY <1>2, <1>5, <1>6, <1>7, <2>1 DEF PlacesInv, OnePlace
<1>8. OnePlace'
  <2>1. SUFFICES ASSUME NEW k \in Listener, NEW m \in Listener,
                        NEW i \in NextPlaces(k), NEW j \in NextPlaces(m), queue'[k][i] = queue'[m][j]
                 PROVE  k = m /\ i = j
      BY DEF OnePlace, Places, NextPlaces
  <2>2. k = m /\ Was(k, i) = Was(m, j)
      BY <1>6, <2>1 DEF PlacesInv, OnePlace
  <2>3. QED BY <1>6, <2>2
<1>9. PlacedQueued'
  <2>1. SUFFICES ASSUME NEW m \in Listener, NEW i \in NextPlaces(m)
                 PROVE  server'[queue'[m][i]] = "queued"
      BY DEF PlacedQueued, Places, NextPlaces
  <2>2. server[queue'[m][i]] = "queued"
      BY <1>6 DEF PlacesInv, PlacedQueued
  <2>3. QED BY <1>4, <1>7, <2>2
<1>10. QueuedPlaced'
  <2>1. SUFFICES ASSUME NEW d \in Conn, server'[d] = "queued"
                 PROVE  \E m \in Listener : \E i \in NextPlaces(m) : queue'[m][i] = d
      BY DEF QueuedPlaced, Places, NextPlaces
  <2>2. d # c /\ server[d] = "queued"
      BY <1>4, <2>1
  <2>3. PICK m \in Listener : \E i \in Places(m) : queue[m][i] = d
      BY <2>2 DEF PlacesInv, QueuedPlaced
  <2>7. PICK i \in Places(m) : queue[m][i] = d
      BY <2>3
  <2>4. CASE m = l
    <3>1. i \in 2..Len(queue[l]) BY <1>2, <2>2, <2>7, <2>4 DEF Places, NextPlaces
    <3>2. i - 1 \in 1..Len(q) /\ q[i - 1] = d BY <1>2, <2>7, <2>4, <3>1
    <3>3. i - 1 \in NextPlaces(l) /\ queue'[l][i - 1] = d BY <1>4, <3>2 DEF Places, NextPlaces
    <3>4. QED BY <3>3
  <2>5. CASE m # l
      BY <1>4, <2>7, <2>5 DEF Places, NextPlaces
  <2>6. QED BY <2>4, <2>5
<1>11. QED BY <1>8, <1>9, <1>10 DEF PlacesInv

\* A connection that is not queued gets its only place.
LEMMA EnqueuePlaces ==
    ASSUME QueueTypes, EndTypes, PlacesInv, NEW l \in Listener, NEW c \in Conn, server[c] # "queued",
           queue' = [queue EXCEPT ![l] = Append(@, c)], server' = [server EXCEPT ![c] = "queued"]
    PROVE  PlacesInv'
<1> DEFINE q == Append(queue[l], c)
           n == Len(queue[l]) + 1
<1>1. queue[l] \in Seq(Conn) BY DEF QueueTypes
<1>2. n \in Nat \ {0} /\ Len(q) = n /\ q[n] = c /\ \A i \in 1..(n - 1) : q[i] = queue[l][i]
    BY <1>1, AppendPlaces
<1>3. Places(l) = 1..(n - 1)
    BY <1>1 DEF Places, NextPlaces
<1>4. queue' = [queue EXCEPT ![l] = q]
    BY DEF QueueTypes
<1> HIDE DEF q, n
<1>5. /\ queue'[l] = q /\ \A m \in Listener \ {l} : queue'[m] = queue[m]
      /\ server'[c] = "queued" /\ \A d \in Conn \ {c} : server'[d] = server[d]
    BY <1>4 DEF QueueTypes, EndTypes
<1>6. \A m \in Listener : \A i \in Places(m) : queue[m][i] \in Conn /\ queue[m][i] # c
  <2>1. \A m \in Listener : \A i \in Places(m) : queue[m][i] \in Conn BY DEF QueueTypes, Places, NextPlaces
  <2>2. QED BY <2>1 DEF PlacesInv, PlacedQueued
<1>7. ASSUME NEW m \in Listener, NEW i \in NextPlaces(m)
      PROVE  \/ i \in Places(m) /\ queue'[m][i] = queue[m][i]
             \/ m = l /\ i = n /\ queue'[m][i] = c
  <2>1. CASE m = l
    <3>1. i \in 1..n BY <1>2, <1>5, <1>7, <2>1 DEF Places, NextPlaces
    <3>2. i \in 1..(n - 1) \/ i = n BY <1>2, <3>1
    <3>3. QED BY <1>2, <1>3, <1>5, <2>1, <3>2
  <2>2. CASE m # l BY <1>5, <1>7, <2>2 DEF Places, NextPlaces
  <2>3. QED BY <2>1, <2>2
<1>8. ASSUME NEW m \in Listener, NEW i \in Places(m)
      PROVE  i \in NextPlaces(m) /\ queue'[m][i] = queue[m][i]
  <2>1. CASE m = l
    <3>1. i \in 1..(n - 1) /\ i \in 1..n BY <1>2, <1>3, <1>8, <2>1
    <3>2. QED BY <1>2, <1>5, <2>1, <3>1 DEF Places, NextPlaces
  <2>2. CASE m # l BY <1>5, <1>8, <2>2 DEF Places, NextPlaces
  <2>3. QED BY <2>1, <2>2
<1>9. n \in NextPlaces(l) /\ queue'[l][n] = c
    BY <1>2, <1>5 DEF Places, NextPlaces
<1>10. OnePlace'
  <2>1. SUFFICES ASSUME NEW k \in Listener, NEW m \in Listener,
                        NEW i \in NextPlaces(k), NEW j \in NextPlaces(m), queue'[k][i] = queue'[m][j]
                 PROVE  k = m /\ i = j
      BY DEF OnePlace, Places, NextPlaces
  <2>2. \/ i \in Places(k) /\ queue'[k][i] = queue[k][i] /\ queue[k][i] # c
        \/ k = l /\ i = n /\ queue'[k][i] = c
      BY <1>6, <1>7, Zenon
  <2>3. \/ j \in Places(m) /\ queue'[m][j] = queue[m][j] /\ queue[m][j] # c
        \/ m = l /\ j = n /\ queue'[m][j] = c
      BY <1>6, <1>7, Zenon
  <2>4. CASE i \in Places(k) /\ j \in Places(m) /\ queue[k][i] = queue[m][j]
    <3>1. \A x, y \in Listener : \A a \in Places(x), b \in Places(y) :
             queue[x][a] = queue[y][b] => x = y /\ a = b
        BY Zenon DEF PlacesInv, OnePlace
    <3>2. QED BY <2>4, <3>1, Zenon
  <2>5. QED BY <2>1, <2>2, <2>3, <2>4
<1>11. PlacedQueued'
  <2>1. SUFFICES ASSUME NEW m \in Listener, NEW i \in NextPlaces(m)
                 PROVE  server'[queue'[m][i]] = "queued"
      BY DEF PlacedQueued, Places, NextPlaces
  <2>2. \/ i \in Places(m) /\ queue'[m][i] = queue[m][i] /\ queue[m][i] \in Conn \ {c}
        \/ m = l /\ i = n /\ queue'[m][i] = c
    <3>1. i \in Places(m) => queue[m][i] \in Conn \ {c} BY <1>6
    <3>2. QED BY <1>7, <3>1, Zenon
  <2>3. CASE queue'[m][i] = c BY <1>5, <2>3
  <2>4. CASE i \in Places(m) /\ queue'[m][i] = queue[m][i] /\ queue[m][i] \in Conn \ {c}
    <3>1. server[queue[m][i]] = "queued" BY <2>4 DEF PlacesInv, PlacedQueued
    <3>2. server'[queue[m][i]] = server[queue[m][i]] BY <1>5, <2>4
    <3>3. QED BY <2>4, <3>1, <3>2
  <2>5. QED BY <2>2, <2>3, <2>4
<1>12. QueuedPlaced'
  <2>1. SUFFICES ASSUME NEW d \in Conn, server'[d] = "queued"
                 PROVE  \E m \in Listener : \E i \in NextPlaces(m) : queue'[m][i] = d
      BY DEF QueuedPlaced, Places, NextPlaces
  <2>2. CASE d = c BY <1>9, <2>2
  <2>3. CASE d # c
    <3>1. server[d] = "queued" BY <1>5, <2>1, <2>3
    <3>2. PICK m \in Listener : \E i \in Places(m) : queue[m][i] = d
        BY <3>1 DEF PlacesInv, QueuedPlaced
    <3>3. QED BY <1>8, <3>2
  <2>4. QED BY <2>2, <2>3
<1>13. QED BY <1>10, <1>11, <1>12 DEF PlacesInv

\* What a step does to the backlogs and the ends: a connection enters one,
\* leaves one, or only a client's end changes.
Enqueues == \E t \in Thread, l \in Listener :
               /\ pc[t] = "connect_mutex" /\ con[t] \in Conn
               /\ queue' = [queue EXCEPT ![l] = Append(@, con[t])]
               /\ server' = [server EXCEPT ![con[t]] = "queued"]
               /\ client' = [client EXCEPT ![con[t]] = "open"]
Dequeues == \E l \in Listener, end \in {"accepted", "dropped"} :
               queue[l] # <<>> /\ Dequeue(l, end) /\ UNCHANGED client
ClientOnly == /\ UNCHANGED <<queue, server>>
              /\ \/ UNCHANGED client
                 \/ \E c \in Conn : /\ client[c] = "none"
                                    /\ \E e \in {"calling", "refused"} : client' = [client EXCEPT ![c] = e]
                 \/ \E t \in Thread : /\ pc[t] = "connect_mutex" /\ con[t] \in Conn
                                      /\ client' = [client EXCEPT ![con[t]] = "refused"]
                 \/ \E c \in Conn : client[c] = "open" /\ client' = [client EXCEPT ![c] = "closed"]

\* Every step is one of these.
LEMMA StepEffects ==
    ASSUME ListenerInv, [Next]_vars
    PROVE  Enqueues \/ Dequeues \/ ClientOnly
<1> USE DEF ListenerInv
<1>1. CASE UNCHANGED vars
    BY <1>1 DEF vars, ClientOnly, queues, ends
<1>2. ASSUME NEW t \in Thread, Bind(t) \/ Listen(t) \/ ListenSocks(t) \/ AcceptBegin(t)
                                 \/ CloseUnlink(t) \/ CloseMutex(t) \/ CloseFree(t)
      PROVE  ClientOnly
    BY <1>2 DEF Bind, Listen, ListenSocks, AcceptBegin, CloseUnlink, CloseMutex, CloseFree,
                ClientOnly, queues, ends
<1>3. ASSUME NEW t \in Thread, ConnectFind(t) PROVE ClientOnly
  <2>1. UNCHANGED <<queue, server>> BY <1>3 DEF ConnectFind, queues
  <2>2. PICK c \in Conn : /\ client[c] = "none"
                          /\ \E e \in {"calling", "refused"} : client' = [client EXCEPT ![c] = e]
      BY <1>3 DEF ConnectFind
  <2>3. QED BY <2>1, <2>2, Zenon DEF ClientOnly
<1>4. ASSUME NEW t \in Thread, ConnectEnqueue(t) PROVE Enqueues \/ ClientOnly
  <2>1. pc[t] = "connect_mutex" /\ con[t] \in Conn /\ sock[t] \in Listener
      BY <1>4 DEF ConnectEnqueue, At, InCall
  <2>2. \/ client' = [client EXCEPT ![con[t]] = "refused"] /\ UNCHANGED <<queue, server>>
        \/ /\ queue' = [queue EXCEPT ![sock[t]] = Append(@, con[t])]
           /\ server' = [server EXCEPT ![con[t]] = "queued"]
           /\ client' = [client EXCEPT ![con[t]] = "open"]
      BY <1>4, Zenon DEF ConnectEnqueue
  <2>3. QED BY <2>1, <2>2 DEF Enqueues, ClientOnly
<1>5. ASSUME NEW t \in Thread, NEW label \in {"accept_lock", "accept_wait"}, AcceptLocked(t, label)
      PROVE  Dequeues \/ ClientOnly
  <2>1. sock[t] \in Listener /\ UNCHANGED client
      BY <1>5 DEF AcceptLocked, At, InCall
  <2>2. \/ queue[sock[t]] # <<>> /\ Dequeue(sock[t], "accepted")
        \/ UNCHANGED <<queue, server>>
      BY <1>5, Zenon DEF AcceptLocked
  <2>3. QED BY <2>1, <2>2 DEF Dequeues, ClientOnly
<1>6. ASSUME NEW t \in Thread, CloseDrain(t) PROVE Dequeues
  <2>1. sock[t] \in Listener BY <1>6 DEF CloseDrain, At, InCall
  <2>2. queue[sock[t]] # <<>> /\ Dequeue(sock[t], "dropped") /\ UNCHANGED client
      BY <1>6, Zenon DEF CloseDrain
  <2>3. QED BY <2>1, <2>2 DEF Dequeues
<1>7. ASSUME NEW c \in Conn, ClientClose(c) PROVE ClientOnly
    BY <1>7 DEF ClientClose, ClientOnly, queues
<1>8. ASSUME NEW l \in Listener, PollCreate(l) PROVE ClientOnly
    BY <1>8 DEF PollCreate, ClientOnly, queues, ends
<1>9. QED BY <1>1, <1>2, <1>3, <1>4, <1>5, <1>6, <1>7, <1>8 DEF Next, Step, Accept, AcceptWake

\* A step keeps the places and the ends.
LEMMA EndsKept ==
    ASSUME EstablishedInv, [Next]_vars
    PROVE  PlacesInv' /\ EndsAgree'
<1> USE DEF EstablishedInv
<1>1. QueueTypes /\ EndTypes
    BY TypeParts DEF ListenerInv
<1>2. CASE Enqueues
  <2>1. PICK t \in Thread, l \in Listener :
               /\ pc[t] = "connect_mutex" /\ con[t] \in Conn
               /\ queue' = [queue EXCEPT ![l] = Append(@, con[t])]
               /\ server' = [server EXCEPT ![con[t]] = "queued"]
               /\ client' = [client EXCEPT ![con[t]] = "open"]
      BY <1>2 DEF Enqueues
  <2>2. server[con[t]] = "none"
      BY <2>1 DEF CallingIsNew, EndsAgree
  <2>3. PlacesInv'
      BY <1>1, <2>1, <2>2, EnqueuePlaces
  <2>4. EndsAgree'
      BY <1>1, <2>1 DEF EndsAgree, EndTypes
  <2>5. QED BY <2>3, <2>4
<1>3. CASE Dequeues
  <2>1. PICK l \in Listener, end \in {"accepted", "dropped"} :
               queue[l] # <<>> /\ Dequeue(l, end) /\ UNCHANGED client
      BY <1>3 DEF Dequeues
  <2>2. PlacesInv'
      BY <1>1, <2>1, DequeuePlaces
  <2>3. Head(queue[l]) \in Conn /\ server[Head(queue[l])] = "queued"
    <3>1. queue[l] \in Seq(Conn) BY <1>1 DEF QueueTypes
    <3>2. Len(queue[l]) \in Nat \ {0} /\ Head(queue[l]) = queue[l][1] /\ queue[l][1] \in Conn
        BY <2>1, <3>1, TailPlaces
    <3>3. 1 \in Places(l) BY <3>2 DEF Places
    <3>4. QED BY <3>2, <3>3 DEF PlacesInv, PlacedQueued
  <2>4. EndsAgree'
    <3> DEFINE c == Head(queue[l])
    <3>1. server' = [server EXCEPT ![c] = end] /\ client' = client BY <2>1 DEF Dequeue
    <3>2. c \in Conn /\ server[c] = "queued" BY <2>3
    <3> HIDE DEF c
    <3>3. QED BY <1>1, <3>1, <3>2 DEF EndsAgree, EndTypes
  <2>5. QED BY <2>2, <2>4
<1>4. CASE ClientOnly
  <2>1. PlacesInv'
      BY <1>4 DEF ClientOnly, PlacesInv, OnePlace, PlacedQueued, QueuedPlaced, Places
  <2>2. EndsAgree'
      BY <1>1, <1>4 DEF ClientOnly, EndsAgree, CallingIsNew, EndTypes
  <2>3. QED BY <2>1, <2>2
<1>5. QED BY <1>2, <1>3, <1>4, StepEffects

\* Only connect itself, which owns _lock, changes the end it is about to enqueue.
LEMMA CallingKept ==
    ASSUME ListenerInv, CallingIsNew, [Next]_vars
    PROVE  CallingIsNew'
<1> USE DEF ListenerInv
<1>1. \A t \in Thread : pc[t] = "connect_mutex" =>
         lock = t /\ con[t] \in Conn /\ client[con[t]] = "calling"
    BY DEF InCall, CallingIsNew
<1>2. ASSUME NEW t \in Thread, ConnectFind(t)
      PROVE  \A u \in Thread : pc'[u] = "connect_mutex" => client'[con'[u]] = "calling"
  <2>1. Moves(t) /\ lock = None BY <1>2, StepsMove DEF ConnectFind
  <2>2. \A u \in Thread : u # t => pc'[u] # "connect_mutex"
      BY <1>1, <2>1, MovesKeep, TypeParts, NoneNotAThread
  <2>3. pc'[t] = "connect_mutex" => client'[con'[t]] = "calling"
    <3>1. CASE At(t, "idle") /\ UNCHANGED local BY <3>1 DEF At, local
    <3>2. CASE \E c \in Conn, l \in Listener :
                  client' = [client EXCEPT ![c] = "calling"] /\ Begin(t, l, c, FALSE, "connect_mutex")
        BY <3>2, TypeParts DEF Begin, CallTypes, EndTypes
    <3>3. \A p : Found(p) \subseteq Listener BY DEF Found, TypeOK
    <3>4. QED BY <1>2, <3>1, <3>2, <3>3, Zenon DEF ConnectFind
  <2>4. QED BY <2>2, <2>3
<1>3. ASSUME NEW t \in Thread, ConnectEnqueue(t)
      PROVE  \A u \in Thread : pc'[u] # "connect_mutex"
  <2>1. Moves(t) /\ Return(t) /\ lock = t
      BY <1>1, <1>3, StepsMove DEF Step, ConnectEnqueue, At
  <2>2. \A u \in Thread : u # t => pc'[u] # "connect_mutex"
      BY <1>1, <2>1, MovesKeep, TypeParts
  <2>3. pc'[t] = "idle" BY <2>1, TypeParts DEF Return, CallTypes
  <2>4. QED BY <2>2, <2>3
<1>4. ASSUME NEW t \in Thread, UNCHANGED client, Moves(t), pc'[t] # "connect_mutex"
      PROVE  \A u \in Thread : pc'[u] = "connect_mutex" => client'[con'[u]] = "calling"
    BY <1>1, <1>4, MovesKeep, TypeParts
<1>5. ASSUME NEW t \in Thread, Bind(t) \/ Listen(t) \/ ListenSocks(t) \/ AcceptBegin(t) \/ Accept(t)
                \/ AcceptWake(t) \/ CloseUnlink(t) \/ CloseMutex(t) \/ CloseDrain(t) \/ CloseFree(t)
      PROVE  UNCHANGED client /\ Moves(t) /\ (pc'[t] # "connect_mutex" \/ UNCHANGED local)
  <2>1. Moves(t) BY <1>5, StepsMove DEF Step
  <2>2. CASE Bind(t) \/ CloseDrain(t) BY <2>1, <2>2 DEF Bind, CloseDrain, ends
  <2>3. CASE Listen(t) \/ AcceptBegin(t) \/ ListenSocks(t) \/ CloseMutex(t) \/ CloseFree(t)
      BY <2>1, <2>3, TypeParts
      DEF Listen, AcceptBegin, ListenSocks, CloseMutex, CloseFree, Begin, Goto, Return, CallTypes, ends
  <2>4. CASE Accept(t) \/ AcceptWake(t)
    <3>1. UNCHANGED client /\ (Return(t) \/ Goto(t, "accept_wait"))
        BY <2>4, Zenon DEF Accept, AcceptWake, AcceptLocked
    <3>2. QED BY <2>1, <3>1, TypeParts DEF Return, Goto, CallTypes
  <2>5. CASE CloseUnlink(t)
    <3>1. UNCHANGED client BY <2>5 DEF CloseUnlink, ends
    <3>2. UNCHANGED local \/ \E l \in Listener : Begin(t, l, None, FALSE, "close_mutex")
        BY <2>5, Zenon DEF CloseUnlink
    <3>3. QED BY <2>1, <3>1, <3>2, TypeParts DEF Begin, CallTypes
  <2>6. QED BY <1>5, <2>2, <2>3, <2>4, <2>5
<1>6. CASE UNCHANGED <<local, client>>
    BY <1>6 DEF CallingIsNew, local
<1>7. ASSUME NEW c \in Conn, ClientClose(c)
      PROVE  CallingIsNew'
    BY <1>1, <1>7, TypeParts DEF ClientClose, CallingIsNew, EndTypes, local
<1>8. UNCHANGED vars \/ (\E l \in Listener : PollCreate(l)) => UNCHANGED <<local, client>>
    BY DEF vars, ends, PollCreate
<1>9. QED BY <1>2, <1>3, <1>4, <1>5, <1>6, <1>7, <1>8 DEF Next, Step, CallingIsNew

\* A connection that has one place is in one, and the others are in none.
LEMMA PlacesCounted ==
    ASSUME QueueTypes, PlacesInv, NEW c \in Conn
    PROVE  Cardinality(InQueues(c)) = IF server[c] = "queued" THEN 1 ELSE 0
<1>1. ASSUME NEW x
      PROVE  x \in InQueues(c) <=> \E l \in Listener : \E i \in Places(l) : queue[l][i] = c /\ x = <<l, i>>
  <2>1. \A l \in Listener : DOMAIN queue[l] = Places(l) BY DEF QueueTypes, Places
  <2>2. QED BY <2>1 DEF InQueues
<1>2. CASE server[c] = "queued"
  <2>1. PICK l \in Listener : \E i \in Places(l) : queue[l][i] = c
      BY <1>2 DEF PlacesInv, QueuedPlaced
  <2>2. PICK i \in Places(l) : queue[l][i] = c
      BY <2>1
  <2>3. \A m \in Listener : \A j \in Places(m) : queue[m][j] = c => m = l /\ j = i
      BY <2>2, Zenon DEF PlacesInv, OnePlace
  <2>4. InQueues(c) = {<<l, i>>}
      BY <1>1, <2>2, <2>3
  <2>5. QED BY <1>2, <2>4, FS_Singleton
<1>3. CASE server[c] # "queued"
  <2>1. InQueues(c) = {}
      BY <1>1, <1>3 DEF PlacesInv, PlacedQueued
  <2>2. QED BY <1>3, <2>1, FS_EmptySet
<1>4. QED BY <1>2, <1>3

\* A connection that connect has reported as established is in one backlog, in
\* one place, until it is accepted or dropped.
THEOREM PlacedOnce == Spec => []EstablishedOnce
<1>1. Init => EstablishedInv
  <2>1. Init => PlacesInv /\ EndsAgree /\ CallingIsNew
      BY DEF Init, PlacesInv, OnePlace, PlacedQueued, QueuedPlaced, Places, EndsAgree, CallingIsNew
  <2>2. QED BY <2>1, InitHolds DEF EstablishedInv
<1>2. EstablishedInv /\ [Next]_vars => EstablishedInv'
    BY NextKeeps, EndsKept, CallingKept DEF EstablishedInv
<1>3. EstablishedInv => EstablishedOnce
    BY TypeParts, PlacesCounted DEF EstablishedInv, EstablishedOnce, EndsAgree, ListenerInv
<1>4. QED BY <1>1, <1>2, <1>3, PTL DEF Spec
-----------------------------------------------------------------------------
(* No connection is missed *)

\* Only acceptors sleep, each on its own listener.
OnlyAcceptorsSleep == \A l \in Listener : \A u \in asleep[l] : pc[u] = "accept_wait" /\ sock[u] = l
EnoughWoken == \A l \in Listener : /\ IsFiniteSet(Woken(l))
                                   /\ asleep[l] # {} => Len(queue[l]) <= Cardinality(Woken(l))
MissedInv == ListenerInv /\ OnlyAcceptorsSleep /\ EnoughWoken

\* A thread that is neither in accept before nor after its step, nor wakes anybody.
LEMMA WokenKept ==
    ASSUME ListenerInv, OnlyAcceptorsSleep, asleep' = asleep,
           \/ UNCHANGED local
           \/ \E t \in Thread : Moves(t) /\ pc[t] # "accept_wait" /\ pc'[t] # "accept_wait"
    PROVE  OnlyAcceptorsSleep' /\ \A l \in Listener : Woken(l)' = Woken(l)
<1>1. \A u \in Thread : \/ pc'[u] = pc[u] /\ sock'[u] = sock[u]
                        \/ pc[u] # "accept_wait" /\ pc'[u] # "accept_wait"
    BY MovesKeep, TypeParts DEF ListenerInv, local
<1>2. \A l \in Listener : \A u \in asleep[l] : u \in Thread
    BY DEF ListenerInv, TypeOK
<1>3. QED BY <1>1, <1>2 DEF OnlyAcceptorsSleep, Woken

\* A backlog that gets no longer needs no more acceptors.
LEMMA ShorterNeedsNoMore ==
    ASSUME MissedInv, QueueTypes', asleep' = asleep,
           \/ UNCHANGED local
           \/ \E t \in Thread : Moves(t) /\ pc[t] # "accept_wait" /\ pc'[t] # "accept_wait",
           \A l \in Listener : Len(queue'[l]) <= Len(queue[l])
    PROVE  OnlyAcceptorsSleep' /\ EnoughWoken'
<1>1. OnlyAcceptorsSleep' /\ \A l \in Listener : Woken(l)' = Woken(l)
    BY WokenKept DEF MissedInv
<1>2. EnoughWoken'
  <2> SUFFICES ASSUME NEW l \in Listener
               PROVE  /\ IsFiniteSet(Woken(l)') /\ (asleep'[l] # {} => Len(queue'[l]) <= Cardinality(Woken(l)'))
      BY DEF EnoughWoken
  <2>1. IsFiniteSet(Woken(l)) /\ (asleep[l] # {} => Len(queue[l]) <= Cardinality(Woken(l)))
      BY DEF MissedInv, EnoughWoken
  <2>2. Len(queue[l]) \in Nat /\ Len(queue'[l]) \in Nat /\ Cardinality(Woken(l)) \in Nat
      BY <2>1, FS_CardinalityType DEF MissedInv, ListenerInv, TypeOK, QueueTypes
  <2>3. Woken(l)' = Woken(l) /\ Len(queue'[l]) <= Len(queue[l])
      BY <1>1
  <2>4. QED BY <2>1, <2>2, <2>3
<1>3. QED BY <1>1, <1>2

\* connect wakes an acceptor for the connection it puts into the backlog, if any sleeps.
LEMMA EnqueueWakes ==
    ASSUME MissedInv, NEW t \in Thread, ConnectEnqueue(t)
    PROVE  OnlyAcceptorsSleep' /\ EnoughWoken'
<1> PICK l \in Listener, c \in Conn : l = sock[t] /\ c = con[t]
    BY DEF MissedInv, ListenerInv, InCall, ConnectEnqueue, At
<1>1. /\ pc[t] = "connect_mutex" /\ Return(t) /\ Moves(t) /\ pc'[t] = "idle" /\ queue[l] \in Seq(Conn)
    BY StepsMove DEF MissedInv, ListenerInv, TypeOK, Step, ConnectEnqueue, At, Return
<1>2. \A u \in Thread : u # t => pc'[u] = pc[u] /\ sock'[u] = sock[u]
    BY <1>1, MovesKeep, TypeParts DEF MissedInv, ListenerInv
<1>3. QueueTypes'
    BY EnqueueKeeps, TypePartsNext DEF MissedInv, ListenerInv, QueueTypes, TypeOK
<1>4. CASE queue' = queue /\ asleep' = asleep
  <2>1. \A m \in Listener : Len(queue'[m]) <= Len(queue[m])
      BY <1>4 DEF MissedInv, ListenerInv, TypeOK
  <2>2. QED BY <1>1, <1>3, <1>4, <2>1, ShorterNeedsNoMore
<1>5. CASE queue' = [queue EXCEPT ![l] = Append(@, c)] /\ asleep[l] = {} /\ asleep' = asleep
  <2>1. OnlyAcceptorsSleep' /\ \A m \in Listener : Woken(m)' = Woken(m)
      BY <1>1, <1>5, WokenKept DEF MissedInv
  <2>2. \A m \in Listener \ {l} : queue'[m] = queue[m]
      BY <1>5 DEF MissedInv, ListenerInv, TypeOK
  <2>3. QED BY <1>5, <2>1, <2>2 DEF MissedInv, EnoughWoken
<1>6. ASSUME NEW w \in asleep[l], queue' = [queue EXCEPT ![l] = Append(@, c)],
             asleep' = [asleep EXCEPT ![l] = @ \ {w}]
      PROVE  OnlyAcceptorsSleep' /\ EnoughWoken'
  <2>1. /\ \A m \in Listener \ {l} : queue'[m] = queue[m] /\ asleep'[m] = asleep[m]
        /\ asleep'[l] = asleep[l] \ {w} /\ queue'[l] = Append(queue[l], c)
        /\ w \in Thread /\ pc[w] = "accept_wait" /\ sock[w] = l /\ w # t
      BY <1>1, <1>6 DEF MissedInv, ListenerInv, TypeOK, OnlyAcceptorsSleep
  <2>2. OnlyAcceptorsSleep'
    <3> SUFFICES ASSUME NEW m \in Listener, NEW u \in asleep'[m] PROVE pc'[u] = "accept_wait" /\ sock'[u] = m
        BY DEF OnlyAcceptorsSleep
    <3>1. u \in asleep[m] /\ u \in Thread
      <4>1. asleep \in [Listener -> SUBSET Thread]
          BY DEF MissedInv, ListenerInv, TypeOK
      <4>2. u \in asleep[m]
          BY <2>1
      <4>3. QED BY <4>1, <4>2
    <3>2. pc[u] = "accept_wait" /\ sock[u] = m
        BY <3>1 DEF MissedInv, OnlyAcceptorsSleep
    <3>3. QED BY <1>1, <1>2, <3>1, <3>2
  <2>3. \A m \in Listener \ {l} : Woken(m)' = Woken(m)
      BY <1>1, <1>2, <2>1 DEF Woken
  <2>4. Woken(l)' = Woken(l) \cup {w} /\ w \notin Woken(l)
      BY <1>1, <1>2, <2>1 DEF Woken
  <2>5. IsFiniteSet(Woken(l)) /\ Cardinality(Woken(l)) \in Nat
      BY FS_CardinalityType DEF MissedInv, EnoughWoken
  <2>6. IsFiniteSet(Woken(l)') /\ Cardinality(Woken(l)') = Cardinality(Woken(l)) + 1
      BY <2>4, <2>5, FS_AddElement
  <2>7. Len(queue[l]) <= Cardinality(Woken(l))
      BY DEF MissedInv, EnoughWoken
  <2>8. Len(queue'[l]) = Len(queue[l]) + 1 /\ Len(queue[l]) \in Nat
      BY <1>1, <2>1, AppendPlaces
  <2>9. Len(queue'[l]) <= Cardinality(Woken(l)')
      BY <2>5, <2>6, <2>7, <2>8
  <2>10. \A m \in Listener : /\ IsFiniteSet(Woken(m)')
                             /\ asleep'[m] # {} => Len(queue'[m]) <= Cardinality(Woken(m)')
    <3> TAKE m \in Listener
    <3>1. CASE m = l
        BY <2>6, <2>9, <3>1
    <3>2. CASE m # l
        BY <2>1, <2>3, <3>2 DEF MissedInv, EnoughWoken
    <3>3. QED BY <3>1, <3>2
  <2>11. QED BY <2>2, <2>10 DEF EnoughWoken
<1>7. QED BY <1>4, <1>5, <1>6, Zenon DEF ConnectEnqueue, Signal

\* An acceptor that has the mutex takes a connection, or finds that there is none.
LEMMA AcceptTakes ==
    ASSUME MissedInv, NEW t \in Thread, Moves(t),
           \/ Accept(t)
           \/ AcceptWake(t)
    PROVE  OnlyAcceptorsSleep' /\ EnoughWoken'
<1> PICK l \in Listener : l = sock[t]
    BY DEF MissedInv, ListenerInv, InCall, Accept, AcceptWake, AcceptLocked, At
<1>0. TypeOK
    BY DEF MissedInv, ListenerInv
<1>1. \A u \in Thread : u # t => pc'[u] = pc[u] /\ sock'[u] = sock[u]
    BY MovesKeep, TypeParts DEF MissedInv, ListenerInv
<1>2. \A m \in Listener : t \notin asleep[m]
    BY DEF MissedInv, OnlyAcceptorsSleep, Accept, AcceptWake, AcceptLocked, At
<1>3. \/ queue[l] # <<>> /\ queue' = [queue EXCEPT ![l] = Tail(@)] /\ Return(t) /\ asleep' = asleep
      \/ /\ queue[l] = <<>> /\ queue' = queue
         /\ \/ Return(t) /\ asleep' = asleep
            \/ Goto(t, "accept_wait") /\ asleep' = [asleep EXCEPT ![l] = @ \cup {t}]
    BY Zenon DEF Accept, AcceptWake, AcceptLocked, Dequeue
<1>4. \A m \in Listener : /\ asleep'[m] \subseteq asleep[m] \cup {t} /\ asleep[m] \subseteq asleep'[m]
                          /\ m # l => queue'[m] = queue[m] /\ asleep'[m] = asleep[m]
    BY <1>0, <1>3 DEF TypeOK
<1>5. pc'[t] = "accept_wait" => sock'[t] = l /\ t \in asleep'[l]
    BY <1>0, <1>3 DEF TypeOK, Return, Goto
<1>6. \A m \in Listener : t \in asleep'[m] => m = l /\ pc'[t] = "accept_wait" /\ sock'[t] = m
    BY <1>0, <1>2, <1>3 DEF TypeOK, Goto
<1>7. OnlyAcceptorsSleep'
  <2> SUFFICES ASSUME NEW m \in Listener, NEW u \in asleep'[m] PROVE pc'[u] = "accept_wait" /\ sock'[u] = m
      BY DEF OnlyAcceptorsSleep
  <2>1. CASE u = t
      BY <1>6, <2>1
  <2>2. CASE u # t
    <3>1. u \in asleep[m] /\ u \in Thread
        BY <1>0, <1>4, <2>2 DEF TypeOK
    <3>2. pc[u] = "accept_wait" /\ sock[u] = m
        BY <3>1 DEF MissedInv, OnlyAcceptorsSleep
    <3>3. QED BY <1>1, <2>2, <3>1, <3>2
  <2>3. QED BY <2>1, <2>2
<1>8. \A m \in Listener : Woken(m)' = Woken(m) \ {t}
  <2> SUFFICES ASSUME NEW m \in Listener, NEW u \in Thread
               PROVE  u \in Woken(m)' <=> u \in Woken(m) /\ u # t
      BY DEF Woken
  <2>1. CASE u = t
      BY <1>5, <2>1 DEF Woken
  <2>2. CASE u # t
      BY <1>1, <1>4, <2>2 DEF Woken
  <2>3. QED BY <2>1, <2>2
<1>9. \A m \in Listener \ {l} : Woken(m)' = Woken(m)
    BY <1>8 DEF Woken
<1> DEFINE W == Woken(l)
           V == Woken(l)'
<1>10. V = W \ {t} /\ IsFiniteSet(W) /\ (asleep[l] # {} => Len(queue[l]) <= Cardinality(W))
    BY <1>0, <1>8 DEF MissedInv, EnoughWoken
<1> HIDE DEF W, V
<1>11. /\ IsFiniteSet(V) /\ Cardinality(W) \in Nat /\ Cardinality(V) \in Nat
       /\ Cardinality(V) >= Cardinality(W) - 1
  <2>1. IsFiniteSet(V)
      BY <1>10, FS_RemoveElement
  <2>2. Cardinality(V) = IF t \in W THEN Cardinality(W) - 1 ELSE Cardinality(W)
      BY <1>10, FS_RemoveElement
  <2>3. QED BY <1>10, <2>1, <2>2, FS_CardinalityType
<1>12. asleep'[l] # {} => Len(queue'[l]) <= Cardinality(V)
  <2>1. CASE queue[l] # <<>> /\ queue' = [queue EXCEPT ![l] = Tail(@)] /\ asleep' = asleep
    <3>1. queue[l] \in Seq(Conn) /\ queue'[l] = Tail(queue[l])
        BY <1>0, <2>1 DEF TypeOK
    <3>2. Len(queue'[l]) = Len(queue[l]) - 1 /\ Len(queue[l]) \in Nat
        BY <3>1, <2>1, TailPlaces
    <3>3. QED BY <1>10, <1>11, <2>1, <3>2
  <2>2. CASE queue[l] = <<>> /\ queue' = queue
    <3>1. Len(queue'[l]) = 0
        BY <2>2
    <3>2. QED BY <1>11, <3>1
  <2>3. QED BY <1>3, <2>1, <2>2
<1>13. \A m \in Listener : /\ IsFiniteSet(Woken(m)')
                           /\ asleep'[m] # {} => Len(queue'[m]) <= Cardinality(Woken(m)')
  <2> TAKE m \in Listener
  <2>1. CASE m = l
      BY <1>11, <1>12, <2>1 DEF V
  <2>2. CASE m # l
      BY <1>4, <1>9, <2>2 DEF MissedInv, EnoughWoken
  <2>3. QED BY <2>1, <2>2
<1>14. QED BY <1>7, <1>13 DEF EnoughWoken

\* Every step leaves as many connections in a backlog as there are acceptors on
\* their way, if another one sleeps.
LEMMA MissedNext ==
    ASSUME MissedInv, [Next]_vars
    PROVE  OnlyAcceptorsSleep' /\ EnoughWoken'
<1> ListenerInv' /\ QueueTypes'
    BY NextKeeps, TypeParts DEF MissedInv, ListenerInv, QueueTypes, TypeOK
<1> queue \in [Listener -> Seq(Conn)] /\ ListenerInv
    BY DEF MissedInv, ListenerInv, TypeOK
<1>1. ASSUME UNCHANGED <<queue, asleep>>,
             \/ UNCHANGED local
             \/ \E t \in Thread : Moves(t) /\ pc[t] # "accept_wait" /\ pc'[t] # "accept_wait"
      PROVE  OnlyAcceptorsSleep' /\ EnoughWoken'
  <2>1. \A l \in Listener : Len(queue'[l]) <= Len(queue[l])
      BY <1>1
  <2>2. QED BY <1>1, <2>1, ShorterNeedsNoMore
<1>2. CASE Next
  <2>1. ASSUME NEW t \in Thread, \/ Bind(t) \/ Listen(t) \/ ListenSocks(t) \/ ConnectFind(t)
                                \/ AcceptBegin(t) \/ CloseUnlink(t) \/ CloseMutex(t) \/ CloseFree(t)
        PROVE  OnlyAcceptorsSleep' /\ EnoughWoken'
    <3>1. Moves(t)
        BY <2>1, StepsMove DEF Step, ListenerInv
    <3>2. UNCHANGED <<queue, asleep>>
        BY <2>1, Zenon DEF Bind, Listen, ListenSocks, ConnectFind, AcceptBegin, CloseUnlink, CloseMutex,
           CloseFree, queues
    <3>3. \/ UNCHANGED local
          \/ pc[t] # "accept_wait" /\ pc'[t] # "accept_wait"
      <4>1. pc \in [Thread -> Labels]
          BY TypeParts DEF ListenerInv, CallTypes
      <4>2. CASE Bind(t)
          BY <4>2 DEF Bind
      <4>3. CASE ConnectFind(t) \/ CloseUnlink(t)
        <5>1. \/ UNCHANGED local
              \/ \E l, c : \E label \in {"connect_mutex", "close_mutex"} : Begin(t, l, c, FALSE, label)
            BY <4>3, Zenon DEF ConnectFind, CloseUnlink
        <5>2. QED BY <4>1, <5>1 DEF Begin, At
      <4>4. CASE Listen(t) \/ ListenSocks(t) \/ AcceptBegin(t) \/ CloseMutex(t) \/ CloseFree(t)
          BY <4>1, <4>4 DEF Listen, ListenSocks, AcceptBegin, CloseMutex, CloseFree, Begin, At, Goto, Return
      <4>5. QED BY <2>1, <4>2, <4>3, <4>4
    <3>4. QED BY <1>1, <3>1, <3>2, <3>3
  <2>2. ASSUME NEW t \in Thread, CloseDrain(t)
        PROVE  OnlyAcceptorsSleep' /\ EnoughWoken'
    <3>1. PICK l \in Listener : l = sock[t]
        BY <2>2 DEF ListenerInv, InCall, CloseDrain, At
    <3>2. queue[l] # <<>> /\ queue' = [queue EXCEPT ![l] = Tail(@)] /\ UNCHANGED <<asleep, local>>
        BY <2>2, <3>1, Zenon DEF CloseDrain, Dequeue
    <3>3. \A m \in Listener : Len(queue'[m]) <= Len(queue[m])
      <4> TAKE m \in Listener
      <4>1. queue[m] \in Seq(Conn)
          OBVIOUS
      <4>2. CASE m = l
        <5>1. queue'[m] = Tail(queue[m]) /\ queue[m] # <<>>
            BY <3>2, <4>2
        <5>2. QED BY <4>1, <5>1, TailPlaces
      <4>3. CASE m # l
          BY <3>2, <4>1, <4>3
      <4>4. QED BY <4>2, <4>3
    <3>4. QED BY <3>2, <3>3, ShorterNeedsNoMore
  <2>3. ASSUME NEW t \in Thread, Accept(t) \/ AcceptWake(t)
        PROVE  OnlyAcceptorsSleep' /\ EnoughWoken'
      BY <2>3, AcceptTakes, StepsMove DEF Step, ListenerInv
  <2>4. CASE (\E c \in Conn : ClientClose(c)) \/ (\E l \in Listener : PollCreate(l))
      BY <2>4, <1>1, Zenon DEF ClientClose, PollCreate, queues
  <2>5. QED BY <1>2, <2>1, <2>2, <2>3, <2>4, EnqueueWakes DEF Next, Step
<1>3. CASE UNCHANGED vars
    BY <1>3, <1>1, Zenon DEF vars, queues
<1>4. QED BY <1>2, <1>3

\* While an acceptor sleeps, there are no more connections in the backlog than
\* acceptors that have been woken to take them, for any number of threads and
\* connections (_sock_accept 642, oe_internalsock_connect 435).
THEOREM NoConnectionMissed == Spec => []AcceptNotMissed
<1>1. Init => MissedInv
  <2> SUFFICES ASSUME Init PROVE MissedInv
      OBVIOUS
  <2>1. \A l \in Listener : asleep[l] = {}
      BY DEF Init
  <2>2. \A l \in Listener : Woken(l) = {}
      BY DEF Init, Woken
  <2>3. QED BY <2>1, <2>2, InitHolds, FS_EmptySet DEF MissedInv, OnlyAcceptorsSleep, EnoughWoken
<1>2. MissedInv /\ [Next]_vars => MissedInv'
    BY MissedNext, NextKeeps DEF MissedInv
<1>3. MissedInv => AcceptNotMissed
    BY DEF MissedInv, EnoughWoken, AcceptNotMissed
<1>4. QED BY <1>1, <1>2, <1>3, PTL DEF Spec
=============================================================================
