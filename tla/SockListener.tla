---------------------------- MODULE SockListener ----------------------------
(***************************************************************************)
(* src/ert/enclave/internalsock.c: bind, listen, connect, accept and the   *)
(* closing of a listening socket, up to the point where a connection has   *)
(* both its ends (module SockConnection).                                  *)
(*                                                                         *)
(* Bound sockets are found by port in a list guarded by the spinlock       *)
(* _lock.  A listening socket has a backlog of connections, a mutex and a  *)
(* condition variable for acceptors, and an eventfd for pollers.  connect  *)
(* holds _lock while it waits for the backlog's mutex.                     *)
(***************************************************************************)
EXTENDS Integers, Sequences, FiniteSets

CONSTANTS Thread,    \* the enclave's threads
          Listener,  \* sock_t objects on which bind() is called
          Conn,      \* connections, one for each call of connect()
          Port,      \* bound: ports that bind() and connect() are given
          Backlogs,  \* bound: backlog arguments of listen()
          Calls,     \* bound: the kinds of calls the threads make
          Polled,    \* bound: the listeners that get an eventfd
          None

ASSUME NoneNotAThread == None \notin Thread
ASSUME PortsAreNonzero == Port \subseteq Nat \ {0} /\ Port # {}
ASSUME BacklogsAreInts == Backlogs \subseteq Int

VARIABLES
    fate,       \* running, null_unlock
    lock,       \* owner of _lock
    list,       \* the sockets whose boundsock is in _bound_sockets
    life,       \* listener -> unbound, failed, bound, closing, closed
    port,       \* listener -> boundsock->port
    room,       \* listener -> connections backlog.buf can hold; 0 while it is NULL
    queue,      \* listener -> connections in backlog.buf
    mutex,      \* listener -> owner of backlog.mutex
    asleep,     \* listener -> threads asleep on backlog.cond
    polled,     \* listener -> the socket is in backlog.socks
    hostfd, efd, notified,  \* listener -> has an eventfd, it is readable, is marked so
    client,     \* conn -> the client's end: none, calling, refused, open, closed
    server,     \* conn -> the server's end: none, queued, accepted, dropped
    pc, sock, con, block    \* each thread's call: step, listener, connection, flag

bounds == <<list, life, port>>
queues == <<room, queue, asleep, polled>>
events == <<hostfd, efd, notified>>
ends   == <<client, server>>
local  == <<pc, sock, con, block>>
vars   == <<fate, lock, mutex, bounds, queues, events, ends, local>>

At(t, label) == fate = "running" /\ pc[t] = label
Goto(t, label) == pc' = [pc EXCEPT ![t] = label] /\ UNCHANGED <<sock, con, block>>
Return(t) == /\ pc' = [pc EXCEPT ![t] = "idle"]
             /\ sock' = [sock EXCEPT ![t] = None]
             /\ con' = [con EXCEPT ![t] = None]
             /\ block' = [block EXCEPT ![t] = FALSE]
Begin(t, l, c, b, label) ==
    /\ At(t, "idle")
    /\ pc' = [pc EXCEPT ![t] = label]
    /\ sock' = [sock EXCEPT ![t] = l]
    /\ con' = [con EXCEPT ![t] = c]
    /\ block' = [block EXCEPT ![t] = b]

\* A call on this listening socket is under way.
Busy(l) == \E t \in Thread : pc[t] # "idle" /\ sock[t] = l /\ con[t] = None

\* _find_bound_socket
Found_Listening(p) == {l \in list : port[l] = p /\ room[l] > 0}
Found(p) == {l \in list : port[l] = p}

\* _update_events(&bound->backlog, false), with the mutex held.
UpdateEvents(l) ==
    LET needs == queue'[l] # <<>>
        seen  == polled[l] /\ hostfd[l]
    IN  /\ seen /\ ~needs /\ notified[l] => efd[l]
        /\ efd' = [efd EXCEPT ![l] = IF seen /\ ~needs /\ notified[l] THEN FALSE
                                     ELSE @ \/ (seen /\ needs)]
        /\ notified' = [notified EXCEPT ![l] = IF seen THEN needs ELSE @]
-----------------------------------------------------------------------------
(* bind and listen *)

\* The lowest port from 1024 on that is not in use (here: of Port).
Unused == {p \in Port : Found(p) = {} /\ \A q \in Port : q < p => Found(q) # {}}

\* oe_internalsock_bind: with port 0 any unused one.  The socket's host socket
\* is closed before the port is known to be free.
Bind(t) ==
    /\ At(t, "idle") /\ lock = None
    /\ \E l \in Listener, p \in Port \cup {0} :
          /\ life[l] \in {"unbound", "failed"}
          /\ LET free == IF p = 0 THEN Unused ELSE {q \in {p} : Found(q) = {}}
             IN  \/ \E q \in free : /\ port' = [port EXCEPT ![l] = q]
                                    /\ life' = [life EXCEPT ![l] = "bound"]
                                    /\ list' = list \cup {l}
                 \/ /\ free = {}      \* EADDRINUSE
                    /\ life' = [life EXCEPT ![l] = "failed"]
                    /\ UNCHANGED <<port, list>>
    /\ UNCHANGED <<fate, lock, mutex, queues, events, ends, local>>

\* The number of connections for a backlog argument.
Capacity(n) == IF n <= 0 THEN 1 ELSE n

\* _sock_listen writes backlog.buf and then backlog.socks, with no lock held.
Listen(t) ==
    /\ \E l \in Listener, n \in Backlogs :
          /\ life[l] = "bound" /\ room[l] = 0 /\ ~Busy(l)
          /\ room' = [room EXCEPT ![l] = Capacity(n)]
          /\ Begin(t, l, None, FALSE, "listen_socks")
    /\ UNCHANGED <<fate, lock, mutex, bounds, queue, asleep, polled, events, ends>>

ListenSocks(t) ==
    /\ At(t, "listen_socks")
    /\ polled' = [polled EXCEPT ![sock[t]] = TRUE]
    /\ Return(t)
    /\ UNCHANGED <<fate, lock, mutex, bounds, room, queue, asleep, events, ends>>
-----------------------------------------------------------------------------
(* connect *)

\* oe_internalsock_connect takes _lock and looks for the port.  Once it has
\* found the bound socket it keeps _lock until it is done.
ConnectFind_Unlocked(t) ==
    /\ lock = None
    /\ \E c \in Conn, p \in Port :
          /\ client[c] = "none"
          /\ client' = [client EXCEPT ![c] = "calling"]
          /\ \E l \in Found(p) : Begin(t, l, c, FALSE, "connect_mutex")
    /\ UNCHANGED <<fate, lock, mutex, bounds, queues, events, server>>
ConnectFind(t) ==
    /\ lock = None
    /\ \E c \in Conn, p \in Port :
          /\ client[c] = "none"
          /\ \/ /\ Found(p) = {}      \* ECONNREFUSED; the connection is freed
                /\ At(t, "idle")
                /\ client' = [client EXCEPT ![c] = "refused"]
                /\ UNCHANGED <<local, lock>>
             \/ /\ client' = [client EXCEPT ![c] = "calling"]
                /\ lock' = t
                /\ \E l \in Found(p) : Begin(t, l, c, FALSE, "connect_mutex")
    /\ UNCHANGED <<fate, mutex, bounds, queues, events, server>>

\* oe_cond_signal wakes one of the sleeping acceptors, if there are any.
Signal_IfWasEmpty(l) ==
    \/ (asleep[l] = {} \/ queue[l] # <<>>) /\ UNCHANGED asleep
    \/ \E w \in asleep[l] : queue[l] = <<>> /\ asleep' = [asleep EXCEPT ![l] = @ \ {w}]
Signal(l) == \/ asleep[l] = {} /\ UNCHANGED asleep
             \/ \E w \in asleep[l] : asleep' = [asleep EXCEPT ![l] = @ \ {w}]

\* Not listening or the backlog is full: ECONNREFUSED.  Otherwise the
\* connection enters the backlog with a server refcount of 1.
ConnectEnqueue(t) ==
    /\ At(t, "connect_mutex")
    /\ LET l == sock[t]
       IN  /\ mutex[l] = None
           /\ \/ /\ Len(queue[l]) >= room[l]
                 /\ client' = [client EXCEPT ![con[t]] = "refused"]
                 /\ UNCHANGED <<queue, asleep, server, efd, notified>>
              \/ /\ Len(queue[l]) < room[l]
                 /\ queue' = [queue EXCEPT ![l] = Append(@, con[t])]
                 /\ client' = [client EXCEPT ![con[t]] = "open"]
                 /\ server' = [server EXCEPT ![con[t]] = "queued"]
                 /\ Signal(l)
                 /\ UpdateEvents(l)
    /\ lock' = None
    /\ Return(t)
    /\ UNCHANGED <<fate, mutex, bounds, room, polled, hostfd>>

\* The client closes its end; what that does to the connection is in module
\* SockConnection.
ClientClose(c) ==
    /\ fate = "running" /\ client[c] = "open"
    /\ client' = [client EXCEPT ![c] = "closed"]
    /\ UNCHANGED <<fate, lock, mutex, bounds, queues, events, server, local>>
-----------------------------------------------------------------------------
(* accept *)

\* The oldest connection leaves the backlog; this is what becomes of it.
Dequeue_Newest(l, end) ==
    /\ queue' = [queue EXCEPT ![l] = SubSeq(@, 1, Len(@) - 1)]
    /\ server' = [server EXCEPT ![Head(queue[l])] = end]
Dequeue(l, end) == /\ queue' = [queue EXCEPT ![l] = Tail(@)]
                   /\ server' = [server EXCEPT ![Head(queue[l])] = end]

AcceptBegin(t) ==
    /\ "accept" \in Calls
    /\ \E l \in Listener, b \in BOOLEAN :
          life[l] = "bound" /\ room[l] > 0 /\ Begin(t, l, None, b, "accept_lock")
    /\ UNCHANGED <<fate, lock, mutex, bounds, queues, events, ends>>

\* With the mutex, for the first time or after a wake-up: take a connection,
\* sleep, or give up with EAGAIN.
AcceptLocked_KeepsMutex(t, label) ==
    /\ At(t, label) /\ queue[sock[t]] = <<>> /\ block[t]
    /\ mutex' = [mutex EXCEPT ![sock[t]] = t]
    /\ asleep' = [asleep EXCEPT ![sock[t]] = @ \cup {t}]
    /\ Goto(t, "accept_wait")
    /\ UNCHANGED <<fate, lock, bounds, room, queue, polled, events, ends>>
AcceptLocked(t, label) ==
    /\ At(t, label)
    /\ LET l == sock[t]
       IN  /\ mutex[l] = None
           /\ \/ /\ queue[l] # <<>>
                 /\ Dequeue(l, "accepted")
                 /\ UpdateEvents(l)
                 /\ Return(t)
                 /\ UNCHANGED asleep
              \/ /\ queue[l] = <<>> /\ block[t]
                 /\ asleep' = [asleep EXCEPT ![l] = @ \cup {t}]
                 /\ Goto(t, "accept_wait")
                 /\ UNCHANGED <<queue, server, efd, notified>>
              \/ /\ queue[l] = <<>> /\ ~block[t]
                 /\ Return(t)
                 /\ UNCHANGED <<queue, server, efd, notified, asleep>>
    /\ UNCHANGED <<fate, lock, mutex, bounds, room, polled, hostfd, client>>

Accept(t) == AcceptLocked(t, "accept_lock")
AcceptWake(t) ==
    /\ At(t, "accept_wait")
    /\ t \notin asleep[sock[t]]
    /\ AcceptLocked(t, "accept_wait")
-----------------------------------------------------------------------------
(* close of a bound socket: _free_boundsock *)

\* The application closes a socket when no call on it is under way.
CloseUnlink(t) ==
    /\ "close" \in Calls
    /\ lock = None
    /\ \E l \in Listener :
          /\ life[l] = "bound" /\ ~Busy(l)
          /\ list' = list \ {l}
          /\ \/ /\ room[l] = 0        \* never listened: freed at once
                /\ At(t, "idle")
                /\ life' = [life EXCEPT ![l] = "closed"]
                /\ UNCHANGED local
             \/ /\ room[l] > 0
                /\ life' = [life EXCEPT ![l] = "closing"]
                /\ Begin(t, l, None, FALSE, "close_mutex")
    /\ UNCHANGED <<fate, lock, mutex, port, queues, events, ends>>

CloseMutex(t) ==
    /\ At(t, "close_mutex")
    /\ mutex[sock[t]] = None
    /\ mutex' = [mutex EXCEPT ![sock[t]] = t]
    /\ Goto(t, "close_drain")
    /\ UNCHANGED <<fate, lock, bounds, queues, events, ends>>

\* The backlog's connections, one after the other.  One whose client is gone is
\* freed; for the others the server's refcount is set to 0, con to NULL, and
\* then the lock of con is released.
CloseDrain(t) ==
    /\ At(t, "close_drain")
    /\ LET l == sock[t]
       IN  /\ queue[l] # <<>>
           /\ Dequeue(l, "dropped")
           /\ fate' = IF client[Head(queue[l])] = "open" THEN "null_unlock" ELSE fate
    /\ UNCHANGED <<lock, mutex, bounds, room, asleep, polled, events, client, local>>

CloseFree_KeepMutex(t) ==
    /\ At(t, "close_drain")
    /\ life' = [life EXCEPT ![sock[t]] = "closed"]
    /\ Return(t)
    /\ UNCHANGED <<fate, lock, mutex, list, port, queues, events, ends>>
CloseFree(t) ==
    /\ At(t, "close_drain")
    /\ queue[sock[t]] = <<>>
    /\ life' = [life EXCEPT ![sock[t]] = "closed"]
    /\ mutex' = [mutex EXCEPT ![sock[t]] = None]
    /\ Return(t)
    /\ UNCHANGED <<fate, lock, list, port, queues, events, ends>>
-----------------------------------------------------------------------------
\* get_host_fd on a listening socket: it creates the eventfd.  Its call of
\* _update_events is for connected sockets only.
PollCreate(l) ==
    /\ l \in Polled
    /\ fate = "running" /\ life[l] = "bound" /\ ~hostfd[l]
    /\ hostfd' = [hostfd EXCEPT ![l] = TRUE]
    /\ UNCHANGED <<fate, lock, mutex, bounds, queues, efd, notified, ends, local>>

Init ==
    /\ fate = "running" /\ lock = None /\ list = {}
    /\ life = [l \in Listener |-> "unbound"]
    /\ port = [l \in Listener |-> 0]
    /\ room = [l \in Listener |-> 0]
    /\ queue = [l \in Listener |-> <<>>]
    /\ mutex = [l \in Listener |-> None]
    /\ asleep = [l \in Listener |-> {}]
    /\ polled = [l \in Listener |-> FALSE]
    /\ hostfd = [l \in Listener |-> FALSE]
    /\ efd = [l \in Listener |-> FALSE]
    /\ notified = [l \in Listener |-> FALSE]
    /\ client = [c \in Conn |-> "none"]
    /\ server = [c \in Conn |-> "none"]
    /\ pc = [t \in Thread |-> "idle"]
    /\ sock = [t \in Thread |-> None]
    /\ con = [t \in Thread |-> None]
    /\ block = [t \in Thread |-> FALSE]

Step(t) == \/ ListenSocks(t) \/ ConnectEnqueue(t) \/ Accept(t) \/ AcceptWake(t)
           \/ CloseMutex(t) \/ CloseDrain(t) \/ CloseFree(t)

Next == \/ \E t \in Thread : \/ Bind(t) \/ Listen(t) \/ ConnectFind(t) \/ AcceptBegin(t)
                             \/ CloseUnlink(t) \/ Step(t)
        \/ \E c \in Conn : ClientClose(c)
        \/ \E l \in Listener : PollCreate(l)

Spec == Init /\ [][Next]_vars

\* A thread that can run does.  The only one to keep a mutex over several steps
\* is the one that closes the listener, so the others need not be lucky to get
\* it.  Nobody is obliged to call connect, accept or close.
FairSpec == Spec /\ \A t \in Thread : WF_vars(Step(t))
-----------------------------------------------------------------------------
(* Properties *)

TypeOK ==
    /\ fate \in {"running", "null_unlock"}
    /\ lock \in Thread \cup {None}
    /\ list \subseteq Listener
    /\ life \in [Listener -> {"unbound", "failed", "bound", "closing", "closed"}]
    /\ port \in [Listener -> Port \cup {0}] /\ \A l \in list : port[l] # 0
    /\ room \in [Listener -> Nat]
    /\ queue \in [Listener -> Seq(Conn)]
    /\ mutex \in [Listener -> Thread \cup {None}]
    /\ asleep \in [Listener -> SUBSET Thread]
    /\ \A f \in {polled, hostfd, efd, notified} : f \in [Listener -> BOOLEAN]
    /\ client \in [Conn -> {"none", "calling", "refused", "open", "closed"}]
    /\ server \in [Conn -> {"none", "queued", "accepted", "dropped"}]
    /\ pc \in [Thread -> {"idle", "listen_socks", "connect_mutex", "accept_lock",
                          "accept_wait", "close_mutex", "close_drain"}]
    /\ sock \in [Thread -> Listener \cup {None}]
    /\ con \in [Thread -> Conn \cup {None}]
    /\ block \in [Thread -> BOOLEAN]

\* No two sockets are bound to the same port, so that connect's choice of a
\* listener does not depend on the order of the list.
PortsUnique == \A l, m \in list : port[l] = port[m] => l = m

\* connect never uses a bound socket that close has freed: between its search
\* and its unlocking, the socket it found is alive.
TargetAlive == \A t \in Thread : pc[t] = "connect_mutex" => life[sock[t]] \in {"bound"}

\* A connection that connect() has reported as established waits in exactly
\* one place of one backlog until it is accepted or dropped, and no other
\* connection is in a backlog.
InQueues(c) == UNION {{<<l, i>> : i \in {j \in DOMAIN queue[l] : queue[l][j] = c}} :
                         l \in Listener}

EstablishedOnce ==
    \A c \in Conn :
       /\ Cardinality(InQueues(c)) = IF server[c] = "queued" THEN 1 ELSE 0
       /\ server[c] # "none" <=> client[c] \in {"open", "closed"}

\* A freed listener leaves nothing behind in its backlog.
NothingLeftBehind == \A l \in Listener : life[l] = "closed" => queue[l] = <<>>

\* While an acceptor sleeps, there are no more connections in the backlog than
\* acceptors that have been woken to take them.
Woken(l) == {t \in Thread : pc[t] = "accept_wait" /\ sock[t] = l /\ t \notin asleep[l]}

AcceptNotMissed ==
    \A l \in Listener : asleep[l] # {} => Len(queue[l]) <= Cardinality(Woken(l))

\* connect and close return: no order of _lock, the backlog's mutex and the
\* sleepers makes them wait for each other.
CallsReturn ==
    \A t \in Thread :
       pc[t] \in {"connect_mutex", "close_mutex", "close_drain"}
          ~> (pc[t] = "idle" \/ fate # "running")
=============================================================================
