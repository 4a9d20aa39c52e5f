--------------------------- MODULE SockConnection ---------------------------
(***************************************************************************)
(* src/ert/enclave/internalsock.c: one connection between two sockets of   *)
(* the same enclave, from the moment connect() has put it in a listener's  *)
(* backlog until it is freed.                                              *)
(*                                                                         *)
(* A connection has one buffer per side.  A side's receivers take from its *)
(* buffer; the senders of the other side put into it.  Each buffer has a   *)
(* mutex and a condition variable that its receivers and the other side's  *)
(* senders share, the sockets whose eventfd announces its data, and the    *)
(* count of the side's open sockets.  The counts are guarded by the        *)
(* connection's spinlock, everything else of a buffer by its mutex.        *)
(*                                                                         *)
(* A step is what a thread does between two places where another thread    *)
(* can get in between: a lock it must wait for, the release of a lock, an  *)
(* access without the lock.  The bytes in a buffer are counted, not named: *)
(* module RingBuffer shows that they come out in the order they went in.   *)
(***************************************************************************)
EXTENDS Naturals, FiniteSets

CONSTANTS Thread,       \* the enclave's threads
          ClientSock,   \* sock_t objects of the connecting side
          ServerSock,   \* sock_t objects of the accepting side
          First,        \* the client socket that connect() was called on
          Capacity,     \* bytes a buffer holds (buffer_size)
          RecvCounts,   \* bound: the counts passed to recv
          SendCounts,   \* bound: the counts passed to send
          MaxSocks,     \* OE_COUNTOF(socks), the dup()ed sockets a side may have
          Calls,        \* bound: the kinds of calls the threads make
          None

ASSUME SockAssumption == /\ ClientSock \cap ServerSock = {}
                         /\ First \in ClientSock
                         /\ IsFiniteSet(ClientSock \cup ServerSock)
ASSUME NoneAssumption == None \notin Thread
ASSUME SizeAssumption == /\ Capacity \in Nat \ {0}
                         /\ RecvCounts \subseteq Nat \ {0}
                         /\ SendCounts \subseteq Nat
                         /\ MaxSocks \in Nat \ {0}

Sock == ClientSock \cup ServerSock
Side == {"client", "server"}
SideOf(s) == IF s \in ClientSock THEN "client" ELSE "server"
Other(side) == IF side = "client" THEN "server" ELSE "client"

VARIABLES
    fate,      \* running, aborted, null_unlock, use_after_free
    pending,   \* the connection is in the listener's backlog
    freed,     \* _connection_free has been called
    ref,       \* side -> buf[side].refcount
    spin,      \* owner of the connection's spinlock
    mutex,     \* side -> owner of buf[side].mutex
    waiting,   \* side -> threads asleep on buf[side].cond
    buf,       \* side -> number of bytes in buf[side].buf
    socks,     \* side -> sockets in buf[side].socks
    sk,        \* sock -> unused, open, closing, closed
    hostfd,    \* sock -> the socket has an eventfd
    efd,       \* sock -> the eventfd is readable
    notified,  \* sock -> internal.event_notified
    ended,     \* history: side -> some recv of the side returned 0
    pc, cur, left, flag   \* each thread's call: step, socket, bytes, local flag

shared == <<fate, pending, freed, ref, spin, mutex, waiting, buf, socks, sk>>
events == <<hostfd, efd, notified>>
local  == <<pc, cur, left, flag>>
vars   == <<shared, events, ended, local>>

Running == fate = "running"
At(t, label) == Running /\ pc[t] = label
Goto(t, label) == pc' = [pc EXCEPT ![t] = label] /\ UNCHANGED <<cur, left, flag>>
Return(t) == /\ pc' = [pc EXCEPT ![t] = "idle"]
             /\ cur' = [cur EXCEPT ![t] = First]
             /\ left' = [left EXCEPT ![t] = 0]
             /\ flag' = [flag EXCEPT ![t] = FALSE]
MySide(t) == SideOf(cur[t])
Peer(t) == Other(SideOf(cur[t]))
Lesser(a, b) == IF a < b THEN a ELSE b
-----------------------------------------------------------------------------
(* Locks, the condition variable and the eventfds. *)

Lock(t, side) == mutex[side] = None /\ mutex' = [mutex EXCEPT ![side] = t]
Unlock(t, side) == mutex' = [mutex EXCEPT ![side] = None]

\* _get_refcount, and every other section under the spinlock that takes no
\* further lock, is one step that the spinlock's owner keeps out.
SpinFree == spin = None

\* oe_cond_wait: release the mutex and sleep.
Sleep(t, side) == /\ waiting' = [waiting EXCEPT ![side] = @ \cup {t}]
                  /\ Unlock(t, side)

Broadcast_Signal(side) ==
    \/ waiting[side] = {} /\ UNCHANGED waiting
    \/ \E w \in waiting[side] : waiting' = [waiting EXCEPT ![side] = @ \ {w}]
Broadcast(side) == waiting' = [waiting EXCEPT ![side] = {}]

\* The sockets that _update_events(buf[side]) looks at.
Pollable_Peer(side) == {s \in socks[Other(side)] : hostfd[s]}
Pollable(side) == {s \in socks[side] : hostfd[s]}

\* _update_events with the mutex held.  needs is force_notify or that the
\* buffer has data.  oe_host_eventfd_read blocks on an eventfd that is not
\* readable, because oe_host_eventfd is called without EFD_NONBLOCK.
UpdateEvents(side, needs) ==
    LET S == Pollable(side)
        clear == {s \in S : ~needs /\ notified[s]}
    IN  /\ \A s \in clear : efd[s]
        /\ efd' = [s \in Sock |-> IF s \in clear THEN FALSE
                                  ELSE (needs /\ s \in S) \/ efd[s]]
        /\ notified' = [s \in Sock |-> IF s \in S THEN needs ELSE notified[s]]
-----------------------------------------------------------------------------
(* The start of a call.  A thread calls on an open socket; the application  *)
(* closes a socket once, when no thread is in a call on that same socket    *)
(* (calls on its dup()s and on the peer may be under way).                  *)

Idle(t) == At(t, "idle")
Busy(s) == \E t \in Thread : pc[t] # "idle" /\ cur[t] = s

Begin(t, s, label, n, f) ==
    /\ Idle(t)
    /\ cur' = [cur EXCEPT ![t] = s]
    /\ left' = [left EXCEPT ![t] = n]
    /\ flag' = [flag EXCEPT ![t] = f]
    /\ pc' = [pc EXCEPT ![t] = label]

BeginRecv(t) ==
    /\ "recv" \in Calls
    /\ \E s \in Sock, n \in RecvCounts, block \in BOOLEAN :
          sk[s] = "open" /\ Begin(t, s, "recv_lock", n, block)
    /\ UNCHANGED <<shared, events, ended>>

BeginSend(t) ==
    /\ "send" \in Calls
    /\ \E s \in Sock, n \in SendCounts :
          sk[s] = "open" /\ Begin(t, s, "send_lock", n, FALSE)
    /\ UNCHANGED <<shared, events, ended>>

\* _sock_dup and the end of _sock_accept, from the point where it has taken
\* the connection out of the backlog (module SockListener): the new sock_t is
\* known to nobody until _connection_add puts it in the array.
BeginDup(t) ==
    /\ "dup" \in Calls
    /\ \E s \in Sock : sk[s] = "open" /\ Begin(t, s, "add_spin", 0, TRUE)
    /\ UNCHANGED <<shared, events, ended>>

BeginAccept(t) ==
    /\ "accept" \in Calls
    /\ pending /\ pending' = FALSE
    /\ \E s \in ServerSock : Begin(t, s, "add_spin", 0, FALSE)
    /\ UNCHANGED <<fate, freed, ref, spin, mutex, waiting, buf, socks, sk, events, ended>>

BeginClose(t) ==
    /\ "close" \in Calls
    /\ \E s \in Sock : /\ sk[s] = "open" /\ ~Busy(s)
                       /\ Begin(t, s, "close_count", 0, FALSE)
                       /\ sk' = [sk EXCEPT ![s] = "closing"]
    /\ UNCHANGED <<fate, pending, freed, ref, spin, mutex, waiting, buf, socks,
                   events, ended>>
-----------------------------------------------------------------------------
(* recvfrom *)

RecvLock_Unlocked(t) == /\ At(t, "recv_lock") /\ Goto(t, "recv_read")
                        /\ UNCHANGED <<shared, events, ended>>
RecvLock(t) ==
    /\ At(t, "recv_lock")
    /\ Lock(t, MySide(t))
    /\ Goto(t, "recv_read")
    /\ UNCHANGED <<fate, pending, freed, ref, spin, waiting, buf, socks, sk,
                   events, ended>>

\* A read that got something wakes whoever waits for room.
RecvSome(t, n) ==
    /\ n > 0
    /\ buf' = [buf EXCEPT ![MySide(t)] = @ - n]
    /\ Broadcast(MySide(t))
    /\ UpdateEvents(MySide(t), buf'[MySide(t)] > 0)
    /\ Unlock(t, MySide(t))
    /\ Return(t)

RecvRead(t) ==
    /\ At(t, "recv_read")
    /\ LET n == Lesser(left[t], buf[MySide(t)])
       IN  \/ RecvSome(t, n)
           \/ /\ n = 0
              /\ Goto(t, "recv_check")
              /\ UNCHANGED <<buf, waiting, efd, notified, mutex>>
    /\ UNCHANGED <<fate, pending, freed, ref, spin, socks, sk, hostfd, ended>>

\* Nothing to read: sleep while the other side is open, or EAGAIN, or EOF.
RecvCheck(t) ==
    /\ At(t, "recv_check")
    /\ SpinFree
    /\ \/ /\ flag[t] /\ ref[Peer(t)] > 0
          /\ Sleep(t, MySide(t))
          /\ Goto(t, "recv_wait")
          /\ UNCHANGED ended
       \/ /\ ~flag[t] /\ ref[Peer(t)] > 0
          /\ Unlock(t, MySide(t))
          /\ Return(t)
          /\ UNCHANGED <<ended, waiting>>
       \/ /\ ref[Peer(t)] = 0
          /\ ended' = [ended EXCEPT ![MySide(t)] = TRUE]
          /\ Unlock(t, MySide(t))
          /\ Return(t)
          /\ UNCHANGED waiting
    /\ UNCHANGED <<fate, pending, freed, ref, spin, buf, socks, sk, events>>

RecvWake(t) ==
    /\ At(t, "recv_wait")
    /\ t \notin waiting[MySide(t)]
    /\ Lock(t, MySide(t))
    /\ Goto(t, "recv_read")
    /\ UNCHANGED <<fate, pending, freed, ref, spin, waiting, buf, socks, sk,
                   events, ended>>
-----------------------------------------------------------------------------
(* sendto *)

SendLock(t) ==
    /\ At(t, "send_lock")
    /\ Lock(t, Peer(t))
    /\ Goto(t, "send_check")
    /\ UNCHANGED <<fate, pending, freed, ref, spin, waiting, buf, socks, sk,
                   events, ended>>

\* EPIPE once the other side has no socket left.
SendCheck(t) ==
    /\ At(t, "send_check")
    /\ SpinFree
    /\ \/ /\ ref[Peer(t)] > 0
          /\ Goto(t, "send_write")
          /\ UNCHANGED mutex
       \/ /\ ref[Peer(t)] = 0
          /\ Unlock(t, Peer(t))
          /\ Return(t)
    /\ UNCHANGED <<fate, pending, freed, ref, spin, waiting, buf, socks, sk,
                   events, ended>>

\* The bytes that ert_ringbuffer_write can still put into the buffer.
Room(side) == Capacity - buf[side]

SendWrite(t) ==
    /\ At(t, "send_write")
    /\ LET side == Peer(t)
           n    == Lesser(left[t], Room(side))
       IN  /\ buf' = [buf EXCEPT ![side] = @ + n]
           /\ UpdateEvents(side, buf'[side] > 0)
           /\ Unlock(t, side)
           /\ \/ left[t] = n /\ Broadcast(side) /\ Return(t)
              \/ /\ left[t] > n
                 /\ waiting' = [waiting EXCEPT ![side] = {t}]
                 /\ pc' = [pc EXCEPT ![t] = "send_wait"]
                 /\ left' = [left EXCEPT ![t] = @ - n]
                 /\ UNCHANGED <<cur, flag>>
    /\ UNCHANGED <<fate, pending, freed, ref, spin, socks, sk, hostfd, ended>>

SendWake(t) ==
    /\ At(t, "send_wait")
    /\ t \notin waiting[Peer(t)]
    /\ Lock(t, Peer(t))
    /\ Goto(t, "send_check")
    /\ UNCHANGED <<fate, pending, freed, ref, spin, waiting, buf, socks, sk,
                   events, ended>>
-----------------------------------------------------------------------------
(* _connection_add: the spinlock first, then the mutex. *)

AddSpin(t) ==
    /\ At(t, "add_spin")
    /\ SpinFree
    /\ spin' = t
    /\ Goto(t, "add_mutex")
    /\ UNCHANGED <<fate, pending, freed, ref, mutex, waiting, buf, socks, sk,
                   events, ended>>

\* dup() adds to the count; accept() inherits the count that connect() set.
AddedCount_Always(t) == 1
AddedCount(t) == IF flag[t] THEN 1 ELSE 0

AddMutex(t) ==
    /\ At(t, "add_mutex")
    /\ mutex[MySide(t)] = None
    /\ \/ /\ Cardinality(socks[MySide(t)]) < MaxSocks
          /\ \E new \in Sock :
                /\ sk[new] = "unused" /\ SideOf(new) = MySide(t)
                /\ socks' = [socks EXCEPT ![MySide(t)] = @ \cup {new}]
                /\ sk' = [sk EXCEPT ![new] = "open"]
          /\ ref' = [ref EXCEPT ![MySide(t)] = @ + AddedCount(t)]
          /\ spin' = None
          /\ Return(t)
          /\ UNCHANGED fate
       \/ /\ Cardinality(socks[MySide(t)]) >= MaxSocks
          /\ fate' = "aborted"
          /\ UNCHANGED <<socks, ref, sk, spin, local>>
    /\ UNCHANGED <<pending, freed, mutex, waiting, buf, events, ended>>
-----------------------------------------------------------------------------
(* close: _connection_remove *)

\* What the closer does next is decided here and kept in its locals: flag is
\* is_other_zero, left is 0 if this was its side's last socket (is_zero).
CountAfterClose_Old(t) == ref[MySide(t)]
CountAfterClose(t) == ref[MySide(t)] - 1

CloseCount(t) ==
    /\ At(t, "close_count")
    /\ SpinFree
    /\ ref' = [ref EXCEPT ![MySide(t)] = @ - 1]
    /\ left' = [left EXCEPT ![t] = CountAfterClose(t)]
    /\ flag' = [flag EXCEPT ![t] = ref[Peer(t)] = 0]
    /\ sk' = [sk EXCEPT ![cur[t]] = "closed"]
    /\ pc' = [pc EXCEPT ![t] = "close_remove"]
    /\ UNCHANGED <<fate, pending, freed, spin, mutex, waiting, buf, socks,
                   events, ended, cur>>

UseAfterFree == /\ freed
                /\ fate' = "use_after_free"
                /\ UNCHANGED <<pending, freed, ref, spin, mutex, waiting, buf, socks,
                               sk, events, ended, local>>

\* Leave the array; free the connection if both sides are closed.
CloseRemove(t) ==
    /\ At(t, "close_remove")
    /\ \/ UseAfterFree
       \/ /\ ~freed
          /\ mutex[MySide(t)] = None
          /\ socks' = [socks EXCEPT ![MySide(t)] = @ \ {cur[t]}]
          /\ freed' = (left[t] = 0 /\ flag[t])
          /\ IF left[t] = 0 /\ ~flag[t] THEN Goto(t, "close_notify") ELSE Return(t)
          /\ UNCHANGED <<fate, pending, ref, spin, mutex, waiting, buf, sk,
                         events, ended>>

\* "notify other side of the connection"
CloseNotify_NoBroadcast(t) ==
    /\ At(t, "close_notify")
    /\ \/ UseAfterFree
       \/ /\ ~freed
          /\ mutex[Peer(t)] = None
          /\ UpdateEvents(Peer(t), TRUE)
          /\ Return(t)
          /\ UNCHANGED <<shared, hostfd, ended>>
CloseNotify(t) ==
    /\ At(t, "close_notify")
    /\ \/ UseAfterFree
       \/ /\ ~freed
          /\ mutex[Peer(t)] = None
          /\ Broadcast(Peer(t))
          /\ UpdateEvents(Peer(t), TRUE)
          /\ Return(t)
          /\ UNCHANGED <<fate, pending, freed, ref, spin, mutex, buf, socks, sk,
                         hostfd, ended>>

\* _free_boundsock, for this connection: the listener is closed before it was
\* accepted.  If the client is open, con is set to NULL and then its lock is
\* released; otherwise the connection is freed.
DropBacklog(t) ==
    /\ "drop" \in Calls
    /\ Idle(t)
    /\ pending /\ pending' = FALSE
    /\ SpinFree
    /\ \/ /\ ref["client"] > 0
          /\ fate' = "null_unlock"
          /\ ref' = [ref EXCEPT !["server"] = 0]
          /\ spin' = t
          /\ UNCHANGED freed
       \/ /\ ref["client"] = 0
          /\ freed' = TRUE
          /\ UNCHANGED <<fate, ref, spin>>
    /\ UNCHANGED <<mutex, waiting, buf, socks, sk, events, ended, local>>
-----------------------------------------------------------------------------
(* get_host_fd, called when the socket is first polled: it creates the      *)
(* eventfd and runs _update_events without the mutex, so other threads may  *)
(* get in between any two of its accesses.  Other threads' _update_events   *)
(* run under the mutex and are one step.                                    *)

PollCreate(t) ==
    /\ "poll" \in Calls
    /\ \E s \in Sock : /\ sk[s] = "open" /\ ~hostfd[s]
                       /\ Begin(t, s, "poll_signal", 0, buf[SideOf(s)] > 0)
                       /\ hostfd' = [hostfd EXCEPT ![s] = TRUE]
    /\ UNCHANGED <<shared, efd, notified, ended>>

PollSignal(t) ==
    /\ At(t, "poll_signal")
    /\ LET S == Pollable(MySide(t))
       IN  \/ /\ flag[t]
              /\ efd' = [s \in Sock |-> s \in S \/ efd[s]]
              /\ Goto(t, "poll_mark")
           \/ /\ ~flag[t]
              /\ IF \E s \in S : notified[s] THEN Goto(t, "poll_clear") ELSE Return(t)
              /\ UNCHANGED efd
    /\ UNCHANGED <<shared, hostfd, notified, ended>>

PollMark(t) ==
    /\ At(t, "poll_mark")
    /\ notified' = [s \in Sock |-> s \in Pollable(MySide(t)) \/ notified[s]]
    /\ Return(t)
    /\ UNCHANGED <<shared, hostfd, efd, ended>>

PollClear(t) ==
    /\ At(t, "poll_clear")
    /\ UpdateEvents(MySide(t), FALSE)
    /\ Return(t)
    /\ UNCHANGED <<shared, hostfd, ended>>
-----------------------------------------------------------------------------
\* connect() has succeeded and the connection is in the backlog.  The client
\* may already be registered with a poller: it then has an idle eventfd.
Init ==
    /\ fate = "running" /\ pending = TRUE /\ freed = FALSE
    /\ ref = [side \in Side |-> 1]
    /\ spin = None
    /\ mutex = [side \in Side |-> None]
    /\ waiting = [side \in Side |-> {}]
    /\ buf = [side \in Side |-> 0]
    /\ socks = [side \in Side |-> IF side = "client" THEN {First} ELSE {}]
    /\ sk = [s \in Sock |-> IF s = First THEN "open" ELSE "unused"]
    /\ \E polled \in BOOLEAN : hostfd = [s \in Sock |-> s = First /\ polled]
    /\ efd = [s \in Sock |-> FALSE]
    /\ notified = [s \in Sock |-> FALSE]
    /\ ended = [side \in Side |-> FALSE]
    /\ pc = [t \in Thread |-> "idle"]
    /\ cur = [t \in Thread |-> First]
    /\ left = [t \in Thread |-> 0]
    /\ flag = [t \in Thread |-> FALSE]

BeginCall(t) == \/ BeginRecv(t) \/ BeginSend(t) \/ BeginDup(t)
                \/ BeginAccept(t) \/ BeginClose(t) \/ PollCreate(t) \/ DropBacklog(t)

LockStep(t) == \/ RecvLock(t) \/ RecvCheck(t) \/ RecvWake(t)
               \/ SendLock(t) \/ SendCheck(t) \/ SendWake(t)
               \/ AddSpin(t) \/ AddMutex(t)
               \/ CloseCount(t) \/ CloseRemove(t) \/ CloseNotify(t)

OwnStep(t) == \/ RecvRead(t) \/ SendWrite(t)
              \/ PollSignal(t) \/ PollMark(t) \/ PollClear(t)

Next == \E t \in Thread : BeginCall(t) \/ LockStep(t) \/ OwnStep(t)

Spec == Init /\ [][Next]_vars

\* A thread that can run does, and a lock that is released again and again is
\* eventually obtained: OE mutexes queue their waiters, and no spinlock section
\* is longer than the few instructions of a step.  No call is ever made.
Fairness == \A t \in Thread : WF_vars(OwnStep(t)) /\ SF_vars(LockStep(t))

FairSpec == Spec /\ Fairness
-----------------------------------------------------------------------------
(* Properties *)

Labels == {"idle", "recv_lock", "recv_read", "recv_check", "recv_wait",
           "send_lock", "send_check", "send_write", "send_wait",
           "add_spin", "add_mutex", "close_count", "close_remove", "close_notify",
           "poll_signal", "poll_mark", "poll_clear"}

TypeOK ==
    /\ fate \in {"running", "aborted", "null_unlock", "use_after_free"}
    /\ pending \in BOOLEAN /\ freed \in BOOLEAN
    /\ ref \in [Side -> Nat]
    /\ spin \in Thread \cup {None}
    /\ mutex \in [Side -> Thread \cup {None}]
    /\ waiting \in [Side -> SUBSET Thread]
    /\ buf \in [Side -> 0..Capacity]
    /\ socks \in [Side -> SUBSET Sock]
    /\ sk \in [Sock -> {"unused", "open", "closing", "closed"}]
    /\ hostfd \in [Sock -> BOOLEAN] /\ efd \in [Sock -> BOOLEAN]
    /\ notified \in [Sock -> BOOLEAN]
    /\ ended \in [Side -> BOOLEAN]
    /\ pc \in [Thread -> Labels] /\ cur \in [Thread -> Sock]
    /\ left \in [Thread -> Nat] /\ flag \in [Thread -> BOOLEAN]

\* The sockets that _connection_remove has not yet subtracted.
OpenSocks(side) == {s \in Sock : SideOf(s) = side /\ sk[s] \in {"open", "closing"}}

Accepting == \E t \in Thread : pc[t] \in {"add_spin", "add_mutex"} /\ ~flag[t]

\* A side's refcount is the number of its open sockets; the server's counts
\* the connection itself while nobody has accepted it (connect sets it to 1
\* ahead of the socket, accept adds the socket without counting it again).
RefcountsExact ==
    ~freed => \A side \in Side :
       ref[side] = Cardinality(OpenSocks(side))
                     + (IF side = "server" /\ (pending \/ Accepting) THEN 1 ELSE 0)

\* End of file is final: once a recv of a side has returned 0, no byte is in
\* its buffer and no socket of the other side is left to write one.
EofIsFinal == \A side \in Side : ended[side] => buf[side] = 0 /\ ref[Other(side)] = 0

\* Whatever the threads of both sides do, the connection is a pair of stream
\* sockets: a side that is closed stays closed although sockets are dup()ed and
\* accepted meanwhile, only open sides send, nothing is lost or overflows, and
\* recv returns 0 only when the other side is closed and everything it has sent
\* has been received, although recvfrom looks at the buffer and then at the
\* count, and senders and closers of the other side run in between.
Stream == INSTANCE StreamSockets WITH open <- [side \in Side |-> ref[side] > 0],
                                      transit <- buf, eof <- ended
ImplementsStream == Stream!Spec

\* Nobody sleeps through what it waits for.  A sleeping receiver's buffer is
\* empty, and the other side is open or its last closer has still to wake it;
\* a sleeping sender's buffer is full.
WillNotify(u, side) == /\ pc[u] \in {"close_remove", "close_notify"}
                       /\ MySide(u) = side /\ left[u] = 0

NoLostWakeup ==
    Running => \A t \in Thread :
       /\ pc[t] = "recv_wait" /\ t \in waiting[MySide(t)] =>
             /\ buf[MySide(t)] = 0
             /\ ref[Peer(t)] > 0 \/ \E u \in Thread : WillNotify(u, Peer(t))
       /\ pc[t] = "send_wait" /\ t \in waiting[Peer(t)] => buf[Peer(t)] = Capacity

\* The last of the sockets of both sides to be closed frees the connection,
\* however the closers interleave.
NoLeak ==
    /\ Running /\ ~pending
    /\ \A t \in Thread : pc[t] = "idle"
    /\ \A s \in Sock : sk[s] \in {"unused", "closed"}
    => freed

\* Whenever no thread is inside the buffer, an eventfd is readable if the
\* buffer has data, and event_notified tells whether it is readable.  A poller
\* that waits on the eventfd does not miss data, and _update_events never
\* blocks in reading it.
EventsCoherent ==
    \A s \in Sock :
       Running /\ s \in socks[SideOf(s)] /\ hostfd[s] /\ mutex[SideOf(s)] = None =>
          /\ efd[s] = notified[s]
          /\ buf[SideOf(s)] > 0 => efd[s]

\* "Updates the eventfds of the sockets associated with this buffer so that
\* threads waiting on these sockets wake up if data is available to read"
\* (internalsock.c:160): once nobody is inside the buffer or registering it, the
\* eventfd is readable if there is data, whenever the poller has come.
\* Violated: get_host_fd calls _update_events without the mutex.
PollerSeesData ==
    \A s \in Sock :
       /\ Running /\ s \in socks[SideOf(s)] /\ hostfd[s] /\ mutex[SideOf(s)] = None
       /\ \A t \in Thread : pc[t] \notin {"poll_signal", "poll_mark", "poll_clear"}
       => (buf[SideOf(s)] > 0 => efd[s])

\* A dup() or accept() holds the spinlock and waits for a mutex whose owner
\* waits for the spinlock (see AddCompletes).
LockCycle == \E t, u \in Thread : /\ pc[t] = "add_mutex" /\ mutex[MySide(t)] = u
                                 /\ pc[u] \in {"recv_check", "send_check"}

\* A receiver whose other side has been closed returns, with data or with end
\* of file, also if it was asleep.
ReceiverReturns ==
    \A t \in Thread :
       (At(t, "recv_wait") /\ ref[Peer(t)] = 0)
          ~> (pc[t] = "idle" \/ ~Running \/ LockCycle)
-----------------------------------------------------------------------------
(* A statement of the source that the code does not live up to. *)

\* "Adds the socket to the connection's sockets array" (_connection_add): a
\* dup() or accept() that holds the spinlock obtains the mutex.
AddCompletes == \A t \in Thread : At(t, "add_mutex") ~> ~At(t, "add_mutex")
=============================================================================
