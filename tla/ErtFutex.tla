------------------------------- MODULE ErtFutex -------------------------------
(***************************************************************************)
(* src/ert/libc/ertfutex.c and src/ert/host/core.c: futex(2) for the libc  *)
(* of the enclave.  The enclave keeps the list of waiting threads under a  *)
(* spinlock; each critical section is one step.  A waiting thread sleeps   *)
(* in an ocall on the host's event counter of its TCS, which outlives the  *)
(* call: 0 nothing has happened, -1 the thread waits, 1 and more wake-ups  *)
(* that no wait has consumed yet.                                          *)
(***************************************************************************)
EXTENDS Integers, FiniteSets, Sequences, Lists

CONSTANTS Thread,   \* the threads of the enclave, one TCS each
          Addr,     \* futex words
          MaxWake,  \* max of _wake: 128
          Waiter,   \* bound: the threads that wait
          Waker,    \* bound: the threads that change words, wake and cancel
          Canceled, \* bound: the threads that pthread_cancel may be called on
          Timed,    \* bound: the threads whose waits have a timeout
          None

ASSUME FutexAssumption ==
    /\ IsFiniteSet(Thread) /\ MaxWake \in Nat \ {0} /\ Canceled \subseteq Thread /\ None \notin Addr

VARIABLES
    word,      \* the program's futex words
    list,      \* _front.._back: the info_t of the waiting threads
    event,     \* thread -> EnclaveEvent.value of its TCS
    pc,        \* thread -> where it is
    val,       \* history: what a waiting thread expected of the word, None
               \* if it does not wait or a requeue has moved it to another word
    uaddr,     \* thread -> the word of its call
    timedout,  \* thread -> its last ocall returned ETIMEDOUT
    tcs,       \* thread -> the threads that its wake has still to wake
    cancel,    \* thread -> ert_thread_t.cancel
    popped     \* history: a wake has taken the thread off the list

call == <<val, uaddr, timedout>>
vars == <<word, list, event, pc, call, tcs, cancel, popped>>

At(t, label) == pc[t] = label
Goto(t, label) == pc' = [pc EXCEPT ![t] = label]
Info(t, a) == [thread |-> t, uaddr |-> a]
Listed(t) == \E i \in DOMAIN list : list[i].thread = t
WaitingOn(t, a) == \E i \in DOMAIN list : list[i] = Info(t, a)
\* The call ends: _thread.uaddr = NULL, and its locals are gone.
Forget(t) ==
    /\ popped' = [popped EXCEPT ![t] = FALSE]
    /\ uaddr' = [uaddr EXCEPT ![t] = None]
    /\ val' = [val EXCEPT ![t] = None]
    /\ timedout' = [timedout EXCEPT ![t] = FALSE]
Without(l, T) == Filter(l, [thread : Thread \ T, uaddr : Addr])
-----------------------------------------------------------------------------
(* The program: it changes a word and then wakes those who wait for that.   *)

Change(t) ==
    /\ At(t, "idle")
    /\ \E a \in Addr : /\ word' = [word EXCEPT ![a] = 1 - @]
                       /\ uaddr' = [uaddr EXCEPT ![t] = a]
    /\ Goto(t, "changed")
    /\ UNCHANGED <<list, event, val, timedout, tcs, cancel, popped>>
-----------------------------------------------------------------------------
(* _wait *)

\* Under the spinlock: the thread is listed if the word has the value it expects;
\* otherwise the call returns EWOULDBLOCK and nothing changes.
Wait_NoCompare(t) ==
    /\ At(t, "idle")
    /\ \E a \in Addr, v \in {0, 1} :
          /\ list' = Append(list, Info(t, a))
          /\ val' = [val EXCEPT ![t] = v]
          /\ uaddr' = [uaddr EXCEPT ![t] = a]
    /\ Goto(t, "ocall")
    /\ UNCHANGED <<word, event, timedout, tcs, cancel, popped>>
Wait(t) ==
    /\ At(t, "idle")
    /\ \E a \in Addr :
          /\ list' = Append(list, Info(t, a))
          /\ val' = [val EXCEPT ![t] = word[a]]
          /\ uaddr' = [uaddr EXCEPT ![t] = a]
    /\ Goto(t, "ocall")
    /\ UNCHANGED <<word, event, timedout, tcs, cancel, popped>>

\* oe_sgx_thread_timedwait_ocall: fetch_and_add(-1).  A wake-up that was there
\* already is consumed and the ocall returns.
OcallEnter(t) ==
    /\ At(t, "ocall")
    /\ event' = [event EXCEPT ![t] = @ - 1]
    /\ Goto(t, IF event[t] = 0 THEN "host_wait" ELSE "back")
    /\ UNCHANGED <<word, list, call, tcs, cancel, popped>>

\* FUTEX_WAIT sleeps if the counter is still -1.
HostWait_Blindly(t) ==
    /\ At(t, "host_wait")
    /\ Goto(t, "asleep")
    /\ UNCHANGED <<word, list, event, call, tcs, cancel, popped>>
HostWait(t) ==
    /\ At(t, "host_wait")
    /\ Goto(t, IF event[t] = -1 THEN "asleep" ELSE "back")
    /\ UNCHANGED <<word, list, event, call, tcs, cancel, popped>>

\* The sleep has timed out; a wake-up may come before the counter is restored.
HostTimeout(t) ==
    /\ At(t, "asleep") /\ t \in Timed
    /\ Goto(t, "host_timeout")
    /\ UNCHANGED <<word, list, event, call, tcs, cancel, popped>>

HostRestore_Missing(t) ==
    /\ At(t, "host_timeout")
    /\ timedout' = [timedout EXCEPT ![t] = TRUE]
    /\ Goto(t, "back")
    /\ UNCHANGED <<word, list, event, val, uaddr, tcs, cancel, popped>>
HostRestore(t) ==
    /\ At(t, "host_timeout")
    /\ event' = [event EXCEPT ![t] = @ + 1]
    /\ timedout' = [timedout EXCEPT ![t] = TRUE]
    /\ Goto(t, "back")
    /\ UNCHANGED <<word, list, val, uaddr, tcs, cancel, popped>>

\* The ocall has returned to the enclave: pthread_testcancel, then the
\* spinlock again.
Return(t) == Goto(t, "idle") /\ Forget(t)

Back_LeavesListed(t) ==
    /\ At(t, "back") /\ ~cancel[t]
    /\ \/ timedout[t] /\ Return(t)
       \/ ~timedout[t] /\ ~Listed(t) /\ Return(t)
       \/ /\ ~timedout[t] /\ Listed(t)
          /\ Goto(t, "ocall")
          /\ UNCHANGED <<call, popped>>
    /\ UNCHANGED <<word, list, event, tcs, cancel>>
Back_NoLoop(t) ==
    /\ At(t, "back") /\ ~cancel[t]
    /\ list' = Without(list, {t})
    /\ Return(t)
    /\ UNCHANGED <<word, event, tcs, cancel>>
Back(t) ==
    /\ At(t, "back") /\ ~cancel[t]
    /\ \/ /\ timedout[t]
          /\ list' = Without(list, {t})
          /\ Return(t)
       \/ /\ ~timedout[t] /\ ~Listed(t)
          /\ Return(t)
          /\ UNCHANGED list
       \/ /\ ~timedout[t] /\ Listed(t)
          /\ Goto(t, "ocall")
          /\ UNCHANGED <<list, call, popped>>
    /\ UNCHANGED <<word, event, tcs, cancel>>

\* ert_futex_remove_tcs and pthread_exit.
BackCanceled(t) ==
    /\ At(t, "back") /\ cancel[t]
    /\ list' = Without(list, {t})
    /\ Goto(t, "ended") /\ Forget(t)
    /\ UNCHANGED <<word, event, tcs, cancel>>
-----------------------------------------------------------------------------
(* _wake *)

\* The first n waiters on a, at most MaxWake.
Waiters(a, n) ==
    LET waiting == Filter(list, [thread : Thread, uaddr : {a}])
        most == IF n < MaxWake THEN n ELSE MaxWake
    IN  IF Len(waiting) <= most THEN waiting ELSE SubSeq(waiting, 1, most)

\* Takes them off the list and moves the others to a2, if there is an a2.
Wake(t, a, n, a2) ==
    \E waiters \in {Waiters(a, n)} :
       LET woken == {waiters[i].thread : i \in DOMAIN waiters}
           rest == Without(list, woken)
       IN  /\ list' = IF a = a2 THEN rest
                      ELSE [i \in DOMAIN rest |->
                               IF rest[i].uaddr = a THEN Info(rest[i].thread, a2) ELSE rest[i]]
           /\ popped' = [u \in Thread |-> popped[u] \/ u \in woken]
           /\ tcs' = [tcs EXCEPT ![t] = [i \in DOMAIN waiters |-> waiters[i].thread]]
           /\ Goto(t, IF waiters = <<>> THEN "idle" ELSE "wake_add")
           /\ uaddr' = [uaddr EXCEPT ![t] = None]
           /\ val' = [u \in Thread |-> IF a # a2 /\ WaitingOn(u, a) /\ u \notin woken
                                       THEN None ELSE val[u]]
           /\ UNCHANGED <<word, event, timedout, cancel>>

WakeAll(t) == At(t, "changed") /\ Wake(t, uaddr[t], Cardinality(Thread), uaddr[t])
WakeOne(t) == At(t, "idle") /\ \E a \in Addr : Wake(t, a, 1, a)
\* As the condition variables of musl call it: nobody is woken.
Requeue(t) ==
    /\ At(t, "idle")
    /\ \E a, a2 \in Addr : a # a2 /\ Wake(t, a, 0, a2)

\* pthread_testcancel is also the end of this ocall.
AfterWake(t) == IF Len(tcs[t]) > 1 THEN "wake_add"
                ELSE IF cancel[t] THEN "ended" ELSE "idle"

\* oe_sgx_thread_wake_multiple_ocall: fetch_and_add(1), and FUTEX_WAKE if the
\* counter was not 0.
WakeAdd(t) ==
    /\ At(t, "wake_add")
    /\ LET u == Head(tcs[t])
       IN  /\ event' = [event EXCEPT ![u] = @ + 1]
           /\ \/ /\ event[u] # 0
                 /\ Goto(t, "wake_syscall")
                 /\ UNCHANGED tcs
              \/ /\ event[u] = 0
                 /\ tcs' = [tcs EXCEPT ![t] = Tail(@)]
                 /\ Goto(t, AfterWake(t))
    /\ UNCHANGED <<word, list, call, cancel, popped>>

\* The sleeper goes back to sleep if the counter is -1: a wake-up that was
\* meant for an earlier sleep.
WakeSyscall(t) ==
    /\ At(t, "wake_syscall")
    /\ LET u == Head(tcs[t])
       IN  pc' = [v \in Thread |-> IF v = t THEN AfterWake(t)
                                   ELSE IF v = u /\ At(v, "asleep") THEN "host_check" ELSE pc[v]]
    /\ tcs' = [tcs EXCEPT ![t] = Tail(@)]
    /\ UNCHANGED <<word, list, event, call, cancel, popped>>

HostCheck(t) ==
    /\ At(t, "host_check")
    /\ Goto(t, IF event[t] = -1 THEN "host_wait" ELSE "back")
    /\ UNCHANGED <<word, list, event, call, tcs, cancel, popped>>

\* pthread_cancel: the flag, then ert_futex_wake_tcs.
Cancel(t) ==
    /\ At(t, "idle")
    /\ \E u \in Canceled \ {t} :
          /\ ~cancel[u]
          /\ cancel' = [cancel EXCEPT ![u] = TRUE]
          /\ tcs' = [tcs EXCEPT ![t] = <<u>>]
    /\ Goto(t, "wake_add")
    /\ UNCHANGED <<word, list, event, call, popped>>
-----------------------------------------------------------------------------
Init ==
    /\ word = [a \in Addr |-> 0]
    /\ list = <<>>
    /\ event = [t \in Thread |-> 0]
    /\ pc = [t \in Thread |-> "idle"]
    /\ val = [t \in Thread |-> None]
    /\ uaddr = [t \in Thread |-> None]
    /\ timedout = [t \in Thread |-> FALSE]
    /\ tcs = [t \in Thread |-> <<>>]
    /\ cancel = [t \in Thread |-> FALSE]
    /\ popped = [t \in Thread |-> FALSE]

Begin(t) == \/ t \in Waiter /\ Wait(t)
            \/ t \in Waker /\ (Change(t) \/ WakeOne(t) \/ Requeue(t) \/ Cancel(t))
Step(t) == \/ OcallEnter(t) \/ HostWait(t) \/ HostTimeout(t) \/ HostRestore(t)
           \/ HostCheck(t) \/ Back(t) \/ BackCanceled(t)
           \/ WakeAll(t) \/ WakeAdd(t) \/ WakeSyscall(t)

Next == \E t \in Thread : Begin(t) \/ Step(t)

Spec == Init /\ [][Next]_vars

\* A thread that is not asleep runs; a timeout expires.
FairSpec == Spec /\ \A t \in Thread : WF_vars(Step(t))
-----------------------------------------------------------------------------
(* Properties *)

Sleeping == {"host_wait", "asleep", "host_check", "host_timeout"}
InWait == Sleeping \cup {"ocall", "back"}

\* Types; the counter is -1 only while its thread waits on the host, so that
\* the next wait starts from 0 or from a wake-up.
TypeOK ==
    /\ word \in [Addr -> {0, 1}]
    /\ list \in Seq([thread : Thread, uaddr : Addr])
    /\ event \in [Thread -> Int]
    /\ \A t \in Thread : event[t] >= (IF pc[t] \in Sleeping THEN -1 ELSE 0)
    /\ pc \in [Thread -> InWait \cup {"idle", "changed", "wake_add", "wake_syscall", "ended"}]
    /\ val \in [Thread -> {0, 1, None}] /\ uaddr \in [Thread -> Addr \cup {None}]
    /\ timedout \in [Thread -> BOOLEAN]
    /\ tcs \in [Thread -> Seq(Thread)]
    /\ cancel \in [Thread -> BOOLEAN] /\ popped \in [Thread -> BOOLEAN]

\* The list holds each thread at most once, and exactly the threads that are in
\* _wait and that no wake has taken off: no info_t of a thread that has left
\* _wait, by a wake-up, a timeout or a cancelation, stays linked.
ListExact ==
    /\ \A i, j \in DOMAIN list : list[i].thread = list[j].thread => i = j
    /\ \A t \in Thread : Listed(t) <=> pc[t] \in InWait /\ ~popped[t]

\* A thread that a wake has taken off the list does not sleep on, unless the
\* waker is still about to wake it.
NoLostWakeup ==
    \A t \in Thread :
       pc[t] = "asleep" /\ popped[t]
          => \E u \in Thread : \E i \in DOMAIN tcs[u] : tcs[u][i] = t

\* Nobody waits for a word to change that has already changed, unless who
\* changed it is still about to wake the waiters.  (A requeued thread waits for
\* what the other word is woken for.)
NoMissedChange ==
    \A i \in DOMAIN list :
       LET a == list[i].uaddr
       IN  val[list[i].thread] \notin {None, word[a]}
              => \E u \in Thread : pc[u] = "changed" /\ uaddr[u] = a

\* The list in the enclave and the counters on the host are together a futex:
\* a call returns 0 only to a thread that a wake has chosen, so that stale
\* wake-ups of the counter are not seen; a wake takes as many as it is asked for
\* of those on its word and leaves the others where they are, or requeues them;
\* only a timeout or a cancelation ends a wait otherwise.
WaitsOn(t) == LET entries == {i \in DOMAIN list : list[i].thread = t}
              IN  IF entries = {} THEN None ELSE list[CHOOSE i \in entries : TRUE].uaddr

Abstract == INSTANCE Futex WITH waiting <- [t \in Thread |-> WaitsOn(t)],
                               woken <- {t \in Thread : popped[t]},
                               late <- {t \in Thread : timedout[t]},
                               canceled <- {t \in Thread : cancel[t]}
ImplementsFutex == Abstract!Spec

\* A thread that has been woken, whose wait has a timeout or that has been
\* canceled returns or ends.
WaitReturns ==
    \A t \in Waiter :
       pc[t] \in InWait /\ (popped[t] \/ t \in Timed \/ cancel[t])
          ~> pc[t] \in {"idle", "ended"}
=============================================================================
