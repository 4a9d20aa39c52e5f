--------------------------------- MODULE Clock ---------------------------------
(***************************************************************************)
(* ertlibc/time.cpp and ert/host/vdso.cpp: clock_gettime in the enclave.   *)
(* It reads the coarse timestamps that the host's kernel keeps in the vdso *)
(* data, under the kernel's sequence counter, or makes an ocall if these   *)
(* have not been found.  The monotonic clock is read and compared with the *)
(* last value under a spinlock, because the host may set it back.          *)
(*                                                                         *)
(* A time is a number of ticks; memory holds it as seconds and a rest.     *)
(* The kernel writes the same time for both clocks; other clocks, which    *)
(* always need the ocall, are left out.  Where a kernel keeps its          *)
(* timestamps elsewhere, what is there instead is not mistaken for a time  *)
(* within a second of the right one.                                       *)
(***************************************************************************)
EXTENDS Callers, Naturals

CONSTANTS PerSecond,   \* ticks per second
          MaxTime,     \* bound: the times that the kernel writes are 0..MaxTime
          MaxUpdates   \* bound: how often it writes

ASSUME ClockAssumption == /\ PerSecond \in Nat \ {0} /\ MaxTime \in Nat /\ MaxUpdates \in Nat
                          /\ None \notin 0..MaxTime

VARIABLES seq, sec, rest, \* external: the words of the vdso data
          pending,        \* external: the time that the kernel is writing, or None
          time,           \* external: the time it has written last
          once,           \* _init_clock_once
          found,          \* _clock_seq # NULL
          monotonicLock,  \* _monotonic_lock
          lastMonotonic,  \* last_monotonic
          reader,         \* the call of each thread
          shown,          \* history: the highest monotonic time that a call has returned
          written         \* history: the times that the kernel has written

kernelVars == <<seq, sec, rest, pending, time, written>>
clockVars == <<kernelVars, once, found, monotonicLock, lastMonotonic, reader, shown>>

\* seq, sec and rest are what the call has read. History: seen, the times the kernel has written
\* since the call began, and floor, what shown was then.
NoRead == [step |-> "idle", clock |-> None, seq |-> 0, sec |-> 0, rest |-> 0, seen |-> {},
           floor |-> 0]
Reading(t) == reader[t].step \notin {"idle", "returned"}
TimeRead(t) == reader[t].sec * PerSecond + reader[t].rest
Highest(a, b) == IF a > b THEN a ELSE b
IsMonotonic(t) == reader[t].clock = "monotonic"
-----------------------------------------------------------------------------
(* The kernel: it increments seq before and after it writes. *)

UpdateBegin(new) ==
    /\ pending = None /\ seq < 2 * MaxUpdates
    /\ seq' = seq + 1
    /\ pending' = new
    /\ UNCHANGED <<sec, rest, time, written, once, found, monotonicLock, lastMonotonic, reader, shown>>

UpdateSec ==
    /\ pending # None /\ sec # pending \div PerSecond
    /\ sec' = pending \div PerSecond
    /\ UNCHANGED <<seq, rest, pending, time, written, once, found, monotonicLock, lastMonotonic, reader, shown>>

UpdateRest ==
    /\ pending # None /\ rest # pending % PerSecond
    /\ rest' = pending % PerSecond
    /\ UNCHANGED <<seq, sec, pending, time, written, once, found, monotonicLock, lastMonotonic, reader, shown>>

UpdateEnd ==
    /\ pending # None /\ sec = pending \div PerSecond /\ rest = pending % PerSecond
    /\ seq' = seq + 1
    /\ pending' = None /\ time' = pending /\ written' = written \cup {pending}
    /\ reader' = [t \in Thread |-> IF Reading(t)
                     THEN [reader[t] EXCEPT !.seen = @ \cup {pending}] ELSE reader[t]]
    /\ UNCHANGED <<sec, rest, once, found, monotonicLock, lastMonotonic, shown>>
-----------------------------------------------------------------------------
(* _init_clock, run once. *)

Goto(t, step) == reader' = [reader EXCEPT ![t].step = step]

OnceBegin(t) == /\ reader[t].step = "once" /\ once = "no"
                /\ once' = "running"
                /\ Goto(t, "init")
                /\ UNCHANGED <<kernelVars, found, monotonicLock, lastMonotonic, shown>>

OnceDone == once' = "done" /\ UNCHANGED <<kernelVars, monotonicLock, lastMonotonic, shown>>

\* _get_clock_vdso_pointers: first the clock is read, for comparison ...
Reference(t) ==
    /\ reader[t].step = "init"
    /\ reader' = [reader EXCEPT ![t].step = "probe", ![t].sec = time \div PerSecond]
    /\ UNCHANGED <<kernelVars, once, found, monotonicLock, lastMonotonic, shown>>

\* ... then a layout is taken where the seconds differ by at most one, if there is one.
Near(a, b) == a <= b + 1 /\ b <= a + 1
Probe(t) == /\ reader[t].step = "probe"
            /\ found' = Near(sec, reader[t].sec)
            /\ Goto(t, "once")
            /\ OnceDone

\* The ocall fails, the kernel has another layout, or ERT_DISABLE_VDSO_CLOCK is set.
ProbeFails(t) == /\ reader[t].step = "init"
                 /\ found' = FALSE
                 /\ Goto(t, "once")
                 /\ OnceDone

OnceEnd(t) == /\ reader[t].step = "once" /\ once = "done"
              /\ Goto(t, IF IsMonotonic(t) THEN "lock" ELSE "read")
              /\ UNCHANGED <<kernelVars, once, found, monotonicLock, lastMonotonic, shown>>
-----------------------------------------------------------------------------
(* clock_gettime *)

ClockGettime(t, clock) ==
    /\ ~Reading(t)
    /\ reader' = [reader EXCEPT ![t] = [NoRead EXCEPT
          !.step = "once", !.clock = clock, !.seen = {time}, !.floor = shown]]
    /\ UNCHANGED <<kernelVars, once, found, monotonicLock, lastMonotonic, shown>>

LockMonotonic(t) == /\ reader[t].step = "lock" /\ monotonicLock = None
                    /\ monotonicLock' = t
                    /\ Goto(t, "read")
                    /\ UNCHANGED <<kernelVars, once, found, lastMonotonic, shown>>

ReadSeq(t) ==
    /\ reader[t].step = "read" /\ found
    /\ seq % 2 = 0
    /\ reader' = [reader EXCEPT ![t].step = "sec", ![t].seq = seq]
    /\ UNCHANGED <<kernelVars, once, found, monotonicLock, lastMonotonic, shown>>
ReadSec(t) ==
    /\ reader[t].step = "sec"
    /\ reader' = [reader EXCEPT ![t].step = "rest", ![t].sec = sec]
    /\ UNCHANGED <<kernelVars, once, found, monotonicLock, lastMonotonic, shown>>
ReadRest(t) ==
    /\ reader[t].step = "rest"
    /\ reader' = [reader EXCEPT ![t].step = "check", ![t].rest = rest]
    /\ UNCHANGED <<kernelVars, once, found, monotonicLock, lastMonotonic, shown>>

\* _ensure_monotonic_unlocked
Returned(t, ticks) == reader' = [reader EXCEPT ![t].step = "returned",
                          ![t].sec = ticks \div PerSecond, ![t].rest = ticks % PerSecond]
EnsureMonotonic_Forgets(t) ==
    /\ Returned(t, Highest(lastMonotonic, TimeRead(t)))
    /\ lastMonotonic' = TimeRead(t)
EnsureMonotonic(t) ==
    IF TimeRead(t) < lastMonotonic
    THEN Returned(t, lastMonotonic) /\ UNCHANGED lastMonotonic
    ELSE Returned(t, TimeRead(t)) /\ lastMonotonic' = TimeRead(t)

Give(t) ==
    IF IsMonotonic(t)
    THEN /\ EnsureMonotonic(t)
         /\ monotonicLock' = None
         /\ shown' = Highest(shown, TimeRead(t)')
    ELSE Returned(t, TimeRead(t)) /\ UNCHANGED <<lastMonotonic, monotonicLock, shown>>

\* The end of the loop: again if there has been an update.
ReadCheck_Once(t) == /\ reader[t].step = "check"
                     /\ Give(t)
                     /\ UNCHANGED <<kernelVars, once, found>>
ReadCheck(t) ==
    /\ reader[t].step = "check"
    /\ IF seq = reader[t].seq THEN Give(t)
       ELSE Goto(t, "read") /\ UNCHANGED <<lastMonotonic, monotonicLock, shown>>
    /\ UNCHANGED <<kernelVars, once, found>>

\* _clock_gettime: the host's clock_gettime, or nothing if the ocall fails.
Ocall(t) ==
    /\ reader[t].step = "read" /\ ~found
    /\ reader' = [reader EXCEPT ![t].step = "got", ![t].sec = time \div PerSecond,
                                ![t].rest = time % PerSecond]
    /\ UNCHANGED <<kernelVars, once, found, monotonicLock, lastMonotonic, shown>>
OcallReturn(t) == /\ reader[t].step = "got"
                  /\ Give(t)
                  /\ UNCHANGED <<kernelVars, once, found>>
OcallFails(t) ==
    /\ reader[t].step = "read" /\ ~found
    /\ reader' = [reader EXCEPT ![t] = NoRead]
    /\ monotonicLock' = IF IsMonotonic(t) THEN None ELSE monotonicLock
    /\ UNCHANGED <<kernelVars, once, found, lastMonotonic, shown>>
-----------------------------------------------------------------------------
ClockInit ==
    /\ seq = 0 /\ sec = 0 /\ rest = 0 /\ pending = None /\ time = 0 /\ written = {0}
    /\ once = "no" /\ found = FALSE /\ monotonicLock = None /\ lastMonotonic = 0 /\ shown = 0
    /\ reader = [t \in Thread |-> NoRead]

Kernel == (\E new \in (0..MaxTime) \ {time} : UpdateBegin(new)) \/ UpdateSec \/ UpdateRest \/ UpdateEnd

GettimeStep(t) ==
    \/ OnceBegin(t) \/ Reference(t) \/ Probe(t) \/ ProbeFails(t) \/ OnceEnd(t) \/ LockMonotonic(t)
    \/ ReadSeq(t) \/ ReadSec(t) \/ ReadRest(t) \/ ReadCheck(t)
    \/ Ocall(t) \/ OcallReturn(t) \/ OcallFails(t)

ClockNext == \/ Kernel
             \/ \E t \in Thread : \/ \E clock \in {"realtime", "monotonic"} : ClockGettime(t, clock)
                                  \/ GettimeStep(t)
-----------------------------------------------------------------------------
(* Properties *)

\* A time that is returned is one that the kernel has written as a whole, never the seconds of one
\* update with the rest of another. On CLOCK_REALTIME it has been written during the call, or as the
\* last before it. CLOCK_MONOTONIC may return an earlier time instead, because it never goes back,
\* for a thread or from one thread to another, even if the host's clock does: a call returns no less
\* than any call has returned before it began.
TimeRight ==
    \A t \in Thread : reader[t].step = "returned" =>
        IF IsMonotonic(t)
        THEN TimeRead(t) \in written /\ TimeRead(t) >= reader[t].floor
        ELSE TimeRead(t) \in reader[t].seen
=============================================================================
