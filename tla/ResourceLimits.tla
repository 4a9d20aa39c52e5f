---------------------------- MODULE ResourceLimits ----------------------------
(***************************************************************************)
(* ertlibc/resource.cpp: prlimit, which is also getrlimit and setrlimit,   *)
(* for one resource.  All of it but the checks of the arguments runs under *)
(* a spinlock.  The limits are not enforced by anything.                   *)
(***************************************************************************)
EXTENDS Callers, Naturals

CONSTANTS InitialLimit,  \* of the resource, see _get_initial_limits
          MaxLimit       \* bound: the values of limits are 0..MaxLimit

Limit == [cur : 0..MaxLimit, max : 0..MaxLimit]
ASSUME LimitAssumption == /\ MaxLimit \in Nat
                          /\ InitialLimit \in Limit /\ InitialLimit.cur <= InitialLimit.max

VARIABLES limit,       \* limits[resource]
          limitsLock,  \* spinlock
          request,     \* the call of each thread
          asked        \* history: the hard limits that calls have set

limitVars == <<limit, limitsLock, request, asked>>

\* old: what *old_limit has been set to
NoRequest == [step |-> "idle", new |-> None, old |-> None]

Prlimit(t, new) ==
    /\ request[t].step \in {"idle", "returned"}
    /\ request' = [request EXCEPT ![t] = [step |-> "lock", new |-> new, old |-> None]]
    /\ UNCHANGED <<limit, limitsLock, asked>>

LockLimits_Not(t) ==
    /\ request[t].step = "lock"
    /\ request' = [request EXCEPT ![t].step = "get"]
    /\ UNCHANGED <<limit, limitsLock, asked>>
LockLimits(t) ==
    /\ request[t].step = "lock" /\ limitsLock = None
    /\ limitsLock' = t
    /\ request' = [request EXCEPT ![t].step = "get"]
    /\ UNCHANGED <<limit, asked>>

GetLimit(t) ==
    /\ request[t].step = "get"
    /\ request' = [request EXCEPT ![t] = [step |-> "check", new |-> @.new, old |-> limit]]
    /\ UNCHANGED <<limit, limitsLock, asked>>

\* EINVAL, EPERM, or the new limit is set in the next step.
Allowed(new, hard) == new.cur <= new.max /\ new.max <= hard
CheckLimit(t) ==
    /\ request[t].step = "check"
    /\ IF request[t].new # None /\ Allowed(request[t].new, limit.max)
       THEN request' = [request EXCEPT ![t].step = "set"] /\ UNCHANGED limitsLock
       ELSE request' = [request EXCEPT ![t].step = "returned"] /\ limitsLock' = None
    /\ UNCHANGED <<limit, asked>>

SetLimit(t) ==
    /\ request[t].step = "set"
    /\ limit' = request[t].new
    /\ limitsLock' = None
    /\ request' = [request EXCEPT ![t].step = "returned"]
    /\ asked' = asked \cup {request[t].new.max}

LimitsInit == /\ limit = InitialLimit /\ limitsLock = None
              /\ request = [t \in Thread |-> NoRequest] /\ asked = {}

PrlimitStep(t) == LockLimits(t) \/ GetLimit(t) \/ CheckLimit(t) \/ SetLimit(t)

LimitsNext == \E t \in Thread : (\E new \in Limit \cup {None} : Prlimit(t, new)) \/ PrlimitStep(t)
-----------------------------------------------------------------------------
(* Properties *)

\* Concurrent calls never raise the hard limit: one that a thread has lowered stays lowered ("tried
\* to raise hard limit"), though another has compared with it before; and the soft limit stays
\* below it.
HardLimitKept ==
    /\ \A hard \in asked : limit.max <= hard
    /\ limit.cur <= limit.max
=============================================================================
