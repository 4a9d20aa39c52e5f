--------------------------------- MODULE Futex ---------------------------------
(***************************************************************************)
(* What futex(2) promises its callers: a thread that waits on a word goes  *)
(* on if a wake of that word, or of the one it has been requeued to, has   *)
(* chosen it, if its timeout has expired, or if it is canceled, and for no *)
(* other reason; a wake chooses as many as it is asked for.                *)
(***************************************************************************)
EXTENDS Naturals, FiniteSets

CONSTANTS Thread, Addr, MaxWake, None

VARIABLES waiting,  \* thread -> the word it waits on, or None
          woken,    \* the threads that a wake has chosen and that have not returned
          late,     \* those whose timeout has expired
          canceled  \* those that are to end
vars == <<waiting, woken, late, canceled>>

On(a) == {t \in Thread : waiting[t] = a}

Wait(t, a) == /\ waiting[t] = None /\ t \notin woken
              /\ waiting' = [waiting EXCEPT ![t] = a]
              /\ UNCHANGED <<woken, late, canceled>>

\* n of those on a are chosen, or all if they are fewer; the others wait on a2 from now on.
Wake(a, n, a2) ==
    \E W \in SUBSET On(a) :
       /\ Cardinality(W) = n \/ (W = On(a) /\ Cardinality(W) < n)
       /\ waiting' = [t \in Thread |-> IF t \in W THEN None
                                       ELSE IF t \in On(a) THEN a2 ELSE waiting[t]]
       /\ woken' = woken \cup W
       /\ UNCHANGED <<late, canceled>>

Timeout(t) == /\ waiting[t] # None \/ t \in woken
              /\ late' = late \cup {t}
              /\ UNCHANGED <<waiting, woken, canceled>>

Cancel(t) == /\ canceled' = canceled \cup {t}
             /\ UNCHANGED <<waiting, woken, late>>

Return(t) == /\ t \in woken
             /\ woken' = woken \ {t}
             /\ UNCHANGED <<waiting, late, canceled>>

GiveUp(t) == /\ t \in late \cup canceled
             /\ waiting[t] # None \/ t \in woken
             /\ waiting' = [waiting EXCEPT ![t] = None]
             /\ woken' = woken \ {t} /\ late' = late \ {t}
             /\ UNCHANGED canceled

Init == /\ waiting = [t \in Thread |-> None]
        /\ woken = {} /\ late = {} /\ canceled = {}

Next == \/ \E t \in Thread : \/ \E a \in Addr : Wait(t, a)
                             \/ Timeout(t) \/ Cancel(t) \/ Return(t) \/ GiveUp(t)
        \/ \E a, a2 \in Addr : \E n \in 0..MaxWake : Wake(a, n, a2)

Spec == Init /\ [][Next]_vars
=============================================================================
