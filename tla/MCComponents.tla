----------------------------- MODULE MCComponents -----------------------------
(***************************************************************************)
(* Five components that share no state, each explored by itself while the  *)
(* others stay as they are: a ring buffer, the heap, the clock, the signal *)
(* actions and the limits of a resource.                                   *)
(***************************************************************************)
EXTENDS RingBuffer, Mman, Clock, SignalManager, ResourceLimits, TLC

VARIABLE component \* the one that is explored

allVars == <<component, vars, heapVars, clockVars, signalVars, limitVars>>

CONSTANTS t1, t2
Threads == {t1, t2}
Symmetry == Permutations(Threads)

\* A four byte buffer, requests from zero to one byte more than it holds.
MCByte == {0, 1}
MCOpSizes == 0..5

MCLimit == [cur |-> 0, max |-> 2]

\* The initial state of those that are not explored is one of theirs.
ComponentsInit ==
    /\ component \in {"ring", "heap", "clock", "signals", "limits"}
    /\ Init /\ HeapInit /\ ClockInit /\ SignalInit /\ LimitsInit
    /\ component # "heap" => fullSize = CHOOSE pages \in HeapPages : TRUE
    /\ component # "signals" => enabled

ComponentsNext ==
    /\ UNCHANGED component
    /\ \/ /\ component = "ring" /\ Next
          /\ UNCHANGED <<heapVars, clockVars, signalVars, limitVars>>
       \/ /\ component = "heap" /\ HeapNext
          /\ UNCHANGED <<vars, clockVars, signalVars, limitVars>>
       \/ /\ component = "clock" /\ ClockNext
          /\ UNCHANGED <<vars, heapVars, signalVars, limitVars>>
       \/ /\ component = "signals" /\ SignalNext
          /\ UNCHANGED <<vars, heapVars, clockVars, limitVars>>
       \/ /\ component = "limits" /\ LimitsNext
          /\ UNCHANGED <<vars, heapVars, clockVars, signalVars>>

ComponentsSpec == ComponentsInit /\ [][ComponentsNext]_allVars
=============================================================================
