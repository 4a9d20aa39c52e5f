----------------------------- MODULE StreamSockets -----------------------------
(***************************************************************************)
(* What a pair of connected stream sockets promises: bytes that are sent   *)
(* arrive, once, as long as somebody receives; end of file means that the  *)
(* other side is closed and that everything it has sent has been received. *)
(* Which bytes these are is BoundedFifo's matter.                          *)
(***************************************************************************)
EXTENDS Naturals

CONSTANT Capacity

VARIABLES open,    \* side -> it has a socket, or may yet be accepted
          transit, \* side -> how many bytes sent to it have not been received
          eof      \* side -> it has been told end of file
vars == <<open, transit, eof>>

Side == {"client", "server"}
Other(side) == IF side = "client" THEN "server" ELSE "client"

Transmit(side, n) == /\ open[Other(side)] /\ ~eof[side]
                     /\ transit[side] + n <= Capacity
                     /\ transit' = [transit EXCEPT ![side] = @ + n]
                     /\ UNCHANGED <<open, eof>>

Receive(side, n) == /\ n <= transit[side]
                    /\ transit' = [transit EXCEPT ![side] = @ - n]
                    /\ UNCHANGED <<open, eof>>

EndOfFile(side) == /\ ~open[Other(side)] /\ transit[side] = 0
                   /\ eof' = [eof EXCEPT ![side] = TRUE]
                   /\ UNCHANGED <<open, transit>>

Close(side) == /\ open[side]
               /\ open' = [open EXCEPT ![side] = FALSE]
               /\ UNCHANGED <<transit, eof>>

Init == /\ open = [side \in Side |-> TRUE]
        /\ transit = [side \in Side |-> 0]
        /\ eof = [side \in Side |-> FALSE]

Next == \E side \in Side : \/ \E n \in 1..Capacity : Transmit(side, n) \/ Receive(side, n)
                           \/ EndOfFile(side) \/ Close(side)

Spec == Init /\ [][Next]_vars
=============================================================================
