--------------------------- MODULE MCSockListener ---------------------------
(* Two sockets that compete for a port, two clients, three threads. *)
EXTENDS SockListener

CONSTANTS t1, t2, t3, l1, l2, c1, c2

ThreeThreads == {t1, t2, t3}
TwoListeners == {l1, l2}
OnePolled == {l1}
TwoConns == {c1, c2}
OnePort == {1024}
ServerCalls == {"accept", "close"}
=============================================================================
