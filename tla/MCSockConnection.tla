-------------------------- MODULE MCSockConnection --------------------------
(* A client with a dup(), the accepted server socket, and its threads. *)
EXTENDS SockConnection, TLC

CONSTANTS t1, t2, t3, c1, c2, s1

TwoThreads == {t1, t2}
ThreeThreads == {t1, t2, t3}
OneClient == {c1}
TwoClients == {c1, c2}
OneServer == {s1}

StreamCalls == {"recv", "send", "accept", "close"}
SocketCalls == StreamCalls \cup {"dup", "drop"}
AllCalls == SocketCalls \cup {"poll"}

\* Threads are interchangeable; used with safety properties only.
ThreadSymmetry == Permutations(Thread)
=============================================================================
