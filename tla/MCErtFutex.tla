----------------------------- MODULE MCErtFutex -----------------------------
(* Three threads that wait and wake each other on two words. *)
EXTENDS ErtFutex

CONSTANTS t1, t2, t3, a1, a2

TwoThreads == {t1, t2}
ThreeThreads == {t1, t2, t3}
OneWord == {a1}
TwoWords == {a1, a2}
OneTimed == {t1}
OneCanceled == {t2}
OneWaker == {t3}
=============================================================================
