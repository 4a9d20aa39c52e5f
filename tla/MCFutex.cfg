SPECIFICATION FairSpec
CONSTANTS
  t1 = t1
  t2 = t2
  t3 = t3
  a1 = a1
  a2 = a2
  None = None
  Thread <- ThreeThreads
  Addr <- TwoWords
  MaxWake = 2
  Waiter <- TwoThreads
  Waker <- OneWaker
  Canceled <- OneCanceled
  Timed <- OneTimed
INVARIANTS ListExact NoLostWakeup NoMissedChange
PROPERTIES ImplementsFutex WaitReturns
