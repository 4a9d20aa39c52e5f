SPECIFICATION FairSpec
CONSTANTS
  main = main
  w1 = w1
  w2 = w2
  p1 = p1
  p2 = p2
  p3 = p3
  p4 = p4
  None = None
  Main <- main
  Worker <- TwoWorkers
  Pthread <- FourPthreads
  Calls <- All
INVARIANTS NotCanceledInEnclave NoneOutlives AssignedBeforeJoined CreatorServed
PROPERTIES JoinAtExitReturns CancelReturnsOrCycle
CHECK_DEADLOCK FALSE
