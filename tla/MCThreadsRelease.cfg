SPECIFICATION EnclaveSpec
CONSTANTS
  main = main
  w1 = w1
  w2 = w2
  w3 = w3
  p1 = p1
  p2 = p2
  p3 = p3
  None = None
  Main <- main
  Worker <- ThreeWorkers
  Pthread <- ThreePthreads
INVARIANT ReleasedAfterJoin
CHECK_DEADLOCK FALSE
