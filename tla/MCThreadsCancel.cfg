SPECIFICATION FairSpec
CONSTANTS
  main = main
  w1 = w1
  w2 = w2
  None = None
  Main <- main
  Worker <- TwoWorkers
  Calls <- Cancel
PROPERTY CancelReturns
CHECK_DEADLOCK FALSE
