SPECIFICATION ComponentsSpec
CONSTANTS
  Byte <- MCByte
  Capacity = 4
  OpSizes <- MCOpSizes
  UintptrBits = 3
  CharBit = 3
  PageSize = 2
  HeapPages = {2, 6, 7, 8, 9, 11}
  t1 = t1
  t2 = t2
  Thread <- Threads
  None = None
  PerSecond = 2
  MaxTime = 2
  MaxUpdates = 2
  Signal = {SIGSEGV, SIGUSR1}
  SIGSEGV = SIGSEGV
  MaxActions = 3
  InitialLimit <- MCLimit
  MaxLimit = 2
INVARIANTS TypeOK BitmapExact SearchExact TimeRight ActionsChained
  FaultFindsHandler HardLimitKept
PROPERTY ImplementsFifo
SYMMETRY Symmetry
CHECK_DEADLOCK FALSE
