SPECIFICATION FileSystemsSpec
CONSTANTS
  t1 = t1
  t2 = t2
  None = None
  Thread <- Threads
  Device = {d}
  File = {1, 2}
  Handle = {1, 2, 3}
  Accesses = {"r", "w"}
  MaxSize = 1
  MaxLost = 1
  f1 = f1
  f2 = f2
  b1 = b1
  b2 = b2
  FD <- TwoDescriptors
  Byte <- TwoBytes
  Chunk = 2
  MaxOffset = 4
  MaxCount = 2
INVARIANTS HandlesExact ReadOnlyUntouched UsedWhileAlive PreadPastEnd
  SizeRecovered NothingLost Mapped
SYMMETRY Symmetry
CHECK_DEADLOCK FALSE
