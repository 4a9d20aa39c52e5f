SPECIFICATION Spec
CONSTANTS
  t1 = t1
  t2 = t2
  t3 = t3
  c1 = c1
  c2 = c2
  s1 = s1
  None = None
  Thread <- ThreeThreads
  ClientSock <- TwoClients
  ServerSock <- OneServer
  First = c1
  Capacity = 1
  RecvCounts = {1}
  SendCounts = {1, 2}
  MaxSocks = 2
  Calls <- SocketCalls
SYMMETRY ThreadSymmetry
INVARIANTS RefcountsExact NoLostWakeup NoLeak EventsCoherent
PROPERTY ImplementsStream
CHECK_DEADLOCK FALSE
