SPECIFICATION FairSpec
CONSTANTS
  t1 = t1
  t2 = t2
  t3 = t3
  c1 = c1
  c2 = c2
  s1 = s1
  None = None
  Thread <- TwoThreads
  ClientSock <- OneClient
  ServerSock <- OneServer
  First = c1
  Capacity = 1
  RecvCounts = {1}
  SendCounts = {0, 1}
  MaxSocks = 1
  Calls <- AllCalls
PROPERTY ReceiverReturns
CHECK_DEADLOCK FALSE
