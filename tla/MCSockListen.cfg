SPECIFICATION FairSpec
CONSTANTS
  t1 = t1
  t2 = t2
  t3 = t3
  l1 = l1
  l2 = l2
  c1 = c1
  c2 = c2
  None = None
  Thread <- ThreeThreads
  Listener <- TwoListeners
  Conn <- TwoConns
  Port <- OnePort
  Backlogs = {2}
  Calls <- ServerCalls
  Polled <- OnePolled
INVARIANTS PortsUnique TargetAlive EstablishedOnce NothingLeftBehind AcceptNotMissed
PROPERTY CallsReturn
CHECK_DEADLOCK FALSE
