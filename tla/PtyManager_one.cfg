SPECIFICATION FairSpec
CONSTANTS
  t1 = t1  t2 = t2
  p1 = p1  p2 = p2
  Terms <- MCOneTerm
  Pids <- MCTwoPids
  MaxSessions = 2
  InputCap = 1
  Workers = 2
  QueueCap = 2
  MaxKeys = 2
  Retransmit = TRUE
  None = None
INVARIANTS
  TypeOK
  PumpReapsOwn
  OneShellPerTerminal
  RunningAccounted
PROPERTIES
  CreatesAreDecided
  DroppedShellsEnd
CHECK_DEADLOCK FALSE
