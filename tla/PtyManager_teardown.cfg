SPECIFICATION FairSpec
CONSTANTS
  t1 = t1  t2 = t2
  p1 = p1  p2 = p2
  Terms <- MCOneTerm
  Pids <- MCTwoPids
  MaxSessions = 1
  InputCap = 1
  Workers = 2
  QueueCap = 2
  MaxKeys = 1
  Retransmit = FALSE
  None = None
PROPERTY TeardownEndsShells
CHECK_DEADLOCK FALSE
