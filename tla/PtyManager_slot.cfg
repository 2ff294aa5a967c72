SPECIFICATION FairSpec
CONSTANTS
  t1 = t1  t2 = t2
  p1 = p1  p2 = p2
  Terms <- MCOneTerm
  Pids <- MCOnePid
  MaxSessions = 1
  InputCap = 1
  Workers = 2
  QueueCap = 2
  MaxKeys = 1
  Retransmit = FALSE
  None = None
PROPERTY ExitFreesSlot
CHECK_DEADLOCK FALSE
