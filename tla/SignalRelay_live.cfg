SPECIFICATION FairSpec
CONSTANTS
  MaxSent = 1
  MaxAgent = 2
  MaxSockets = 2
  MaxRetries = 1
  PageSize = 1
  PollSize = 2
  Burst = 2
INVARIANTS
  TypeOK
  CaughtUp
  RecordedOnce
  PolledInOrder
PROPERTIES
  ImplementsFeed
  SignalsArrive
  QueueLeaves
CHECK_DEADLOCK FALSE
