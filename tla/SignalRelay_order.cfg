SPECIFICATION Spec
CONSTANTS
  MaxSent = 1
  MaxAgent = 2
  MaxSockets = 2
  MaxRetries = 1
  PageSize = 1
  PollSize = 2
  Burst = 2
INVARIANT HeardInOrder
CHECK_DEADLOCK FALSE
