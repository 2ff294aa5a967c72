SPECIFICATION Spec
CONSTANTS
  Terminal = {t1}
  Desktop = {d1}
  Unsupported = {u1}
  InboundCap = 2
  OutboundCap = 1
  IdleTicks = 3
  MaxTicks = 1
  MaxConns = 2
  MaxFails = 1
  MaxPushes = 4
  MaxCands = 1
  None = None
INVARIANT
  SessionEndKeepsAgent
CHECK_DEADLOCK FALSE
