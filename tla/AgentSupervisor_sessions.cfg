SPECIFICATION FairSpec
CONSTANTS
  Terminal = {t1}
  Desktop = {d1}
  Unsupported = {}
  InboundCap = 2
  OutboundCap = 1
  IdleTicks = 1
  MaxTicks = 1
  MaxConns = 2
  MaxFails = 1
  MaxPushes = 3
  MaxCands = 1
  None = None
INVARIANTS
  TypeOK
  NoCandidateLost
  RedeliveryHarmless
PROPERTIES
  QuickReconnect
  OffersAreDecided
  SlotIsFreed
CHECK_DEADLOCK FALSE
