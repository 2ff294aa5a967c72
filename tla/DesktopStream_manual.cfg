SPECIFICATION Spec
CONSTANTS
  m1 = m1
  w1 = w1
  Monitors = {m1}
  Windows = {}
  Unknown = Unknown
  Start = m1
  Sizes <- MCSizes
  Origin <- MCOrigin
  StartProfile <- MCFullProfile
  AllowInput = FALSE
  Bitrates = {4000}
  Estimates <- MCEstimates
  Positions = {}
  SustainFrames = 2
  ControlCap = 1
  EventsCap = 1
  MaxThreads = 1
  MaxQueue = 1
  MaxFrames = 1
  None = None
INVARIANT
  ManualStands
CHECK_DEADLOCK FALSE
