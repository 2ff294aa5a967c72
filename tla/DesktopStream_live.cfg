SPECIFICATION FairSpec
CONSTANTS
  m1 = m1
  w1 = w1
  Monitors = {m1}
  Windows = {w1}
  Unknown = Unknown
  Start = m1
  Sizes <- MCSizes
  Origin <- MCOrigin
  StartProfile <- MCFullProfile
  AllowInput = TRUE
  Bitrates = {4000}
  Estimates <- MCEstimates
  Positions <- MCPositions
  SustainFrames = 2
  ControlCap = 1
  EventsCap = 1
  MaxThreads = 2
  MaxQueue = 1
  MaxFrames = 1
  None = None
INVARIANTS
  TypeOK
  EncoderFollowsProfile
  ViewerKnowsBitrate
  SwapKeepsOneSource
  KeysReleased
  PointerInSource
PROPERTIES
  FramesFit
  StoppedCapturesEnd
  CommandsLeave
CHECK_DEADLOCK FALSE
