\* Three frames of two sizes over three ticks, a queue of two frames.
SPECIFICATION FairSpec
CONSTANTS
  Sizes = {small, large}
  PreRoll = 2
  MaxPreRoll = 2
  MaxQueued = 2
  EmptyStop = 2
  MaxFrames = 3
  MaxClock = 3
  NoFrame = NoFrame
CHECK_DEADLOCK FALSE
INVARIANTS
  RecorderTypeOK
  ClipsAreFaithful
  ControlInStep
  StopsWhenEmpty
PROPERTIES
  CloseFinalizes
