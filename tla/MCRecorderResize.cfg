\* As MCRecorder.cfg: does every clip stop once the cabin is empty?
SPECIFICATION Spec
CONSTANTS
  Sizes = {small, large}
  PreRoll = 2
  MaxPreRoll = 2
  MaxQueued = 2
  EmptyStop = 2
  MaxFrames = 3
  MaxClock = 3
  NoFrame = NoFrame
CHECK_DEADLOCK FALSE
INVARIANT
  EveryClipStops
