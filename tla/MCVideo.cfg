SPECIFICATION FairSlotsSpec
CONSTANTS
  MaxImages = 2
  MaxDrops = 1
  FailThreshold = 2
  IntLimit = 8
  Defaults <- MCDefaults
  NoRow = NoRow
  Clis <- MCClis
  Patches <- MCPatches
INVARIANTS
  ConfigInRange
PROPERTIES
  OnlyNewer
  ReconnectsWhenBack
  StopEnds
CHECK_DEADLOCK FALSE
