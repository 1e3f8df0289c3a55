SPECIFICATION FairSlotsSpec
CONSTANTS
  MaxImages = 1
  MaxDrops = 1
  FailThreshold = 2
  IntLimit = 8
  Defaults <- MCDefaults
  NoRow = NoRow
  Clis <- MCClis
  Patches <- MCPatches
PROPERTY
  StopAlwaysEnds
CHECK_DEADLOCK FALSE
