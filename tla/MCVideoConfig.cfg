\* Are the values always what R4 of cabin-runtime-config asks for?
SPECIFICATION SlotsSpec
CONSTANTS
  MaxImages = 1
  MaxDrops = 1
  FailThreshold = 2
  IntLimit = 8
  Defaults <- MCDefaults
  NoRow = NoRow
  Clis <- MCClis
  Patches <- MCPatches
INVARIANT
  ConfigAlwaysInRange
CHECK_DEADLOCK FALSE
