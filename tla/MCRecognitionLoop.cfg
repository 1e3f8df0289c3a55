\* Two tracks, two residents with two digests each, a detector run on every
\* other frame.
CONSTANTS
  MaxTracks = 2
  MaxHits = 3
  Residents = {r1, r2}
  Nobody = Nobody
  ConfirmHits = 2
  LostGraceUpdates = 1
  LostGrace = 1
  LostTimeout = 2
  UnknownRetry = 1
  Digests = {d1, d2}
  PersonEvery = 2
  Steps = {0, 1}
SYMMETRY MCSymmetry
CHECK_DEADLOCK FALSE
SPECIFICATION Spec
INVARIANTS
  LoopTypeOK
  CacheIsCurrent
  AdditionsAreTried
PROPERTIES
  ReloadSparesOthers
  SeenStaysTracked
