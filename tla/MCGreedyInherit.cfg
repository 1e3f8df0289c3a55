SPECIFICATION Spec
CONSTANTS
  MaxIds = 3
  MaxLive = 2
  Residents = {r1, r2}
  Nobody = Nobody
  Names = {"n1", "n2"}
  ConfirmHits = 2
  LostMissed = 1
  MaxMissed = 2
  RecogRetry = 2
  UnknownRetry = 1
  GhostMaxAge = 1
INVARIANT
  NameIsCurrent
