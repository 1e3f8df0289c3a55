\* As MCInteraction.cfg. Is a subject that had a match ever reported unknown?
SPECIFICATION Spec
CONSTANTS
  Keys = {k1, k2}
  Residents = {r1, r2}
  Nobody = Nobody
  ConfirmStreak = 2
  Cooldown = 3
  UnknownAfter = 2
  ReapGrace = 1
  Steps = {1, 2}
  MaxClock = 6
SYMMETRY MCSymmetry
CHECK_DEADLOCK FALSE
INVARIANT
  UnknownNeverMatched
