\* As MCInteraction.cfg. Is every streak outside a cooldown confirmed?
SPECIFICATION Spec
CONSTANTS
  Keys = {k1, k2}
  Residents = {r1, r2}
  Nobody = Nobody
  ConfirmStreak = 2
  Cooldown = 3
  UnknownAfter = 2
  ReapGrace = 1
  Steps = {1, 2}
  MaxClock = 6
SYMMETRY MCSymmetry
CHECK_DEADLOCK FALSE
INVARIANT
  EveryStreakConfirmed
