\* Two outcomes of one resident or nobody, a queue of two messages, two
\* heartbeats and one statement that fails.
SPECIFICATION FairSpec
CONSTANTS
  MaxQueue = 2
  MinBackoff = 1
  MaxBackoff = 2
  MaxPings = 2
  Residents = {r1}
  Nobody = Nobody
  MaxFaults = 1
  MaxOutcomes = 2
CHECK_DEADLOCK FALSE
INVARIANTS
  EdgeCountedFifo
  TableFollowsEvents
PROPERTIES
  QuitEnds
