\* One heartbeat and two outcomes fill a queue of two messages.
SPECIFICATION Spec
CONSTANTS
  MaxQueue = 2
  MinBackoff = 1
  MaxBackoff = 2
  MaxPings = 1
  Residents = {r1}
  Nobody = Nobody
  MaxFaults = 0
  MaxOutcomes = 2
CHECK_DEADLOCK FALSE
PROPERTIES
  OldestDropped
