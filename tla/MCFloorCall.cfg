\* One visit, two residents and two floors, a queue of one command, which
\* refuses the second while the first is in it.
SPECIFICATION Spec
CONSTANTS
  Residents = {1, 2}
  Floors = {0, 1, 2}
  FloorsMin = 1
  FloorsMax = 2
  MaxEncodable = 62
  SessionEmpty = 1
  MaxCommandsPerVisit = 2
  MaxVisits = 1
  Absent = Absent
  None = None
  Request <- MCRequest
  HomeFloors <- MCHomeFloors
  ConfirmUntil = 1
  MaxQueue = 1
  CommandMaxAge = 1
  AckTimeout = 1
  AckIds = 4
  WordSize = 64
  Replies = {"success", "malformed"}
  MaxClock = 2
  MaxDrops = 1
INVARIANTS
  OneRequestEach
  FloorReserved
  ResultTruthful
  CoordinatorInStep
  NoStaleWrite
