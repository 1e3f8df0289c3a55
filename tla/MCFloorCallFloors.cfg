\* As MCFloorCall.cfg: is the floor of a command that expired or was refused
\* by the service requested no more?
SPECIFICATION Spec
CONSTANTS
  Residents = {1, 2}
  Floors = {0, 1, 2}
  FloorsMin = 1
  FloorsMax = 2
  MaxEncodable = 62
  SessionEmpty = 1
  MaxCommandsPerVisit = 2
  MaxVisits = 1
  Absent = Absent
  None = None
  Request <- MCRequest
  HomeFloors <- MCHomeFloors
  ConfirmUntil = 1
  MaxQueue = 1
  CommandMaxAge = 1
  AckTimeout = 1
  AckIds = 4
  WordSize = 64
  Replies = {"success", "malformed"}
  MaxClock = 2
  MaxDrops = 1
INVARIANT
  FloorsOfRequested
