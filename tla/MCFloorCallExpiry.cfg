\* As MCFloorCall.cfg: can a command be dropped as expired too early?
SPECIFICATION Spec
CONSTANTS
  Residents = {1, 2}
  Floors = {0, 1, 2}
  FloorsMin = 1
  FloorsMax = 2
  MaxEncodable = 62
  SessionEmpty = 1
  MaxCommandsPerVisit = 2
  MaxVisits = 1
  Absent = Absent
  None = None
  Request <- MCRequest
  HomeFloors <- MCHomeFloors
  ConfirmUntil = 2
  MaxQueue = 1
  CommandMaxAge = 1
  AckTimeout = 1
  AckIds = 4
  WordSize = 64
  Replies = {"success", "malformed"}
  MaxClock = 2
  MaxDrops = 1
PROPERTY
  ExpiredOnlyWhenOld
