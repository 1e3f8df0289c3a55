\* Two visits of one resident, each over at its second empty frame, with one
\* command each at the most, a queue in which both can wait, and time enough
\* for every timeout.
SPECIFICATION FairSpec
CONSTANTS
  Residents = {1}
  Floors = {0, 1, 2}
  FloorsMin = 1
  FloorsMax = 2
  MaxEncodable = 62
  SessionEmpty = 0
  MaxCommandsPerVisit = 1
  MaxVisits = 2
  Absent = Absent
  None = None
  Request <- MCRequest
  HomeFloors <- MCHomeFloors
  ConfirmUntil = 0
  MaxQueue = 2
  CommandMaxAge = 1
  AckTimeout = 1
  AckIds = 4
  WordSize = 64
  Replies = {"success"}
  MaxClock = 2
  MaxDrops = 1
INVARIANT
  WrittenOnceInOrder
PROPERTIES
  ImplementsLifecycle
  ReportTouchesOneCommand
  EveryRequestEnds
  CallsReturn
