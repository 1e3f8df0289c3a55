------------------------ MODULE FloorCallCoordinator ------------------------
(***************************************************************************)
(* The policy of automatic floor calls for one cabin visit, from           *)
(* src/src/floor_call_coordinator.cpp.  A visit starts with the first      *)
(* frame that shows a subject and ends when the cabin has been empty for   *)
(* SessionEmpty.  In a visit each confirmed resident gets one ruling and   *)
(* each floor at most one command.  Every operation below is the part of   *)
(* a method that runs under mutex_; what a method does after it released   *)
(* the mutex (the call of enqueue_) is a step of FloorCallSystem.          *)
(***************************************************************************)
EXTENDS Integers, FiniteSets

CONSTANTS
  Residents,            \* resident ids the catalog can hold
  Floors,               \* home_floor values the catalog can hold
  FloorsMin, FloorsMax, \* the cabin's range of floors
  MaxEncodable,         \* last floor whose bit fits the register: 62
  SessionEmpty,         \* session_empty_ms, in clock ticks
  MaxCommandsPerVisit,  \* max_commands_per_visit
  Absent,               \* a model value: no entry under this key of a map
  MaxVisits             \* bound of the model: visits that may start

ASSUME CoordinatorAssumption ==
  /\ Residents \subseteq Int
  /\ Floors \subseteq Int
  /\ FloorsMin \in Int /\ FloorsMax \in Int /\ MaxEncodable \in Int
  /\ SessionEmpty \in Nat
  /\ MaxCommandsPerVisit \in Nat
  /\ MaxVisits \in Nat

\* A request id is prefix:cabin:visit:sequence; the prefix and the cabin
\* never change, so the last two parts name the request.
Ids == (1 .. MaxVisits) \X (1 .. MaxCommandsPerVisit)

Outcomes == {"success", "duplicate", "error", "expired", "ambiguous"}
TerminalStates == Outcomes \cup {"rejected"}
CommandStates == {"queued", "sent"} \cup TerminalStates
Rulings == {"queued", "same_resident", "invalid_resident", "no_floor",
            "floor_out_of_cabin_range", "floor_not_encodable", "same_floor",
            "visit_command_limit"}

Command == [id : Ids, rid : Residents, floor : Floors]
Entry == [rid : Residents, floor : Floors, state : CommandStates]

ASSUME AbsentAssumption == Absent \notin Ids \cup Entry \cup Rulings

VARIABLES
  visit,       \* the fields a visit owns; id = 0 when there is no visit
  nextVisit    \* next_visit_id_

coordinatorVars == <<visit, nextVisit>>

Visit == [id : 0 .. MaxVisits,
          seq : 1 .. (MaxCommandsPerVisit + 1),
          emptySince : Nat \cup {-1},
          decided : [Residents -> Rulings \cup {Absent}],
          floorReq : [Floors -> Ids \cup {Absent}],
          commands : [Ids -> Entry \cup {Absent}]]

CoordinatorTypeOK ==
  /\ visit \in Visit
  /\ nextVisit \in 1 .. (MaxVisits + 1)

-----------------------------------------------------------------------------
\* What start_visit_locked and finish_visit_locked leave behind.
Cleared(id) ==
  [id |-> id, seq |-> 1, emptySince |-> -1,
   decided |-> [r \in Residents |-> Absent],
   floorReq |-> [f \in Floors |-> Absent],
   commands |-> [i \in Ids |-> Absent]]

CoordinatorInit ==
  /\ visit = Cleared(0)
  /\ nextVisit = 1

\* start_visit_locked: nothing while a visit is open.
MayStart == visit.id # 0 \/ nextVisit <= MaxVisits
Started == IF visit.id # 0 THEN visit ELSE Cleared(nextVisit)
CountStart == nextVisit' = IF visit.id # 0 THEN nextVisit ELSE nextVisit + 1

-----------------------------------------------------------------------------
(* on_presence, with the subjects of a frame taken at time now.             *)

OnPresent ==
  /\ MayStart
  /\ visit' = [Started EXCEPT !.emptySince = -1]
  /\ CountStart

OnEmpty(now) ==
  /\ visit.id # 0
  /\ visit' = IF visit.emptySince < 0 THEN [visit EXCEPT !.emptySince = now]
              ELSE IF now - visit.emptySince >= SessionEmpty THEN Cleared(0)
              ELSE visit
  /\ UNCHANGED nextVisit

-----------------------------------------------------------------------------
(* on_confirmed, up to the release of the mutex.                            *)

CommandCount(v) == Cardinality({i \in Ids : v.commands[i] # Absent})

Ruling(v, rid, floor) ==
  IF v.decided[rid] # Absent THEN "same_resident"
  ELSE IF rid < 0 THEN "invalid_resident"
  ELSE IF floor <= 0 THEN "no_floor"
  ELSE IF floor \notin FloorsMin .. FloorsMax THEN "floor_out_of_cabin_range"
  ELSE IF floor > MaxEncodable THEN "floor_not_encodable"
  ELSE IF v.floorReq[floor] # Absent THEN "same_floor"
  ELSE IF CommandCount(v) >= MaxCommandsPerVisit THEN "visit_command_limit"
  ELSE "queued"

\* The ruling is remembered for the resident whatever it says.  A ruling
\* other than "queued" is final; "queued" leaves the command for enqueue_.
Suppress(rid, floor) ==
  /\ MayStart
  /\ Ruling(Started, rid, floor) # "queued"
  /\ visit' = [Started EXCEPT !.decided[rid] = Ruling(Started, rid, floor)]
  /\ CountStart

NextId == <<Started.id, Started.seq>>

\* Slip: the ruling is remembered only when it is final.
ReserveUndecided(rid, floor) ==
  /\ MayStart
  /\ Ruling(Started, rid, floor) = "queued"
  /\ visit' = [Started EXCEPT
                 !.floorReq[floor] = NextId,
                 !.commands[NextId] = [rid |-> rid, floor |-> floor,
                                       state |-> "queued"],
                 !.seq = @ + 1]
  /\ CountStart

Reserve(rid, floor) ==
  /\ MayStart
  /\ Ruling(Started, rid, floor) = "queued"
  /\ visit' = [Started EXCEPT
                 !.decided[rid] = "queued",
                 !.floorReq[floor] = NextId,
                 !.commands[NextId] = [rid |-> rid, floor |-> floor,
                                       state |-> "queued"],
                 !.seq = @ + 1]
  /\ CountStart

-----------------------------------------------------------------------------
(* on_transport_state: ignored for an id of a finished visit and for a      *)
(* command that already has a terminal state.  Only the rejection by a      *)
(* full transport queue gives the floor back.                               *)

\* Slip: only a command still in the queue takes a new state.
OpenWhileQueued(id) ==
  /\ visit.commands[id] # Absent
  /\ visit.commands[id].state = "queued"

Open(id) ==
  /\ visit.commands[id] # Absent
  /\ visit.commands[id].state \notin TerminalStates

\* Slip: a refused command keeps its floor.
RejectionKeepsFloor(id, state) ==
  /\ visit' = IF ~Open(id) THEN visit
              ELSE [visit EXCEPT !.commands[id] = [@ EXCEPT !.state = state]]
  /\ UNCHANGED nextVisit

\* Slip: the record is looked up by sequence number alone.
FoundBySequence(id, state) ==
  /\ visit' = IF visit.id = 0 \/ ~Open(<<visit.id, id[2]>>) THEN visit
              ELSE [visit EXCEPT !.commands[<<visit.id, id[2]>>] =
                                    [@ EXCEPT !.state = state]]
  /\ UNCHANGED nextVisit

OnTransportState(id, state) ==
  /\ visit' = IF ~Open(id) THEN visit
              ELSE [visit EXCEPT
                      !.commands[id] = [@ EXCEPT !.state = state],
                      !.floorReq = [f \in Floors |->
                         IF /\ state = "rejected"
                            /\ f = visit.commands[id].floor
                            /\ visit.floorReq[f] = id
                         THEN Absent ELSE visit.floorReq[f]]]
  /\ UNCHANGED nextVisit
=============================================================================
