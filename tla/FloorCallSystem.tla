-------------------------- MODULE FloorCallSystem --------------------------
(***************************************************************************)
(* The floor-call path of the program (src/src/main.cpp 395-443, 798-811,  *)
(* 836-848): the frame thread drives the coordinator and hands commands to *)
(* the Socket.IO client, whose worker thread reports results back to the   *)
(* coordinator.  on_confirmed takes the coordinator's mutex, releases it,  *)
(* takes the client's mutex to enqueue, and takes the coordinator's again  *)
(* when the queue refused: these are separate steps of the frame thread.   *)
(***************************************************************************)
EXTENDS FloorCallCoordinator, SocketIoClient

CONSTANTS
  HomeFloors,    \* the home_floor values each resident's row can hold
  ConfirmUntil   \* bound of the model: no new command after this time

ASSUME SystemAssumption ==
  /\ HomeFloors \in [Residents -> SUBSET Floors]
  /\ ConfirmUntil \in Nat
  /\ Request = Ids
  /\ Absent \notin [rid : Residents, floor : Floors]

VARIABLES
  frame,      \* "idle", or the step of on_confirmed the frame thread is at
  pending,    \* the local command of on_confirmed, None when there is none
  rejected,   \* history: requests the queue refused
  issued      \* history: rid and floor of each request, Absent if never made

frameVars == <<frame, pending, rejected, issued>>
vars == <<coordinatorVars, transportVars, frameVars>>

SystemTypeOK ==
  /\ CoordinatorTypeOK
  /\ TransportTypeOK
  /\ frame \in {"idle", "enqueue", "refused"}
  /\ pending \in Ids \cup {None}
  /\ rejected \subseteq Ids
  /\ issued \in [Ids -> [rid : Residents, floor : Floors] \cup {Absent}]

SystemInit ==
  /\ CoordinatorInit
  /\ TransportInit
  /\ frame = "idle" /\ pending = None
  /\ rejected = {}
  /\ issued = [i \in Ids |-> Absent]

-----------------------------------------------------------------------------
(* The frame thread.                                                        *)

\* A frame calls on_presence before anything else.
FramePresent ==
  /\ frame = "idle" /\ ~stop
  /\ OnPresent
  /\ UNCHANGED <<transportVars, frameVars>>

FrameEmpty ==
  /\ frame = "idle" /\ ~stop
  /\ OnEmpty(clock)
  /\ UNCHANGED <<transportVars, frameVars>>

\* An identity is confirmed only in a frame that showed a subject.
SubjectInFrame == visit.id # 0 /\ visit.emptySince = -1

ConfirmSuppressed(rid, floor) ==
  /\ frame = "idle" /\ ~stop /\ SubjectInFrame
  /\ Suppress(rid, floor)
  /\ UNCHANGED <<transportVars, frameVars>>

ConfirmQueued(rid, floor) ==
  /\ frame = "idle" /\ ~stop /\ SubjectInFrame
  /\ clock <= ConfirmUntil
  /\ Reserve(rid, floor)
  /\ frame' = "enqueue" /\ pending' = NextId
  /\ issued' = [issued EXCEPT ![NextId] = [rid |-> rid, floor |-> floor]]
  /\ UNCHANGED <<transportVars, rejected>>

\* enqueue_ -> enqueue_floor
HandOver ==
  /\ frame = "enqueue"
  /\ Enqueue(pending)
  /\ frame' = "idle" /\ pending' = None
  /\ UNCHANGED <<coordinatorVars, rejected, issued>>

HandOverRefused ==
  /\ frame = "enqueue"
  /\ Refuse
  /\ frame' = "refused"
  /\ UNCHANGED <<coordinatorVars, pending, rejected, issued>>

\* on_transport_state(Rejected, "transport_queue_full")
GiveFloorBack ==
  /\ frame = "refused"
  /\ OnTransportState(pending, "rejected")
  /\ frame' = "idle" /\ pending' = None
  /\ rejected' = rejected \cup {pending}
  /\ UNCHANGED <<transportVars, issued>>

\* iot_socket->close() after the main loop.
Shutdown ==
  /\ frame = "idle" /\ ~stop
  /\ Close
  /\ UNCHANGED <<coordinatorVars, frameVars>>

FrameStep ==
  \/ FramePresent
  \/ FrameEmpty
  \/ \E rid \in Residents : \E floor \in HomeFloors[rid] :
       ConfirmSuppressed(rid, floor) \/ ConfirmQueued(rid, floor)
  \/ HandOver
  \/ HandOverRefused
  \/ GiveFloorBack
  \/ Shutdown

-----------------------------------------------------------------------------
(* The worker thread.                                                       *)

Worker ==
  /\ WorkerStep
  /\ UNCHANGED <<coordinatorVars, frameVars>>

\* Slip: on_confirmed calls enqueue_ before it releases the mutex.
DeliverOutsideConfirm ==
  /\ frame # "enqueue"
  /\ TakeReport
  /\ OnTransportState(Head(reports).id, Head(reports).state)
  /\ UNCHANGED frameVars

\* The status callback of main.cpp: report() -> on_transport_state.
Deliver ==
  /\ TakeReport
  /\ OnTransportState(Head(reports).id, Head(reports).state)
  /\ UNCHANGED frameVars

\* Bound of the model: a command made at ConfirmUntil is handed over then.
Outside ==
  /\ Environment
  /\ clock = ConfirmUntil /\ frame # "idle" => clock' = clock
  /\ UNCHANGED <<coordinatorVars, frameVars>>

\* close() has joined the worker: the program is done with floor calls.
Finished ==
  /\ wpc = "exited"
  /\ UNCHANGED vars

Next == FrameStep \/ Worker \/ Deliver \/ Outside \/ Finished

Spec == SystemInit /\ [][Next]_vars

(***************************************************************************)
(* The worker thread and the rest of a method the frame thread has begun   *)
(* are scheduled by the operating system, and time passes.  The service    *)
(* and the network owe nothing: only MaxDrops bounds broken connections,   *)
(* and a connection attempt succeeds in the end.                           *)
(***************************************************************************)
Fairness ==
  /\ WF_vars(Worker)
  /\ WF_vars(Deliver)
  /\ WF_vars(HandOver \/ HandOverRefused)
  /\ WF_vars(GiveFloorBack)
  /\ WF_vars(Outside /\ Tick)
  /\ WF_vars(Outside /\ ServiceOpensNamespace)

FairSpec == Spec /\ Fairness

-----------------------------------------------------------------------------
(* Properties.                                                              *)

VisitOf(id) == id[1]

\* R4.1: of all the requests of one visit that the transport accepted, no
\* two are for the same floor, although a refused request gives its floor
\* back while the worker is reporting others (floor_call_coordinator.cpp
\* 133-154 and 196-200).
OneCommandPerFloor ==
  \A a, b \in Range(accepted) :
    VisitOf(a) = VisitOf(b) /\ issued[a].floor = issued[b].floor => a = b

\* R3.1: a resident gets at most one request per visit, whatever happens to
\* it, and no request is made for a floor outside the cabin's range.
OneRequestPerResident ==
  \A a, b \in Ids :
    issued[a] # Absent =>
      /\ issued[a].floor \in FloorsMin .. FloorsMax
      /\ /\ issued[b] # Absent /\ VisitOf(a) = VisitOf(b)
         /\ issued[a].rid = issued[b].rid
         => a = b

\* R3.1 and R4.1 together: one request for each floor and each resident of a
\* visit, through refusals, late results and other tracks of the same person.
OneRequestEach == OneCommandPerFloor /\ OneRequestPerResident

\* A command that the full queue refused gives its floor back, whatever was
\* confirmed and reported in between; every other one keeps it to the end of
\* the visit (floor_call_coordinator.cpp 133-154 and 196-200).  So AMBIGUOUS
\* holds its floor as R4.3 says, and no second command for a floor follows an
\* accepted one (R4.1).  That EXPIRED and ACKED_ERROR hold it too is the
\* code's choice: see FloorsOfRequested.
FloorReserved ==
  \A id \in Ids :
    visit.commands[id] # Absent =>
      (visit.commands[id].state # "rejected"
         <=> visit.floorReq[visit.commands[id].floor] = id)

\* What the requirements say of the same table: a floor is requested while its
\* command is QUEUED, SENT, ACKED_SUCCESS, ACKED_DUPLICATE or AMBIGUOUS
\* (.kiro/specs/auto-floor-call/requirements.md 50-51), so that after an error
\* before sending another resident may request it (R4.4, line 92).  The code
\* does not keep to it: MCFloorCallFloors.cfg.
FloorsOfRequested ==
  \A f \in Floors :
    visit.floorReq[f] # Absent =>
      visit.commands[visit.floorReq[f]].state
        \in {"queued", "sent", "success", "duplicate", "ambiguous"}

\* What the worker pops is what it has in flight: the three pop_front calls
\* (428, 491, 507) test only that the queue is not empty.
InFlightIsHead ==
  inFlight # None => queue # <<>> /\ Head(queue).id = inFlight.id

\* Requests are written at most once each (R9.2) and in the order in which
\* they were accepted (R5.1), over reconnections, failed writes and timeouts:
\* a command whose write failed is not overtaken by the one that waits behind
\* it.
WrittenOnceInOrder ==
  \A i, j \in 1 .. Len(written) :
    i < j => \E m, n \in 1 .. Len(accepted) :
               m < n /\ accepted[m] = written[i] /\ accepted[n] = written[j]

\* A result is never attributed to the wrong request: success means that the
\* service selected this floor, an expired or refused request never left.
ResultTruthful ==
  \A id \in Ids :
    /\ fate[id] \in {"success", "duplicate"} => id \in applied
    /\ fate[id] = "expired" \/ id \in rejected
         => id \notin Range(written) /\ id \notin applied

\* When the worker holds no result of a request of the current visit, the
\* coordinator's record of it is the truth: no report was lost because it
\* came before the record existed, or overwritten by a later one.
CoordinatorInStep ==
  \A id \in Range(accepted) :
    /\ visit.commands[id] # Absent
    /\ id \notin {reports[i].id : i \in 1 .. Len(reports)}
    => visit.commands[id].state =
         IF fate[id] # None THEN fate[id]
         ELSE IF inFlight # None /\ inFlight.id = id THEN "sent" ELSE "queued"

\* R9.1: a command about to be written was no older than the maximum age
\* when the worker looked at the clock.
NoStaleWrite ==
  picked # None => readNow - picked.at \in 0 .. CommandMaxAge

\* A result ends only the request it is about: a step that changes the
\* record of one command leaves every other command and the visit's other
\* rulings alone, and reports for a finished visit change nothing (191-192).
ReportTouchesOneCommand ==
  [][Deliver =>
       /\ \A id \in Ids : id # Head(reports).id
            => visit'.commands[id] = visit.commands[id]
       /\ visit'.decided = visit.decided
       /\ visit'.id # VisitOf(Head(reports).id) => visit' = visit]_vars

\* The queue and the histories seen as the line of FloorCallLifecycle.
Line == [i \in 1 .. Len(queue) |-> queue[i].id]
Status ==
  [r \in Ids |->
     IF fate[r] # None THEN fate[r]
     ELSE IF inFlight # None /\ inFlight.id = r THEN "out"
     ELSE IF r \in Range(accepted) THEN "waiting" ELSE "new"]

Lifecycle == INSTANCE FloorCallLifecycle
               WITH Request <- Ids, line <- Line, status <- Status

\* The threads, the connections and the queue implement the line of
\* requests: one at a time, from the front, each to one result.
ImplementsLifecycle == Lifecycle!Spec

\* R8 and R9.1: a command is dropped as EXPIRED only when it has waited for
\* longer than the maximum age.  The worker reads the clock before it takes
\* the lock (444-447).
ExpiredOnlyWhenOld ==
  [][\A i \in 1 .. Len(queue) :
       fate[queue[i].id] = None /\ fate'[queue[i].id] = "expired"
         => clock - queue[i].at > CommandMaxAge]_vars

\* R8: every accepted request reaches a final result that the coordinator is
\* told, unless the program is stopped first.
EveryRequestEnds ==
  \A id \in Ids :
    id \in Range(accepted) ~>
      (fate[id] # None /\ reports = <<>>) \/ stop

\* The frame thread is never stuck in on_confirmed: the lock the worker holds
\* while it reports a lost connection is always given back.  Nor is it stuck
\* in close(): whatever the worker is doing, it exits and can be joined.
CallsReturn ==
  /\ frame # "idle" ~> frame = "idle"
  /\ stop ~> wpc = "exited"
=============================================================================
