--------------------------- MODULE SocketIoClient ---------------------------
(***************************************************************************)
(* The transport of floor calls, from src/src/socketio_client.cpp: a       *)
(* bounded queue filled by enqueue_floor and one worker thread             *)
(* (worker_loop) that connects, opens the Socket.IO namespace, drops       *)
(* expired commands, writes one command at a time and waits for its        *)
(* acknowledgement.  The worker's position wpc follows worker_loop; a step *)
(* ends where mutex_ is taken or released, where the clock is read, where  *)
(* the socket is used and where a result is reported.                      *)
(*                                                                         *)
(* The peer and the network are external: the two channels of the current  *)
(* connection, and the requests the elevator service has applied.  When a  *)
(* connection ends, what it carried is lost unless the service took it     *)
(* before the next connection is made.                                     *)
(***************************************************************************)
EXTENDS Integers, Sequences, FiniteSets, Functions

CONSTANTS
  Request,        \* request ids
  MaxQueue,       \* max_queue
  CommandMaxAge,  \* command_max_age_ms, in clock ticks
  AckTimeout,     \* ack_timeout_ms, in clock ticks
  AckIds,         \* acknowledgement ids run from 0 to AckIds - 1 and wrap
  WordSize,       \* arithmetic of std::uint64_t is modulo this: 2^64
  Replies,        \* acknowledgements the service can send
  MaxClock,       \* bound of the model: the clock stops there
  MaxDrops,       \* bound of the model: connections the network breaks
  None            \* a model value: no command

ASSUME TransportAssumption ==
  /\ MaxQueue \in Nat \ {0}
  /\ CommandMaxAge \in Nat \ {0}
  /\ AckTimeout \in Nat \ {0}
  /\ AckIds \in Nat \ {0}
  /\ MaxClock \in Nat /\ MaxDrops \in Nat
  /\ WordSize \in Nat /\ WordSize > MaxClock + CommandMaxAge
  /\ Replies \subseteq {"success", "duplicate", "error", "malformed"}

Fates == {"success", "duplicate", "error", "expired", "ambiguous"}
Positions == {"down", "recv", "send", "pick", "write", "check", "poll",
              "lost", "lost_report", "exited"}

Queued == [id : Request, at : 0 .. MaxClock]
InFlight == [id : Request, ack : 0 .. (AckIds - 1), at : 0 .. MaxClock]
Report == [id : Request, state : Fates \cup {"sent"}]
Ack == [id : Request, ack : 0 .. (AckIds - 1), kind : Replies]
Message == [kind : {"open", "namespace"}] \cup Ack
Packet == [kind : {"connect"}]
            \cup [kind : {"write"}, id : Request, ack : 0 .. (AckIds - 1)]

ASSUME NoneAssumption == None \notin Queued \cup InFlight \cup Fates

VARIABLES
  clock,      \* steady_ms()
  queue,      \* queue_, oldest first, guarded by mutex_
  stop,       \* stop_
  wpc,        \* where the worker is in worker_loop
  nsSent,     \* namespace_sent
  ready,      \* namespace_ready
  inFlight,   \* None, or in_flight_command with its ack id and sent_at_ms
  readNow,    \* the local now of the send block, 0 outside it
  picked,     \* the local next: a copy of the head about to be written
  nextAck,    \* next_ack_id
  rx,         \* messages read from the socket and not handled yet
  reports,    \* results the worker has still to pass to report()
  linkUp,     \* external: the connection works
  drops,      \* external: connections broken so far
  inbox,      \* external: messages of the service still in the network
  wire,       \* external: packets of the client still in the network
  applied,    \* external: requests whose floor the service has selected
  accepted,   \* history: requests that entered the queue, in order
  written,    \* history: requests written to a connection, in order
  fate        \* history: how each request ended, None while it has not

workerVars == <<wpc, nsSent, ready, inFlight, readNow, picked, nextAck, rx,
                reports>>
networkVars == <<linkUp, drops, inbox, wire, applied>>
transportVars == <<clock, queue, stop, workerVars, networkVars, accepted,
                   written, fate>>

TransportTypeOK ==
  /\ clock \in 0 .. MaxClock
  /\ queue \in Seq(Queued)
  /\ stop \in BOOLEAN /\ nsSent \in BOOLEAN /\ ready \in BOOLEAN
  /\ wpc \in Positions
  /\ inFlight \in InFlight \cup {None}
  /\ readNow \in 0 .. MaxClock
  /\ picked \in Queued \cup {None}
  /\ nextAck \in 0 .. (AckIds - 1)
  /\ rx \in Seq(Message) /\ inbox \in Seq(Message) /\ wire \in Seq(Packet)
  /\ reports \in Seq(Report)
  /\ linkUp \in BOOLEAN /\ drops \in 0 .. MaxDrops
  /\ applied \subseteq Request
  /\ accepted \in Seq(Request) /\ written \in Seq(Request)
  /\ fate \in [Request -> Fates \cup {None}]

TransportInit ==
  /\ clock = 0 /\ queue = <<>> /\ stop = FALSE
  /\ wpc = "down" /\ nsSent = FALSE /\ ready = FALSE
  /\ inFlight = None /\ readNow = 0 /\ picked = None /\ nextAck = 0
  /\ rx = <<>> /\ reports = <<>>
  /\ linkUp = FALSE /\ drops = 0 /\ inbox = <<>> /\ wire = <<>>
  /\ applied = {}
  /\ accepted = <<>> /\ written = <<>>
  /\ fate = [r \in Request |-> None]

-----------------------------------------------------------------------------
(* The caller's side.                                                       *)

\* The worker holds mutex_ while it reports a lost connection (503-513).
MutexHeld == wpc = "lost_report"

CanEnqueue == ~stop /\ Len(queue) < MaxQueue

\* enqueue_floor that returns true.
Enqueue(id) ==
  /\ ~MutexHeld
  /\ CanEnqueue
  /\ queue' = Append(queue, [id |-> id, at |-> clock])
  /\ accepted' = Append(accepted, id)
  /\ UNCHANGED <<clock, stop, workerVars, networkVars, written, fate>>

\* enqueue_floor that returns false: the queue is full or stop_ is set.
Refuse ==
  /\ ~MutexHeld
  /\ ~CanEnqueue
  /\ UNCHANGED transportVars

\* close(), up to the join of the worker.
Close ==
  /\ stop' = TRUE
  /\ UNCHANGED <<clock, queue, workerVars, networkVars, accepted, written,
                 fate>>

-----------------------------------------------------------------------------
(* The worker.  It takes no other step while it has results to report.      *)

At(pos) == wpc = pos /\ reports = <<>>

\* connect_tcp and handshake succeed; the service opens the session.  When
\* they fail the worker sleeps and tries again, which changes nothing.
Connect ==
  /\ At("down") /\ ~stop
  /\ wpc' = "recv"
  /\ nsSent' = FALSE /\ ready' = FALSE
  /\ rx' = <<>> /\ linkUp' = TRUE /\ inbox' = <<[kind |-> "open"]>> /\ wire' = <<>>
  /\ UNCHANGED <<clock, queue, stop, inFlight, readNow, picked, nextAck,
                 reports, drops, applied, accepted, written, fate>>

Exit ==
  /\ At("down") /\ stop
  /\ wpc' = "exited"
  /\ UNCHANGED <<clock, queue, stop, nsSent, ready, inFlight, readNow, picked,
                 nextAck, rx, reports, networkVars, accepted, written, fate>>

\* The loop condition, and the break after the timeout check.
LeaveLoop ==
  /\ At("recv") \/ At("poll")
  /\ stop
  /\ wpc' = "lost"
  /\ UNCHANGED <<clock, queue, stop, nsSent, ready, inFlight, readNow, picked,
                 nextAck, rx, reports, networkVars, accepted, written, fate>>

\* next_server_text: no complete message.
RecvNothing ==
  /\ At("recv") /\ ~stop
  /\ rx = <<>>
  /\ wpc' = "send"
  /\ UNCHANGED <<clock, queue, stop, nsSent, ready, inFlight, readNow, picked,
                 nextAck, rx, reports, networkVars, accepted, written, fate>>

\* next_server_text: a close frame, or a frame that breaks the protocol.
RecvClose ==
  /\ At("recv") /\ ~stop
  /\ rx = <<>> /\ drops < MaxDrops
  /\ wpc' = "lost"
  /\ drops' = drops + 1
  /\ UNCHANGED <<clock, queue, stop, nsSent, ready, inFlight, readNow, picked,
                 nextAck, rx, reports, linkUp, inbox, wire, applied, accepted,
                 written, fate>>

\* Engine.IO open: ask for the namespace once.
RecvOpen ==
  /\ At("recv") /\ ~stop
  /\ rx # <<>> /\ Head(rx).kind = "open"
  /\ wpc' = "send"
  /\ rx' = Tail(rx)
  /\ nsSent' = TRUE
  /\ wire' = IF ~nsSent /\ linkUp THEN Append(wire, [kind |-> "connect"]) ELSE wire
  /\ UNCHANGED <<clock, queue, stop, ready, inFlight, readNow, picked, nextAck,
                 reports, linkUp, drops, inbox, applied, accepted, written,
                 fate>>

RecvNamespace ==
  /\ At("recv") /\ ~stop
  /\ rx # <<>> /\ Head(rx).kind = "namespace"
  /\ wpc' = "send"
  /\ rx' = Tail(rx)
  /\ ready' = TRUE
  /\ UNCHANGED <<clock, queue, stop, nsSent, inFlight, readNow, picked,
                 nextAck, reports, networkVars, accepted, written, fate>>

\* The head of the queue is dropped, and what happened to the command in
\* flight is reported.
Settle(result) ==
  /\ queue' = IF queue = <<>> THEN queue ELSE Tail(queue)
  /\ inFlight' = None
  /\ fate' = [fate EXCEPT ![inFlight.id] = result]
  /\ reports' = <<[id |-> inFlight.id, state |-> result]>>

Answers(m) ==
  m.kind \in Replies /\ inFlight # None /\ m.ack = inFlight.ack

\* Slip: every packet with the right ack id is a success.
VerdictByAckId(m) == IF m.kind = "malformed" THEN "success" ELSE m.kind

\* parse_socketio_command_ack, and the comparison of the two request ids.
Verdict(m) ==
  IF m.kind = "malformed" \/ m.id # inFlight.id THEN "error" ELSE m.kind

RecvAck ==
  /\ At("recv") /\ ~stop
  /\ rx # <<>> /\ Answers(Head(rx))
  /\ wpc' = "send"
  /\ rx' = Tail(rx)
  /\ Settle(Verdict(Head(rx)))
  /\ UNCHANGED <<clock, stop, nsSent, ready, readNow, picked, nextAck,
                 networkVars, accepted, written>>

\* An acknowledgement nothing waits for any more.
RecvStaleAck ==
  /\ At("recv") /\ ~stop
  /\ rx # <<>> /\ Head(rx).kind \in Replies /\ ~Answers(Head(rx))
  /\ wpc' = "send"
  /\ rx' = Tail(rx)
  /\ UNCHANGED <<clock, queue, stop, nsSent, ready, inFlight, readNow, picked,
                 nextAck, reports, networkVars, accepted, written, fate>>

\* The send block is entered only with a namespace and nothing in flight;
\* its clock is read before the lock is taken.
ReadClock ==
  /\ At("send")
  /\ IF ready /\ inFlight = None
     THEN wpc' = "pick" /\ readNow' = clock
     ELSE wpc' = "check" /\ UNCHANGED readNow
  /\ UNCHANGED <<clock, queue, stop, nsSent, ready, inFlight, picked, nextAck,
                 rx, reports, networkVars, accepted, written, fate>>

\* Slip: the age is rounded down before it is compared.
ExpiredLate(entry) == (readNow - entry.at) % WordSize > CommandMaxAge + 1

\* now - enqueued_ms > command_max_age_ms in unsigned arithmetic.
Expired(entry) == (readNow - entry.at) % WordSize > CommandMaxAge

\* Under the lock: drop the expired commands at the head, copy the next one.
Pick ==
  /\ At("pick")
  /\ \E k \in 0 .. Len(queue) :
       /\ \A i \in 1 .. k : Expired(queue[i])
       /\ k < Len(queue) => ~Expired(queue[k + 1])
       /\ queue' = SubSeq(queue, k + 1, Len(queue))
       /\ picked' = IF k < Len(queue) THEN queue[k + 1] ELSE None
       /\ reports' = [i \in 1 .. k |->
                        [id |-> queue[i].id, state |-> "expired"]]
       /\ fate' = [r \in Request |->
                     IF \E i \in 1 .. k : queue[i].id = r
                     THEN "expired" ELSE fate[r]]
  /\ wpc' = "write"
  /\ UNCHANGED <<clock, stop, nsSent, ready, inFlight, readNow, nextAck, rx,
                 networkVars, accepted, written>>

AckAfter(a) == IF a = AckIds - 1 THEN 0 ELSE a + 1

WriteNothing ==
  /\ At("write")
  /\ picked = None
  /\ wpc' = "check"
  /\ readNow' = 0
  /\ UNCHANGED <<clock, queue, stop, nsSent, ready, inFlight, picked,
                 nextAck, rx, reports, networkVars, accepted, written, fate>>

\* send_all succeeds.  The command stays at the head of the queue.
WriteCommand ==
  /\ At("write")
  /\ picked # None
  /\ wpc' = "check"
  /\ inFlight' = [id |-> picked.id, ack |-> nextAck, at |-> readNow]
  /\ reports' = <<[id |-> picked.id, state |-> "sent"]>>
  /\ nextAck' = AckAfter(nextAck)
  /\ picked' = None /\ readNow' = 0
  /\ wire' = IF linkUp THEN Append(wire, [kind |-> "write", id |-> picked.id,
                                         ack |-> nextAck])
             ELSE wire
  /\ written' = Append(written, picked.id)
  /\ UNCHANGED <<clock, queue, stop, nsSent, ready, rx, linkUp, drops,
                 inbox, applied, accepted, fate>>

\* Slip: a failed write drops the command.
WriteFailsAndPops ==
  /\ At("write")
  /\ picked # None /\ ~linkUp
  /\ wpc' = "lost"
  /\ queue' = Tail(queue)
  /\ nextAck' = AckAfter(nextAck)
  /\ picked' = None /\ readNow' = 0
  /\ UNCHANGED <<clock, stop, nsSent, ready, inFlight, rx, reports,
                 networkVars, accepted, written, fate>>

\* Slip: a command whose write failed goes to the back of the queue.
WriteFailsRequeues ==
  /\ At("write")
  /\ picked # None /\ ~linkUp
  /\ wpc' = "lost"
  /\ queue' = Append(Tail(queue), Head(queue))
  /\ nextAck' = AckAfter(nextAck)
  /\ picked' = None /\ readNow' = 0
  /\ UNCHANGED <<clock, stop, nsSent, ready, inFlight, rx, reports,
                 networkVars, accepted, written, fate>>

\* send_all fails, so the service never sees a whole packet: the command
\* stays at the head and the next connection writes it again.
WriteFails ==
  /\ At("write")
  /\ picked # None /\ ~linkUp
  /\ wpc' = "lost"
  /\ nextAck' = AckAfter(nextAck)
  /\ picked' = None /\ readNow' = 0
  /\ UNCHANGED <<clock, queue, stop, nsSent, ready, inFlight, rx,
                 reports, networkVars, accepted, written, fate>>

TimedOut == inFlight # None /\ clock - inFlight.at >= AckTimeout

\* Slip: only a lost connection ends the wait for an acknowledgement.
CheckNothing ==
  /\ At("check")
  /\ wpc' = "poll"
  /\ UNCHANGED <<queue, inFlight, fate, reports>>
  /\ UNCHANGED <<clock, stop, nsSent, ready, readNow, picked, nextAck, rx,
                 networkVars, accepted, written>>

CheckTimeout ==
  /\ At("check")
  /\ wpc' = "poll"
  /\ IF TimedOut THEN Settle("ambiguous")
     ELSE UNCHANGED <<queue, inFlight, fate, reports>>
  /\ UNCHANGED <<clock, stop, nsSent, ready, readNow, picked, nextAck, rx,
                 networkVars, accepted, written>>

\* read_more: bytes, nothing within 250 ms, or an error.  An error may hide
\* messages that had already arrived.
PollRead ==
  /\ At("poll")
  /\ wpc' = "recv"
  /\ linkUp \/ inbox # <<>>
  /\ rx' = rx \o inbox /\ inbox' = <<>>
  /\ UNCHANGED <<clock, queue, stop, nsSent, ready, inFlight, readNow, picked,
                 nextAck, reports, linkUp, drops, wire, applied, accepted,
                 written, fate>>

PollFails ==
  /\ At("poll")
  /\ ~linkUp
  /\ wpc' = "lost"
  /\ inbox' = <<>>
  /\ UNCHANGED <<clock, queue, stop, nsSent, ready, inFlight, readNow, picked,
                 nextAck, rx, reports, linkUp, drops, wire, applied, accepted,
                 written, fate>>

\* After the loop: a command in flight may have reached the service.  Its
\* result is reported before mutex_ is released.
AbandonInFlight ==
  /\ At("lost")
  /\ inFlight # None
  /\ wpc' = "lost_report"
  /\ Settle("ambiguous")
  /\ UNCHANGED <<clock, stop, nsSent, ready, readNow, picked, nextAck, rx,
                 networkVars, accepted, written>>

Disconnect ==
  /\ (At("lost") /\ inFlight = None) \/ At("lost_report")
  /\ wpc' = "down"
  /\ rx' = <<>> /\ ready' = FALSE /\ nsSent' = FALSE
  /\ linkUp' = FALSE /\ inbox' = <<>>
  /\ UNCHANGED <<clock, queue, stop, inFlight, readNow, picked, nextAck,
                 reports, drops, wire, applied, accepted, written, fate>>

WorkerStep ==
  \/ Connect \/ Exit \/ LeaveLoop \/ RecvNothing \/ RecvClose \/ RecvOpen
  \/ RecvNamespace \/ RecvAck \/ RecvStaleAck \/ ReadClock \/ Pick
  \/ WriteNothing \/ WriteCommand \/ WriteFails \/ CheckTimeout \/ PollRead
  \/ PollFails \/ AbandonInFlight \/ Disconnect

\* report() hands the oldest result to the status callback.
TakeReport ==
  /\ reports # <<>>
  /\ reports' = Tail(reports)
  /\ UNCHANGED <<clock, queue, stop, wpc, nsSent, ready, inFlight, readNow,
                 picked, nextAck, rx, networkVars, accepted, written, fate>>

-----------------------------------------------------------------------------
(* External: the clock, the network and the elevator service.               *)

Tick ==
  /\ clock < MaxClock
  /\ clock' = clock + 1
  /\ UNCHANGED <<queue, stop, workerVars, networkVars, accepted, written, fate>>

LinkBreaks ==
  /\ linkUp /\ drops < MaxDrops
  /\ linkUp' = FALSE
  /\ drops' = drops + 1
  /\ UNCHANGED <<clock, queue, stop, workerVars, inbox, wire, applied,
                 accepted, written, fate>>

ServiceOpensNamespace ==
  /\ wire # <<>> /\ Head(wire).kind = "connect"
  /\ wire' = Tail(wire)
  /\ inbox' = IF linkUp THEN Append(inbox, [kind |-> "namespace"]) ELSE inbox
  /\ UNCHANGED <<clock, queue, stop, workerVars, linkUp, drops, applied,
                 accepted, written, fate>>

\* The service selects the floor or refuses it, and answers in its own time
\* or never.  A malformed answer says nothing about what it did.
ServiceApplies ==
  /\ wire # <<>> /\ Head(wire).kind = "write"
  /\ wire' = Tail(wire)
  /\ \E done \in BOOLEAN, answer \in SUBSET Replies :
       /\ \A kind \in answer :
            /\ answer = {kind}
            /\ kind \in {"success", "duplicate"} => done
            /\ kind = "error" => ~done
       /\ applied' = IF done THEN applied \cup {Head(wire).id} ELSE applied
       /\ inbox' = IF ~linkUp \/ answer = {} THEN inbox
                   ELSE Append(inbox, [id |-> Head(wire).id,
                                       ack |-> Head(wire).ack,
                                       kind |-> CHOOSE kind \in answer : TRUE])
  /\ UNCHANGED <<clock, queue, stop, workerVars, linkUp, drops, accepted,
                 written, fate>>

Environment == Tick \/ LinkBreaks \/ ServiceOpensNamespace \/ ServiceApplies
=============================================================================
