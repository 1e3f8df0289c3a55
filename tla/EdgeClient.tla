----------------------------- MODULE EdgeClient -----------------------------
(***************************************************************************)
(* The client of the Edge Core, src/src/edge_client.cpp: the frame thread  *)
(* puts messages into a bounded queue, one worker thread keeps a           *)
(* connection, writes them in order and writes a heartbeat when it has     *)
(* nothing else to write.  The Edge Core is outside: it accepts or refuses *)
(* a connection, and a write succeeds or fails.  A failed write leaves at  *)
(* most a partial frame on a connection that is then closed, so the Edge   *)
(* Core never gets the message of a failed write.  Messages are numbered   *)
(* in the order they are made.                                             *)
(***************************************************************************)
EXTENDS Integers, Sequences

CONSTANTS
  MaxQueue,     \* cfg_.max_queue
  MinBackoff,   \* cfg_.reconnect_min_ms
  MaxBackoff,   \* cfg_.reconnect_max_ms
  MaxPings      \* bound of the model: heartbeats made

ASSUME EdgeAssumption ==
  /\ MaxQueue \in Nat \ {0}
  /\ MinBackoff \in Nat \ {0} /\ MaxBackoff \in Nat
  /\ MinBackoff <= MaxBackoff
  /\ MaxPings \in Nat

Message == [n : Nat \ {0}, type : {"recog", "unknown", "ping"}]

VARIABLES
  edgeStop,   \* stop_
  q,          \* q_
  fd,         \* fd_: "none" or "open"
  sender,     \* where the worker is: "top", "connect", "backoff", "wait",
              \* "write", "flush", "flushing" or "exited"
  job,        \* the message being written, as a sequence of at most one
  rest,       \* the messages the flush has still to write
  backoff,    \* backoff_ms
  sent,       \* sent_
  dropped,    \* dropped_
  made,       \* history: how many messages were made
  pings,      \* history: how many of them are heartbeats
  arrived     \* history: what the Edge Core has received

edgeVars == <<edgeStop, q, fd, sender, job, rest, backoff, sent, dropped, made,
              pings, arrived>>

EdgeTypeOK ==
  /\ edgeStop \in BOOLEAN
  /\ q \in Seq(Message) /\ Len(q) <= MaxQueue
  /\ fd \in {"none", "open"}
  /\ sender \in {"top", "connect", "backoff", "wait", "write", "flush",
                 "flushing", "exited"}
  /\ job \in Seq(Message) /\ Len(job) = (IF sender = "write" THEN 1 ELSE 0)
  /\ rest \in Seq(Message) /\ (rest # <<>> => sender = "flushing")
  /\ backoff \in MinBackoff .. MaxBackoff
  /\ sent \in Nat /\ dropped \in Nat /\ made \in Nat
  /\ pings \in 0 .. MaxPings
  /\ arrived \in Seq(Message)

\* start() has run: main() creates the client only if it has a socket path.
EdgeInit ==
  /\ edgeStop = FALSE /\ q = <<>> /\ fd = "none"
  /\ sender = "top" /\ job = <<>> /\ rest = <<>>
  /\ backoff = MinBackoff
  /\ sent = 0 /\ dropped = 0 /\ made = 0 /\ pings = 0 /\ arrived = <<>>

NewMessage(type) == [n |-> made + 1, type |-> type]

\* The queue with room for one more, and the count of what that cost.
Roomy == IF Len(q) >= MaxQueue THEN Tail(q) ELSE q
DroppedNow == IF Len(q) >= MaxQueue THEN dropped + 1 ELSE dropped

-----------------------------------------------------------------------------
(* The frame thread.                                                        *)

\* send_recog and send_unknown, through enqueue.  The test of stop_ never
\* fails here: the frame thread itself closes the client.
Enqueue(type) ==
  /\ ~edgeStop
  /\ q' = Append(Roomy, NewMessage(type))
  /\ dropped' = DroppedNow
  /\ made' = made + 1
  /\ UNCHANGED <<edgeStop, fd, sender, job, rest, backoff, sent, pings, arrived>>

\* close(), up to the join.
EdgeClose ==
  /\ ~edgeStop
  /\ edgeStop' = TRUE
  /\ UNCHANGED <<q, fd, sender, job, rest, backoff, sent, dropped, made, pings,
                 arrived>>

\* close(), after the join.
EdgeJoined ==
  /\ edgeStop /\ sender = "exited"
  /\ fd' = "none"
  /\ UNCHANGED <<edgeStop, q, sender, job, rest, backoff, sent, dropped, made,
                 pings, arrived>>

-----------------------------------------------------------------------------
(* The worker thread.                                                       *)

Top ==
  /\ sender = "top"
  /\ sender' = IF edgeStop THEN "flush"
               ELSE IF fd = "none" THEN "connect" ELSE "wait"
  /\ UNCHANGED <<edgeStop, q, fd, job, rest, backoff, sent, dropped, made,
                 pings, arrived>>

Connected ==
  /\ sender = "connect"
  /\ fd' = "open" /\ sender' = "wait" /\ backoff' = MinBackoff
  /\ UNCHANGED <<edgeStop, q, job, rest, sent, dropped, made, pings, arrived>>

ConnectFails ==
  /\ sender = "connect"
  /\ sender' = "backoff"
  /\ UNCHANGED <<edgeStop, q, fd, job, rest, backoff, sent, dropped, made,
                 pings, arrived>>

Doubled == IF backoff * 2 > MaxBackoff THEN MaxBackoff ELSE backoff * 2

\* The slices of the wait are over, or one of them saw stop_.
BackoffEnds ==
  /\ sender = "backoff"
  /\ IF edgeStop
     THEN sender' = "flush" /\ UNCHANGED backoff
     ELSE sender' = "top" /\ backoff' = Doubled
  /\ UNCHANGED <<edgeStop, q, fd, job, rest, sent, dropped, made, pings, arrived>>

StopSeen ==
  /\ sender = "wait" /\ edgeStop
  /\ sender' = "flush"
  /\ UNCHANGED <<edgeStop, q, fd, job, rest, backoff, sent, dropped, made,
                 pings, arrived>>

TakeJob ==
  /\ sender = "wait" /\ ~edgeStop /\ q # <<>>
  /\ job' = <<Head(q)>> /\ q' = Tail(q)
  /\ sender' = "write"
  /\ UNCHANGED <<edgeStop, fd, rest, backoff, sent, dropped, made, pings, arrived>>

\* heartbeat_ms without anything to write.
Heartbeat ==
  /\ sender = "wait" /\ ~edgeStop /\ q = <<>>
  /\ pings < MaxPings
  /\ job' = <<NewMessage("ping")>>
  /\ made' = made + 1 /\ pings' = pings + 1
  /\ sender' = "write"
  /\ UNCHANGED <<edgeStop, q, fd, rest, backoff, sent, dropped, arrived>>

Written ==
  /\ sender = "write"
  /\ arrived' = arrived \o job /\ sent' = sent + 1
  /\ job' = <<>> /\ sender' = "top"
  /\ UNCHANGED <<edgeStop, q, fd, rest, backoff, dropped, made, pings>>

\* Slip: the message of a failed write goes to the end of the queue.
WriteFailsRequeuesLast ==
  /\ sender = "write"
  /\ fd' = "none"
  /\ IF edgeStop
     THEN UNCHANGED <<q, dropped>>
     ELSE q' = Roomy \o job /\ dropped' = DroppedNow
  /\ job' = <<>> /\ sender' = "top"
  /\ UNCHANGED <<edgeStop, rest, backoff, sent, made, pings, arrived>>

\* The message goes back to the front of the queue, which may be full, unless
\* the client is closing.
WriteFails ==
  /\ sender = "write"
  /\ fd' = "none"
  /\ IF edgeStop
     THEN UNCHANGED <<q, dropped>>
     ELSE q' = job \o Roomy /\ dropped' = DroppedNow
  /\ job' = <<>> /\ sender' = "top"
  /\ UNCHANGED <<edgeStop, rest, backoff, sent, made, pings, arrived>>

\* The loop is left: what is queued is flushed if there is a connection.
FlushBegins ==
  /\ sender = "flush"
  /\ IF fd = "open"
     THEN rest' = q /\ q' = <<>> /\ sender' = "flushing"
     ELSE sender' = "exited" /\ UNCHANGED <<q, rest>>
  /\ UNCHANGED <<edgeStop, fd, job, backoff, sent, dropped, made, pings, arrived>>

FlushWrites ==
  /\ sender = "flushing" /\ rest # <<>>
  /\ arrived' = Append(arrived, Head(rest)) /\ rest' = Tail(rest)
  /\ sent' = sent + 1
  /\ UNCHANGED <<edgeStop, q, fd, sender, job, backoff, dropped, made, pings>>

\* All is written, or the first write that fails ends the flush.
FlushEnds ==
  /\ sender = "flushing"
  /\ rest' = <<>> /\ sender' = "exited"
  /\ UNCHANGED <<edgeStop, q, fd, job, backoff, sent, dropped, made, pings,
                 arrived>>

\* What the worker does next, whatever the Edge Core answers.
SenderStep ==
  \/ Top
  \/ Connected
  \/ ConnectFails
  \/ BackoffEnds
  \/ StopSeen
  \/ TakeJob
  \/ Heartbeat
  \/ Written
  \/ WriteFails
  \/ FlushBegins
  \/ FlushWrites
  \/ FlushEnds

=============================================================================
