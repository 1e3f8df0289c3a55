---------------------------- MODULE OutcomeSinks ----------------------------
(***************************************************************************)
(* Where the outcomes of the interaction manager go (src/src/main.cpp      *)
(* 831-876) and how the program ends (981-1013).  The frame thread logs an *)
(* event, counts the match of a confirmed resident, and tells the Edge     *)
(* Core: three calls, between which both worker threads run.  At the end   *)
(* it closes the Edge client and then the database.  The floor-call client *)
(* in between is FloorCallSystem's.  The process may also die at any time. *)
(***************************************************************************)
EXTENDS EdgeClient, ResidentDbWriter, FiniteSets

CONSTANT MaxOutcomes   \* bound of the model: outcomes of the run

ASSUME OutcomeAssumption == MaxOutcomes \in Nat

VARIABLES
  main,       \* the frame thread: "loop", "touch", "send", "closingEdge",
              \* "closeDb", "closingDb", "closed" or "dead"
  subject,    \* the resident of the outcome under way, Nobody if unknown
  outcomes    \* history: how many outcomes there were

mainVars == <<main, subject, outcomes>>
vars == <<edgeVars, writerVars, mainVars>>

Init ==
  /\ EdgeInit /\ WriterInit
  /\ main = "loop" /\ subject = Nobody /\ outcomes = 0

-----------------------------------------------------------------------------
(* One outcome.                                                             *)

Outcome(r) ==
  /\ main = "loop" /\ outcomes < MaxOutcomes
  /\ LogEvent(r)
  /\ main' = IF r = Nobody THEN "send" ELSE "touch"
  /\ subject' = r /\ outcomes' = outcomes + 1
  /\ UNCHANGED edgeVars

Touch ==
  /\ main = "touch"
  /\ TouchResident(subject)
  /\ main' = "send"
  /\ UNCHANGED <<edgeVars, subject, outcomes>>

Send ==
  /\ main = "send"
  /\ Enqueue(IF subject = Nobody THEN "unknown" ELSE "recog")
  /\ main' = "loop"
  /\ UNCHANGED <<writerVars, subject, outcomes>>

-----------------------------------------------------------------------------
(* The end of the program.                                                  *)

Quit ==
  /\ main = "loop"
  /\ EdgeClose
  /\ main' = "closingEdge"
  /\ UNCHANGED <<writerVars, subject, outcomes>>

EdgeIsClosed ==
  /\ main = "closingEdge"
  /\ EdgeJoined
  /\ main' = "closeDb"
  /\ UNCHANGED <<writerVars, subject, outcomes>>

CloseDb ==
  /\ main = "closeDb"
  /\ DbStop
  /\ main' = "closingDb"
  /\ UNCHANGED <<edgeVars, subject, outcomes>>

DbIsClosed ==
  /\ main = "closingDb"
  /\ DbClosed
  /\ main' = "closed"
  /\ UNCHANGED <<edgeVars, subject, outcomes>>

\* A kill or a power cut: only what is committed is left.
Dies ==
  /\ main \notin {"closed", "dead"}
  /\ main' = "dead"
  /\ q' = <<>> /\ job' = <<>> /\ rest' = <<>> /\ fd' = "none"
  /\ sender' = "exited"
  /\ jobs' = <<>> /\ batch' = <<>> /\ open' = <<>> /\ autocommit' = TRUE
  /\ writer' = "exited"
  /\ UNCHANGED <<edgeStop, backoff, sent, dropped, made, pings, arrived, dbStop,
                 stored, logged, faults, subject, outcomes>>

-----------------------------------------------------------------------------
Sender == SenderStep /\ UNCHANGED <<writerVars, mainVars>>

Writer == WriterStep /\ UNCHANGED <<edgeVars, mainVars>>

FinishOutcome == Touch \/ Send

Shutdown == EdgeIsClosed \/ CloseDb \/ DbIsClosed

Next ==
  \/ \E r \in Residents \cup {Nobody} : Outcome(r)
  \/ FinishOutcome
  \/ Quit
  \/ Shutdown
  \/ Dies
  \/ Sender
  \/ Writer

Spec == Init /\ [][Next]_vars

\* The threads run: connect() and send() return (SO_SNDTIMEO), a statement
\* waits at most the busy timeout, and the waits of both workers have a timeout
\* or are notified.  Nothing is assumed of the Edge Core or of the frames.
FairSpec ==
  /\ Spec
  /\ WF_vars(FinishOutcome) /\ WF_vars(Shutdown)
  /\ WF_vars(Sender) /\ WF_vars(Writer)

-----------------------------------------------------------------------------
SinksTypeOK ==
  /\ EdgeTypeOK /\ WriterTypeOK
  /\ main \in {"loop", "touch", "send", "closingEdge", "closeDb", "closingDb",
               "closed", "dead"}
  /\ subject \in Residents \cup {Nobody}
  /\ outcomes \in 0 .. MaxOutcomes

Ascending(s) == \A i, j \in 1 .. Len(s) : i < j => s[i].n < s[j].n

\* The Edge Core gets messages at most once and in the order they were made,
\* over failed writes, reconnections and the flush at the end; and until the
\* client is closed every message not received is waiting or counted in
\* dropped_ (enqueue and worker_loop, edge_client.cpp:98-215).
Line == arrived \o job \o rest \o q

EdgeCountedFifo ==
  /\ Ascending(Line)
  /\ sent = Len(arrived)
  /\ ~edgeStop /\ main # "dead" => Len(Line) + dropped = made

Of(kind, r) ==
  Cardinality({i \in 1 .. Len(stored) : stored[i].kind = kind
                                          /\ stored[i].resident = r})

\* The table has each job at most once and in order, whatever fails; and as
\* long as no statement of SQLite failed, a resident's match_count is never
\* ahead of the resident's rows in match_events, and equal to it once the
\* database is closed, when every event logged has its row (log_event,
\* touch_resident, flush_jobs and close, resident_db.cpp:536-637, 807-825).
Log == stored \o open \o batch \o jobs

TableFollowsEvents ==
  /\ Ascending(Log)
  /\ faults = 0 =>
       \A r \in Residents :
         /\ Of("touch", r) <= Of("event", r)
         /\ main = "closed" => /\ Of("touch", r) = Of("event", r)
                               /\ Len(stored) = logged

\* Once the program quits it ends, whatever the Edge Core does and whatever
\* SQLite answers: both joins return (EdgeClient::close and ResidentDB::close).
QuitEnds == (main = "closingEdge") ~> (main \in {"closed", "dead"})

\* A message given up because the queue is full is older than all that are
\* kept: requirements.md R4.3 of edge-core-uds, "drop gói cũ nhất", and the
\* comment "drop oldest (R4.3)" at edge_client.cpp:103.
InSeq(s) == {s[i] : i \in 1 .. Len(s)}

OldestDropped ==
  [][dropped' > dropped =>
       \A m \in InSeq(Line) \ InSeq(Line') :
         \A k \in InSeq(job') \cup InSeq(q') : m.n < k.n]_vars

=============================================================================
