-------------------------- MODULE ResidentDbWriter --------------------------
(***************************************************************************)
(* The asynchronous writer of the resident database, src/src/              *)
(* resident_db.cpp 536-637 and 807-825: log_event and touch_resident put   *)
(* jobs into a queue, the writer thread takes the whole queue and runs it  *)
(* as one transaction on its connection.  SQLite is outside: a statement   *)
(* may fail, alone or with the whole transaction (disk full, I/O error),   *)
(* and a COMMIT that fails may leave the transaction open.  Jobs are       *)
(* numbered in the order they are queued.                                  *)
(***************************************************************************)
EXTENDS Integers, Sequences

CONSTANTS
  Residents,
  Nobody,       \* the resident of an event "unknown" (NULL in the table)
  MaxFaults     \* bound of the model: statements that fail by themselves

ASSUME WriterAssumption ==
  /\ Nobody \notin Residents
  /\ MaxFaults \in Nat

Job == [n : Nat \ {0}, kind : {"event"}, resident : Residents \cup {Nobody}]
         \cup [n : Nat \ {0}, kind : {"touch"}, resident : Residents]

VARIABLES
  dbStop,     \* stop_
  jobs,       \* queue_
  writer,     \* where the writer is: "wait", "begin", "run" or "exited"
  batch,      \* the jobs of this batch that have not run yet
  autocommit, \* no transaction is open on the connection
  open,       \* what the open transaction has written
  stored,     \* what is committed: rows of match_events, and increments of
              \* match_count
  logged,     \* history: how many jobs were queued
  faults      \* history: how many statements failed by themselves

writerVars == <<dbStop, jobs, writer, batch, autocommit, open, stored, logged,
                faults>>

WriterTypeOK ==
  /\ dbStop \in BOOLEAN
  /\ jobs \in Seq(Job) /\ batch \in Seq(Job)
  /\ open \in Seq(Job) /\ stored \in Seq(Job)
  /\ writer \in {"wait", "begin", "run", "exited"}
  /\ autocommit \in BOOLEAN
  /\ autocommit => open = <<>>
  /\ logged \in Nat
  /\ faults \in 0 .. MaxFaults

WriterInit ==
  /\ dbStop = FALSE /\ jobs = <<>> /\ writer = "wait" /\ batch = <<>>
  /\ autocommit = TRUE /\ open = <<>> /\ stored = <<>>
  /\ logged = 0 /\ faults = 0

-----------------------------------------------------------------------------
(* The frame thread.                                                        *)

Queued(kind, r) ==
  /\ jobs' = Append(jobs, [n |-> logged + 1, kind |-> kind, resident |-> r])
  /\ logged' = logged + 1
  /\ UNCHANGED <<dbStop, writer, batch, autocommit, open, stored, faults>>

LogEvent(r) == Queued("event", r)

TouchResident(r) == Queued("touch", r)

\* close(), up to the join.
DbStop ==
  /\ dbStop' = TRUE
  /\ UNCHANGED <<jobs, writer, batch, autocommit, open, stored, logged, faults>>

\* close(), after the join: sqlite3_close rolls an open transaction back.
DbClosed ==
  /\ dbStop /\ writer = "exited"
  /\ autocommit' = TRUE /\ open' = <<>>
  /\ UNCHANGED <<dbStop, jobs, writer, batch, stored, logged, faults>>

-----------------------------------------------------------------------------
(* The writer thread.                                                       *)

Fault == faults < MaxFaults /\ faults' = faults + 1

TakeBatch ==
  /\ writer = "wait" /\ jobs # <<>>
  /\ batch' = jobs /\ jobs' = <<>>
  /\ writer' = "begin"
  /\ UNCHANGED <<dbStop, autocommit, open, stored, logged, faults>>

\* Slip: the writer leaves as soon as it sees stop_.
WriterExitsAtOnce ==
  /\ writer = "wait" /\ dbStop
  /\ writer' = "exited"
  /\ UNCHANGED <<dbStop, jobs, batch, autocommit, open, stored, logged, faults>>

\* Slip: the writer only looks at stop_ when it has written something.
WriterNeverExits ==
  /\ writer = "run" /\ dbStop /\ batch = <<>> /\ jobs = <<>>
  /\ writer' = "exited"
  /\ UNCHANGED <<dbStop, jobs, batch, autocommit, open, stored, logged, faults>>

\* The queue is empty and stays so, the frame thread is in close(): the drain
\* after the loop finds nothing.
WriterExits ==
  /\ writer = "wait" /\ dbStop /\ jobs = <<>>
  /\ writer' = "exited"
  /\ UNCHANGED <<dbStop, jobs, batch, autocommit, open, stored, logged, faults>>

\* The batch without the jobs of a kind.
Without(s, kind) ==
  LET f[n \in 0 .. Len(s)] ==
        IF n = 0 THEN <<>>
        ELSE IF s[n].kind = kind THEN f[n - 1] ELSE Append(f[n - 1], s[n])
  IN f[Len(s)]

\* A statement that cannot be prepared leaves the jobs of its kind out.
PrepareFails(kind) ==
  /\ writer = "begin"
  /\ \E i \in 1 .. Len(batch) : batch[i].kind = kind
  /\ Fault
  /\ batch' = Without(batch, kind)
  /\ UNCHANGED <<dbStop, jobs, writer, autocommit, open, stored, logged>>

BatchBegins ==
  /\ writer = "begin" /\ autocommit
  /\ autocommit' = FALSE /\ writer' = "run"
  /\ UNCHANGED <<dbStop, jobs, batch, open, stored, logged, faults>>

\* BEGIN IMMEDIATE fails: the database is locked, or a transaction is still
\* open.  The batch is dropped.
BatchDropped ==
  /\ writer = "begin"
  /\ IF autocommit THEN Fault ELSE UNCHANGED faults
  /\ batch' = <<>> /\ writer' = "wait"
  /\ UNCHANGED <<dbStop, jobs, autocommit, open, stored, logged>>

\* Without a transaction, lost to an earlier failure, a statement commits by
\* itself.
JobRuns ==
  /\ writer = "run" /\ batch # <<>>
  /\ IF autocommit
     THEN stored' = Append(stored, Head(batch)) /\ UNCHANGED open
     ELSE open' = Append(open, Head(batch)) /\ UNCHANGED stored
  /\ batch' = Tail(batch)
  /\ UNCHANGED <<dbStop, jobs, writer, autocommit, logged, faults>>

\* sqlite3_step fails: only logged.  SQLite may have rolled back.
JobFails ==
  /\ writer = "run" /\ batch # <<>>
  /\ Fault
  /\ batch' = Tail(batch)
  /\ \/ UNCHANGED <<autocommit, open>>
     \/ autocommit' = TRUE /\ open' = <<>>
  /\ UNCHANGED <<dbStop, jobs, writer, stored, logged>>

Commits ==
  /\ writer = "run" /\ batch = <<>> /\ ~autocommit
  /\ stored' = stored \o open /\ open' = <<>> /\ autocommit' = TRUE
  /\ writer' = "wait"
  /\ UNCHANGED <<dbStop, jobs, batch, logged, faults>>

\* The result of COMMIT is ignored: the transaction is rolled back or stays
\* open, or there was none.
CommitFails ==
  /\ writer = "run" /\ batch = <<>>
  /\ IF autocommit
     THEN UNCHANGED <<faults, autocommit, open>>
     ELSE /\ Fault
          /\ \/ UNCHANGED <<autocommit, open>>
             \/ autocommit' = TRUE /\ open' = <<>>
  /\ writer' = "wait"
  /\ UNCHANGED <<dbStop, jobs, batch, stored, logged>>

WriterStep ==
  \/ TakeBatch
  \/ WriterExits
  \/ \E kind \in {"event", "touch"} : PrepareFails(kind)
  \/ BatchBegins
  \/ BatchDropped
  \/ JobRuns
  \/ JobFails
  \/ Commits
  \/ CommitFails

=============================================================================
