--------------------------- MODULE CatalogReload ---------------------------
(***************************************************************************)
(* ResidentCatalogReloader, from src/src/resident_catalog.cpp, and the part*)
(* of main.cpp that drives it: a poll at startup that must succeed, then   *)
(* one poll per interval between two frames.  A poll looks at the data     *)
(* version of its own read connection, reads the residents and their       *)
(* embeddings in one read transaction, validates them, and hands out a     *)
(* candidate which main.cpp puts into use and accepts.  The writers of     *)
(* ResidentStore go on between any two of these steps.                     *)
(*                                                                         *)
(* Time is kept as what is left of each delay, so it never ends.           *)
(***************************************************************************)
EXTENDS ResidentStore

CONSTANTS
  PollInterval,  \* --resident-reload-ms, in ticks
  FirstBackoff,  \* the first delay before the connection is opened again
  MaxBackoff     \* the delay doubles up to this

ASSUME ReloadAssumption ==
  /\ PollInterval \in Nat \ {0}
  /\ FirstBackoff \in Nat \ {0}
  /\ MaxBackoff \in Nat /\ FirstBackoff <= MaxBackoff

VARIABLES
  pc,            \* where the main thread is
  reader,        \* the read connection: open, its data version, and the
                 \* change counter at which it last refreshed itself
  pollIn,        \* next_poll_ms_, as time left
  reopenIn,      \* next_reopen_ms_, as time left
  backoff,       \* reopen_backoff_ms_
  force,         \* force_full_snapshot_
  pending,       \* pending_retry_
  haveAccepted,  \* have_accepted_version_
  accepted,      \* accepted_data_version_
  generation,    \* generation_
  active,        \* the catalog in use, and active_digests_
  version,       \* poll: the data version it read
  snapshot,      \* poll: the content its read transaction is pinned to
  candidate      \* poll: what it hands to main.cpp

pollVars == <<version, snapshot, candidate>>
acceptedVars == <<haveAccepted, accepted, generation, active>>
reloadVars == <<pc, reader, pollIn, reopenIn, backoff, force, pending,
                acceptedVars, pollVars>>
vars == <<storeVars, reloadVars>>

Version == 0 .. MaxCommits + 1

\* A connection that works has no delay to double.
ReloadTypeOK ==
  /\ StoreTypeOK
  /\ reader.open => backoff = FirstBackoff
  /\ pc \in {"start", "idle", "scan", "embeddings", "candidate", "exited"}
  /\ reader \in [open : BOOLEAN, version : Version, seen : 0 .. MaxCommits]
  /\ pollIn \in 0 .. PollInterval
  /\ reopenIn \in 0 .. MaxBackoff
  /\ backoff \in FirstBackoff .. MaxBackoff
  /\ force \in BOOLEAN /\ pending \in BOOLEAN /\ haveAccepted \in BOOLEAN
  /\ accepted \in Version /\ version \in Version
  /\ generation \in Nat
  /\ active \in Content /\ snapshot \in Content
  /\ candidate = Nothing \/ candidate \in Content

Intact(content) ==
  \A r \in DOMAIN content : content[r].embs \cap Malformed = {}

EmptyContent == [r \in {} |-> Nothing]
ClosedReader == [open |-> FALSE, version |-> 0, seen |-> 0]

Init ==
  /\ StoreInit
  /\ pc = "start"
  /\ reader = ClosedReader
  /\ pollIn = 0 /\ reopenIn = 0 /\ backoff = FirstBackoff
  /\ force = TRUE /\ pending = FALSE
  /\ haveAccepted = FALSE /\ accepted = 0
  /\ generation = 0 /\ active = EmptyContent
  /\ version = 0 /\ snapshot = EmptyContent /\ candidate = Nothing

-----------------------------------------------------------------------------
(* The connection.  PRAGMA data_version is local to it: a connection that   *)
(* starts a read and finds the change counter moved takes the next number,  *)
(* and a new connection starts from the same number as the one before it.   *)

Refreshed(r) ==
  IF r.seen = commits THEN r
  ELSE [r EXCEPT !.version = @ + 1, !.seen = commits]

NewReader == [open |-> TRUE, version |-> 1, seen |-> commits]

\* main.cpp gives up at startup and keeps the old catalog later.
AfterFailure == IF generation = 0 THEN "exited" ELSE "idle"

EndPoll(next) ==
  /\ pc' = next
  /\ version' = 0 /\ snapshot' = EmptyContent /\ candidate' = Nothing

-----------------------------------------------------------------------------
(* open(), called once by main.cpp.                                         *)

Open ==
  /\ pc = "start"
  /\ pc' = "idle"
  /\ reader' = NewReader
  /\ force' = TRUE
  /\ UNCHANGED <<pollIn, reopenIn, backoff, pending, acceptedVars, pollVars>>

OpenFails ==
  /\ pc = "start"
  /\ pc' = "exited"
  /\ reopenIn' = backoff
  /\ UNCHANGED <<reader, pollIn, backoff, force, pending, acceptedVars,
                 pollVars>>

-----------------------------------------------------------------------------
(* poll(): ensure_reader and the data version.                              *)

Due ==
  /\ pc = "idle" /\ pollIn = 0
  /\ pollIn' = PollInterval

Usable == reader.open \/ reopenIn = 0

\* The connection ensure_reader leaves, after PRAGMA data_version, and what
\* it leaves of the rest: a new connection forgets every version.
Connection == IF reader.open THEN Refreshed(reader) ELSE NewReader
ForceFull == force \/ ~reader.open
KnowsAccepted == haveAccepted /\ reader.open

BackoffNow == IF reader.open THEN backoff ELSE FirstBackoff

PollInBackoff ==
  /\ Due
  /\ ~reader.open /\ reopenIn > 0
  /\ EndPoll(AfterFailure)
  /\ UNCHANGED <<reader, reopenIn, backoff, force, pending, acceptedVars>>

PollCannotReopen ==
  /\ Due
  /\ ~reader.open /\ reopenIn = 0
  /\ reopenIn' = backoff
  /\ backoff' = IF backoff * 2 < MaxBackoff THEN backoff * 2 ELSE MaxBackoff
  /\ EndPoll(AfterFailure)
  /\ UNCHANGED <<reader, force, pending, acceptedVars>>

\* reader_failed().
PollLosesReader ==
  /\ Due /\ Usable
  /\ reader' = ClosedReader
  /\ pending' = TRUE /\ force' = TRUE /\ haveAccepted' = FALSE
  /\ backoff' = BackoffNow
  /\ reopenIn' = BackoffNow
  /\ EndPoll(AfterFailure)
  /\ UNCHANGED <<accepted, generation, active>>

NothingNew ==
  /\ ~ForceFull /\ ~pending /\ KnowsAccepted
  /\ Connection.version = accepted

PollSkips ==
  /\ Due /\ Usable
  /\ NothingNew
  /\ reader' = Connection
  /\ pc' = "idle"
  /\ UNCHANGED <<reopenIn, backoff, force, pending, acceptedVars, pollVars>>

PollScans ==
  /\ Due /\ Usable
  /\ ~NothingNew
  /\ pc' = "scan"
  /\ reader' = Connection
  /\ version' = Connection.version
  /\ force' = ForceFull
  /\ haveAccepted' = KnowsAccepted
  /\ backoff' = BackoffNow
  /\ UNCHANGED <<reopenIn, pending, accepted, generation, active, snapshot,
                 candidate>>

-----------------------------------------------------------------------------
(* poll(): load_active_snapshot reads the residents, then the embeddings.   *)

ReadResidents ==
  /\ pc = "scan"
  /\ pc' = "embeddings"
  /\ reader' = Refreshed(reader)
  /\ snapshot' = db
  /\ UNCHANGED <<pollIn, reopenIn, backoff, force, pending, acceptedVars,
                 version, candidate>>

\* Slip: the two SELECTs run without a transaction.
EmbeddingRowsOutside == [r \in DOMAIN db |-> db[r].embs]

\* The second SELECT joins the active residents of the same read transaction.
EmbeddingRows == [r \in DOMAIN snapshot |-> snapshot[r].embs]

\* Slip: a malformed embedding is skipped, not refused.
ValidOwners(embs) == DOMAIN embs \subseteq DOMAIN snapshot

\* build_resident_catalog refuses an embedding without its resident and a
\* malformed one.
Valid(embs) ==
  /\ DOMAIN embs \subseteq DOMAIN snapshot
  /\ \A r \in DOMAIN embs : embs[r] \cap Malformed = {}

Catalog(embs) ==
  [r \in DOMAIN snapshot |->
     [meta |-> snapshot[r].meta,
      embs |-> IF r \in DOMAIN embs THEN embs[r] ELSE {}]]

\* Slip: the version of a failed scan counts as read.
ScanFailsForGood ==
  /\ pc \in {"scan", "embeddings"}
  /\ accepted' = version
  /\ EndPoll(AfterFailure)
  /\ UNCHANGED <<reader, pollIn, reopenIn, backoff, force, pending,
                 haveAccepted, generation, active>>

\* A statement fails, the catalog is not valid, or the matcher cannot be
\* built: the next poll tries again and nothing else changes.
ScanFails ==
  /\ pc \in {"scan", "embeddings"}
  /\ pending' = TRUE
  /\ EndPoll(AfterFailure)
  /\ UNCHANGED <<reader, pollIn, reopenIn, backoff, force, acceptedVars>>

SameCatalog(c) == generation > 0 /\ c = active

ScanFindsNoChange ==
  /\ pc = "embeddings"
  /\ Valid(EmbeddingRows) /\ SameCatalog(Catalog(EmbeddingRows))
  /\ accepted' = version
  /\ haveAccepted' = TRUE
  /\ force' = FALSE /\ pending' = FALSE
  /\ EndPoll("idle")
  /\ UNCHANGED <<reader, pollIn, reopenIn, backoff, generation, active>>

ScanFindsCandidate ==
  /\ pc = "embeddings"
  /\ Valid(EmbeddingRows) /\ ~SameCatalog(Catalog(EmbeddingRows))
  /\ candidate' = Catalog(EmbeddingRows)
  /\ pc' = "candidate"
  /\ UNCHANGED <<reader, pollIn, reopenIn, backoff, force, pending,
                 acceptedVars, version, snapshot>>

-----------------------------------------------------------------------------
(* main.cpp puts the candidate into use and calls accept().                 *)

\* Slip: the version is taken when the catalog is accepted.
VersionAtAccept == Refreshed(reader).version

ObservedVersion == version

Accept ==
  /\ pc = "candidate"
  /\ active' = candidate
  /\ generation' = generation + 1
  /\ accepted' = ObservedVersion
  /\ haveAccepted' = TRUE
  /\ force' = FALSE /\ pending' = FALSE
  /\ EndPoll("idle")
  /\ UNCHANGED <<reader, pollIn, reopenIn, backoff>>

-----------------------------------------------------------------------------
\* Time passes; now_ms() is past a deadline once nothing is left of it.
Less(n) == IF n = 0 THEN 0 ELSE n - 1

Tick ==
  /\ pollIn > 0 \/ reopenIn > 0
  /\ pollIn' = Less(pollIn) /\ reopenIn' = Less(reopenIn)
  /\ UNCHANGED <<pc, reader, backoff, force, pending, acceptedVars, pollVars>>

Reload ==
  \/ Open \/ OpenFails
  \/ PollInBackoff \/ PollCannotReopen \/ PollLosesReader
  \/ PollSkips \/ PollScans
  \/ ReadResidents \/ ScanFails \/ ScanFindsNoChange \/ ScanFindsCandidate
  \/ Accept

\* The application stopped and the writers are done.
Exited == pc = "exited" /\ UNCHANGED vars

Next ==
  \/ StoreNext /\ UNCHANGED reloadVars
  \/ (Reload \/ Tick) /\ UNCHANGED storeVars
  \/ Exited

Step(A) == A /\ UNCHANGED storeVars

\* The main loop goes on and time passes; what is tried again and again (to
\* open the database, to read it) works in the end.
Fairness ==
  /\ WF_vars(Step(Tick))
  /\ WF_vars(Step(Reload))
  /\ SF_vars(Step(PollScans \/ PollSkips))
  /\ SF_vars(Step(ReadResidents))
  /\ SF_vars(Step(ScanFindsNoChange \/ ScanFindsCandidate))

Spec == Init /\ [][Next]_vars
FairSpec == Spec /\ Fairness

-----------------------------------------------------------------------------
(* Properties.                                                              *)

\* resident_catalog.cpp 190-197: when a poll may stop at the data version,
\* the catalog in use is what the database holds at that moment, whatever was
\* committed while the accepted one was read, across failures and new
\* connections.
SkipIsSound ==
  pc = "idle" /\ Usable /\ NothingNew => active = db

\* resident_db.cpp 420-530, resident_enroll.cpp and requirements.md R4: what
\* is in use is the outcome of whole enrolments, never the residents of one
\* commit with the embeddings of another nor half of an enrolment, and it
\* holds no malformed embedding.
RuntimeIsWhole ==
  generation > 0 => active \in completed /\ Intact(active)

\* requirements.md, R2.5: commits that change no resident never replace the
\* catalog (and so never touch a track or a session).
AuditNeverReloads ==
  [][generation > 0 /\ generation' # generation => active' # active]_vars

\* requirements.md, R3.6 and R3.8: once the writers are done and what they
\* left is valid, the application ends up with it, through busy databases,
\* lost connections and failed scans, without another commit to wake it.
Converges ==
  <>[](Intact(db) /\ pc # "exited") => <>[](active = db)
=============================================================================
