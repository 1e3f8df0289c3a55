--------------------------- MODULE ResidentStore ---------------------------
(***************************************************************************)
(* The resident database as its readers see it: the residents and their    *)
(* embeddings that are committed, the enrolment tool that changes them in  *)
(* one transaction (resident_enroll.cpp and the write API of               *)
(* resident_db.cpp), and the application's own audit writes, which commit  *)
(* without touching a resident.                                            *)
(*                                                                         *)
(* The database is SQLite in WAL mode: a writer holds the one reservation  *)
(* from BEGIN IMMEDIATE to COMMIT or ROLLBACK, and nobody else sees what   *)
(* it wrote before the COMMIT.                                             *)
(***************************************************************************)
EXTENDS Naturals, FiniteSets

CONSTANTS
  Residents,   \* resident ids
  Metas,       \* what the residents table says of one: name, floor, role
  Embeddings,  \* embedding rows the tool can write
  Malformed,   \* those the catalog's validator refuses (other dimension)
  Nothing,     \* a model value: no transaction, no candidate
  MaxCommits   \* bound of the model: commits of all writers

ASSUME StoreAssumption ==
  /\ Malformed \subseteq Embeddings
  /\ MaxCommits \in Nat
  /\ IsFiniteSet(Embeddings)

VARIABLES
  db,        \* the committed residents
  commits,   \* the database's change counter
  enrolment, \* the tool's open transaction, or Nothing
  completed  \* history: the content after each finished enrolment or removal

storeVars == <<db, commits, enrolment, completed>>

Row == [meta : Metas, embs : SUBSET Embeddings]
Content == UNION {[S -> Row] : S \in SUBSET Residents}

\* add_person.cpp refuses a request without embeddings; --replace clears the
\* old ones, --merge and a first enrolment add.
Request == [rid : Residents, meta : Metas,
            embs : SUBSET Embeddings \ {{}}, replace : BOOLEAN]
Transaction == [req : Request, stage : {"upsert", "delete", "add"},
                left : SUBSET Embeddings, draft : Content]

StoreTypeOK ==
  /\ db \in Content
  /\ commits \in 0 .. MaxCommits
  /\ enrolment = Nothing \/ enrolment \in Transaction
  /\ completed \subseteq Content

StoreInit ==
  /\ db \in Content
  /\ commits = 0
  /\ enrolment = Nothing
  /\ completed = {db}

WriterFree == enrolment = Nothing

With(content, rid, row) ==
  [r \in DOMAIN content \cup {rid} |-> IF r = rid THEN row ELSE content[r]]

-----------------------------------------------------------------------------
(* write_resident_enrollment.                                               *)

BeginEnrolment(req) ==
  /\ WriterFree
  /\ commits < MaxCommits
  /\ enrolment' = [req |-> req, stage |-> "upsert", left |-> req.embs,
                   draft |-> db]
  /\ UNCHANGED <<db, commits, completed>>

\* Slip: the tool never opened a transaction, so every statement commits.
WriteThrough(content, stage, left) ==
  /\ enrolment' = [enrolment EXCEPT !.draft = content, !.stage = stage,
                                    !.left = left]
  /\ db' = content
  /\ commits' = IF commits < MaxCommits - 1 THEN commits + 1 ELSE commits
  /\ UNCHANGED completed

\* What a statement inside the transaction leaves behind.
Write(content, stage, left) ==
  /\ enrolment' = [enrolment EXCEPT !.draft = content, !.stage = stage,
                                    !.left = left]
  /\ UNCHANGED <<db, commits, completed>>

\* A resident found by its ext_id is updated, one found by its name keeps
\* what the table says of it; one not found is inserted.
Upserted(req, old, byName) ==
  IF req.rid \notin DOMAIN old THEN [meta |-> req.meta, embs |-> {}]
  ELSE IF byName THEN old[req.rid]
  ELSE [old[req.rid] EXCEPT !.meta = req.meta]

UpsertResident(byName) ==
  /\ ~WriterFree /\ enrolment.stage = "upsert"
  /\ LET req == enrolment.req
         old == enrolment.draft
     IN Write(With(old, req.rid, Upserted(req, old, byName)),
              IF req.replace THEN "delete" ELSE "add", enrolment.left)

DeleteEmbeddings ==
  /\ ~WriterFree /\ enrolment.stage = "delete"
  /\ Write([enrolment.draft EXCEPT ![enrolment.req.rid].embs = {}],
           "add", enrolment.left)

AddEmbedding(e) ==
  /\ ~WriterFree /\ enrolment.stage = "add" /\ e \in enrolment.left
  /\ Write([enrolment.draft EXCEPT ![enrolment.req.rid].embs = @ \cup {e}],
           "add", enrolment.left \ {e})

CommitEnrolment ==
  /\ ~WriterFree /\ enrolment.stage = "add" /\ enrolment.left = {}
  /\ db' = enrolment.draft
  /\ commits' = commits + 1
  /\ completed' = completed \cup {enrolment.draft}
  /\ enrolment' = Nothing

\* A statement or the COMMIT fails, or the tool is killed.
RollbackEnrolment ==
  /\ ~WriterFree
  /\ enrolment' = Nothing
  /\ UNCHANGED <<db, commits, completed>>

-----------------------------------------------------------------------------
(* The other writers.                                                       *)

\* A resident is deleted or deactivated; its embeddings leave the snapshot
\* with it.
RemoveResident(rid) ==
  /\ WriterFree
  /\ commits < MaxCommits
  /\ rid \in DOMAIN db
  /\ db' = [r \in DOMAIN db \ {rid} |-> db[r]]
  /\ commits' = commits + 1
  /\ completed' = completed \cup {db'}
  /\ UNCHANGED enrolment

\* The writer thread of the application commits match_events, last_seen_at
\* and match_count.
AuditCommit ==
  /\ WriterFree
  /\ commits < MaxCommits
  /\ commits' = commits + 1
  /\ UNCHANGED <<db, enrolment, completed>>

StoreNext ==
  \/ \E req \in Request : BeginEnrolment(req)
  \/ \E byName \in BOOLEAN : UpsertResident(byName)
  \/ DeleteEmbeddings
  \/ \E e \in Embeddings : AddEmbedding(e)
  \/ CommitEnrolment
  \/ RollbackEnrolment
  \/ \E rid \in Residents : RemoveResident(rid)
  \/ AuditCommit
=============================================================================
