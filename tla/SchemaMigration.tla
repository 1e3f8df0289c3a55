-------------------------- MODULE SchemaMigration --------------------------
(***************************************************************************)
(* ResidentDB::open: the application and the enrolment tools open one      *)
(* SQLite file, create its tables from db/schema.sql when there are none   *)
(* and bring an older file to the latest schema, each in its own process   *)
(* that may fail or be killed at any statement.                            *)
(*                                                                         *)
(* schema.sql runs statement by statement, each committed on its own; the  *)
(* migrations run in transactions, and a file has one writer at a time.    *)
(* A process that waits too long for the writer gets an error, which is    *)
(* one of the failures.                                                    *)
(***************************************************************************)
EXTENDS Naturals, Sequences, FiniteSets

CONSTANTS
  Procs,    \* processes that open the file
  People,   \* rows of the table residents, by id
  Nobody,   \* a model value
  MaxOpens  \* bound of the model: calls of open, over all processes

ASSUME MigrationAssumption == MaxOpens \in Nat /\ Nobody \notin Procs \cup People

VARIABLES
  disk,   \* what is committed
  draft,  \* what the open write transaction would commit, or else disk
  holder, \* the process with the write transaction, or Nobody
  proc,   \* per process: where open() is, and the version it has read
  opens,  \* counts the calls of open
  start   \* history: the file at the beginning

migrationVars == <<disk, draft, holder, proc, opens, start>>

\* A file: the tables, columns and version rows it has, the residents with
\* their roles, residents_new, and the vectors of each resident.
Script == <<"residents", "embeddings", "cabins", "match_events",
            "schema_version", "v1", "v2", "v3", "dev_cabin">>

Tables == {"residents", "embeddings", "cabins", "match_events", "schema_version"}
Columns == {"config", "ext_id", "roles"}
LegacyRoles == {"resident", "vip"}

NoFile == [schema |-> {}, residents |-> <<>>, copy |-> Nobody,
           vectors |-> [x \in People |-> {}]]

\* Files of the versions so far: the config columns and ext_id came with
\* version 2, the new roles with version 3.
Older(roles, schema) ==
  [schema |-> Tables \cup {"v1", "dev_cabin"} \cup schema, residents |-> roles,
   copy |-> Nobody,
   vectors |-> [x \in People |-> IF x \in DOMAIN roles THEN {"old"} ELSE {}]]

Files ==
  {NoFile} \cup
  {Older(roles, schema) :
     roles \in UNION {[S -> LegacyRoles] : S \in SUBSET People},
     schema \in {{}, {"v2", "config", "ext_id"}}}

Closed == [at |-> "closed", next |-> 0, cur |-> 0]

MigrationInit ==
  /\ disk \in Files
  /\ start = disk
  /\ draft = disk
  /\ holder = Nobody
  /\ proc = [q \in Procs |-> Closed]
  /\ opens = 0

At(q, place) == proc[q].at = place
Go(q, place) == proc' = [proc EXCEPT ![q].at = place]
Free == holder = Nobody

-----------------------------------------------------------------------------
(* open() and apply_schema.                                                 *)

Open(q) ==
  /\ At(q, "closed") /\ opens < MaxOpens
  /\ opens' = opens + 1
  /\ Go(q, "has_tables")
  /\ UNCHANGED <<disk, draft, holder, start>>

\* Only the table residents is looked for.
HasTables(q) ==
  /\ At(q, "has_tables")
  /\ proc' = [proc EXCEPT ![q].next = 1,
       ![q].at = IF "residents" \in disk.schema THEN "version" ELSE "schema"]
  /\ UNCHANGED <<disk, draft, holder, opens, start>>

\* CREATE TABLE IF NOT EXISTS brings the columns of today with the table.
Created(schema, item) ==
  schema \cup {item} \cup
  IF item \in schema THEN {}
  ELSE CASE item = "residents" -> {"ext_id", "roles"}
         [] item = "cabins" -> {"config"}
         [] OTHER -> {}

\* Slip: the versions are noted before the tables are there.
StatementVersionsFirst(k) ==
  IF k <= 4 THEN Script[k + 4] ELSE IF k <= 8 THEN Script[k - 4] ELSE Script[k]

Statement(k) == Script[k]

ApplySchema(q) ==
  /\ At(q, "schema") /\ Free
  /\ disk' = [disk EXCEPT !.schema = Created(@, Statement(proc[q].next))]
  /\ draft' = disk'
  /\ proc' = [proc EXCEPT ![q].next = @ + 1,
       ![q].at = IF proc[q].next = Len(Script) THEN "version" ELSE @]
  /\ UNCHANGED <<holder, opens, start>>

-----------------------------------------------------------------------------
(* apply_migrations.                                                        *)

\* Without the table, or without a row in it, the version is 0.
CurrentSchemaVersion ==
  CASE "schema_version" \notin disk.schema -> 0
    [] "v3" \in disk.schema -> 3
    [] "v2" \in disk.schema -> 2
    [] "v1" \in disk.schema -> 1
    [] OTHER -> 0

\* The version is read once, before the transactions, whatever others do.
ReadVersion(q) ==
  LET cur == CurrentSchemaVersion
  IN /\ At(q, "version")
     /\ proc' = [proc EXCEPT ![q].cur = cur,
          ![q].at = IF cur < 2 THEN "v2" ELSE IF cur < 3 THEN "v3" ELSE "ready"]
     /\ UNCHANGED <<disk, draft, holder, opens, start>>

Begin(q, from, to) ==
  /\ At(q, from) /\ Free
  /\ holder' = q /\ draft' = disk
  /\ Go(q, to)
  /\ UNCHANGED <<disk, opens, start>>

Commit(q, content, to) ==
  /\ disk' = content /\ draft' = content
  /\ holder' = Nobody
  /\ Go(q, to)
  /\ UNCHANGED <<opens, start>>

Change(q, content, to) ==
  /\ draft' = content
  /\ Go(q, to)
  /\ UNCHANGED <<disk, holder, opens, start>>

\* A column that is there already is no error; a missing table is.
AddColumns(q) ==
  /\ At(q, "v2.columns")
  /\ {"cabins", "residents"} \subseteq draft.schema
  /\ Change(q, [draft EXCEPT !.schema = @ \cup {"config", "ext_id"}], "v2.version")

CommitV2(q) ==
  /\ At(q, "v2.version") /\ "schema_version" \in draft.schema
  /\ Commit(q, [draft EXCEPT !.schema = @ \cup {"v2"}], "v3")

NewRole(role) == IF role = "resident" THEN "staff" ELSE role

\* residents_new gets every row, under the id it had.
CopyResidents(q) ==
  /\ At(q, "v3.copy")
  /\ Change(q, [draft EXCEPT !.copy =
                  [x \in DOMAIN draft.residents |-> NewRole(draft.residents[x])]],
            "v3.drop")

\* Slip: with foreign keys enforced the vectors go with their residents.
DroppedCascading(content) ==
  [content EXCEPT !.residents = <<>>, !.vectors = [x \in People |-> {}]]

\* Foreign keys are off on this connection.
Dropped(content) == [content EXCEPT !.residents = <<>>]

DropResidents(q) ==
  /\ At(q, "v3.drop")
  /\ Change(q, Dropped(draft), "v3.rename")

RenameResidents(q) ==
  /\ At(q, "v3.rename")
  /\ Change(q, [schema |-> draft.schema \cup {"roles"}, residents |-> draft.copy,
                copy |-> Nobody, vectors |-> draft.vectors], "v3.version")

CommitV3(q) ==
  /\ At(q, "v3.version") /\ "schema_version" \in draft.schema
  /\ Commit(q, [draft EXCEPT !.schema = @ \cup {"v3"}], "ready")

Rollback(q) ==
  /\ holder' = IF holder = q THEN Nobody ELSE holder
  /\ draft' = IF holder = q THEN disk ELSE draft

\* A statement fails and open() returns false, or the process is killed:
\* what it had not committed is gone.
Abandon(q) ==
  /\ ~At(q, "closed")
  /\ proc' = [proc EXCEPT ![q] = Closed]
  /\ Rollback(q)
  /\ UNCHANGED <<disk, opens, start>>

MigrationStep(q) ==
  \/ Open(q) \/ HasTables(q) \/ ApplySchema(q) \/ ReadVersion(q)
  \/ Begin(q, "v2", "v2.columns") \/ AddColumns(q) \/ CommitV2(q)
  \/ Begin(q, "v3", "v3.copy") \/ CopyResidents(q) \/ DropResidents(q)
  \/ RenameResidents(q) \/ CommitV3(q)
  \/ Abandon(q)
=============================================================================
