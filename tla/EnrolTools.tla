----------------------------- MODULE EnrolTools -----------------------------
(***************************************************************************)
(* The two batch tools on the resident database: enroll_faces, which adds  *)
(* the images of a directory of persons, and migrate_fdb, which imports an *)
(* old face database.  Each writes its batch in one transaction, opened    *)
(* with a call whose result is ignored, while the application opens the    *)
(* same file.  Which image gives a vector is a free choice, and a person's *)
(* images give one vector or none.                                         *)
(*                                                                         *)
(* The tools know a person by name, and residents.name is not UNIQUE: a    *)
(* lookup that fails is taken for a name that is not there.                *)
(***************************************************************************)
EXTENDS SchemaMigration

CONSTANTS
  Tool,   \* the process of the batch tool
  Names,  \* names of persons
  Name    \* the name that a row of residents has, or would get

ASSUME ToolAssumption == Tool \in Procs /\ Name \in [People -> Names]

VARIABLE batch  \* what the tool was asked to do, and how far it is

toolVars == <<migrationVars, batch>>

\* --replace of enroll_faces and --overwrite of migrate_fdb.
Orders == [kind : {"enroll", "migrate"}, replace : BOOLEAN,
           persons : SUBSET Names \ {{}}]

Batch(order) ==
  [kind |-> order.kind, replace |-> order.replace, persons |-> order.persons,
   todo |-> order.persons, who |-> Nobody,
   isNew |-> FALSE, added |-> FALSE, used |-> FALSE, told |-> {},
   missed |-> {}]  \* history: residents that enroll_faces took for new

Init == MigrationInit /\ \E order \in Orders : batch = Batch(order)

\* What the tool reads: its own transaction, or else what is committed.
View == IF holder = Tool THEN draft ELSE disk

\* A statement inside the transaction, or on its own if BEGIN has failed.
Write(content) ==
  \/ /\ holder = Tool
     /\ draft' = content
     /\ UNCHANGED <<disk, holder, opens, start>>
  \/ /\ Free
     /\ disk' = content /\ draft' = content
     /\ UNCHANGED <<holder, opens, start>>

Keep == UNCHANGED <<disk, draft, holder, opens, start>>

\* db.begin(): the batch goes on whether it worked or not.
BeginBatch ==
  /\ \/ Begin(Tool, "ready", "person")
     \/ At(Tool, "ready") /\ Go(Tool, "person") /\ Keep
  /\ batch' = [Batch(batch) EXCEPT !.missed = batch.missed]

\* find_resident: a row of that name, whichever SQLite finds first, or
\* Nobody, also when the statement fails.
Found(name) == {row \in DOMAIN View.residents : Name[row] = name} \cup {Nobody}

Inserted(row) ==
  [View EXCEPT !.residents = [y \in DOMAIN @ \cup {row} |->
                                IF y = row THEN "staff" ELSE @[y]]]

\* The next person of the directory or the file.  migrate_fdb leaves out the
\* residents it finds, unless they are to be overwritten.
SkipPerson(x) ==
  /\ At(Tool, "person") /\ x \in batch.todo
  /\ batch' = [batch EXCEPT !.todo = @ \ {x}]
  /\ UNCHANGED migrationVars

\* upsert_resident after its lookup: the row it has found, or one it inserts.
Upserted(name, found, who) ==
  \/ found # Nobody /\ who = found /\ Keep
  \/ found = Nobody /\ Name[who] = name /\ who \notin DOMAIN View.residents
     /\ Write(Inserted(who))

\* The tool looks the person up, and upsert_resident does so again; nothing
\* but the tool changes who is in the file in between.
UpsertPerson(x) ==
  \E seen, found \in Found(x), who \in People :
    /\ At(Tool, "person") /\ x \in batch.todo
    /\ batch.kind = "migrate" => seen = Nobody \/ batch.replace
    /\ Upserted(x, found, who)
    /\ batch' = [batch EXCEPT !.todo = @ \ {x}, !.who = who,
                              !.isNew = seen = Nobody, !.added = FALSE,
                              !.missed = IF batch.kind = "enroll" /\ seen = Nobody
                                         THEN @ \cup ({found} \ {Nobody}) ELSE @]
    /\ Go(Tool, IF batch.replace /\ seen # Nobody THEN "clear" ELSE "add")

Cleared == [View EXCEPT !.vectors[batch.who] = {}]

DeleteEmbeddings ==
  /\ At(Tool, "clear")
  /\ Write(Cleared) /\ Go(Tool, "add") /\ UNCHANGED batch

\* enroll_faces does not look at the result, migrate_fdb gives the person up.
DeleteFails ==
  /\ At(Tool, "clear") /\ Keep
  /\ Go(Tool, IF batch.kind = "enroll" THEN "add" ELSE "person")
  /\ UNCHANGED batch

AddEmbedding ==
  /\ At(Tool, "add")
  /\ Write([View EXCEPT !.vectors[batch.who] = @ \cup {"new"}])
  /\ batch' = [batch EXCEPT !.added = TRUE, !.used = TRUE]
  /\ Go(Tool, "end")

\* No image with a face that is large enough, or the INSERT fails.
AddNothing ==
  /\ At(Tool, "add") /\ Keep /\ Go(Tool, "end") /\ UNCHANGED batch

\* enroll_faces removes a resident it has just created and could not use.
Unusable == batch.kind = "enroll" /\ ~batch.added /\ batch.isNew

Removed ==
  [schema |-> View.schema, copy |-> View.copy,
   residents |-> [y \in DOMAIN View.residents \ {batch.who} |-> View.residents[y]],
   vectors |-> [View.vectors EXCEPT ![batch.who] = {}]]

Unchanged == batch.kind = "enroll" /\ ~batch.added /\ ~batch.isNew

\* The result of remove_resident is ignored, so it may also not happen.  Of
\* an existing resident the tool reports that it was left unchanged.
EndPerson ==
  /\ At(Tool, "end")
  /\ IF Unusable THEN Write(Removed) \/ Keep ELSE Keep
  /\ batch' = [batch EXCEPT !.told = IF Unchanged THEN @ \cup {batch.who} ELSE @]
  /\ Go(Tool, "person")

\* enroll_faces rolls a batch without any vector back; without a transaction
\* COMMIT and ROLLBACK do nothing.  The tool ends.
EndBatch ==
  /\ At(Tool, "person") /\ batch.todo = {}
  /\ IF holder = Tool /\ (batch.used \/ batch.kind = "migrate")
     THEN Commit(Tool, draft, "done")
     ELSE /\ Rollback(Tool)
          /\ Go(Tool, "done")
          /\ UNCHANGED <<disk, opens, start>>
  /\ UNCHANGED batch

ToolStep ==
  \/ BeginBatch
  \/ \E x \in Names : SkipPerson(x) \/ UpsertPerson(x)
  \/ DeleteEmbeddings \/ DeleteFails \/ AddEmbedding \/ AddNothing
  \/ EndPerson \/ EndBatch

Next ==
  \/ \E q \in Procs : MigrationStep(q) /\ UNCHANGED batch
  \/ ToolStep

Spec == Init /\ [][Next]_toolVars

-----------------------------------------------------------------------------
Opened == {"ready", "person", "clear", "add", "end", "done"}

\* A process whose open() has returned true works on the latest schema, with
\* every table, whoever created or migrated the file and whoever was killed
\* on the way (resident_db.cpp:74-93; the order of schema.sql matters).
OpenedIsLatest ==
  \A q \in Procs : proc[q].at \in Opened =>
    Tables \cup Columns \cup {"v3"} \subseteq disk.schema

\* Neither a migration nor a batch that breaks off anywhere costs a resident:
\* whoever was in the file is in it with the role, old or renamed, and with
\* the old vectors unless the tool was asked to replace them.  Exempt are
\* those whom enroll_faces did not find (enroll_faces.cpp:184) when
\* upsert_resident then did: them it may remove.
ResidentsSurvive ==
  \A x \in DOMAIN start.residents \ batch.missed :
    /\ x \in DOMAIN disk.residents
    /\ disk.residents[x] =
         IF "v3" \in disk.schema THEN NewRole(start.residents[x])
         ELSE start.residents[x]
    /\ "old" \in disk.vectors[x] \/ batch.replace

\* What enroll_faces.cpp:254-255 prints of a person whose images were of no
\* use, "existing resident left unchanged", is so when the tool is done.
ExistingUnchanged ==
  At(Tool, "done") =>
    \A x \in batch.told \cap DOMAIN start.residents : "old" \in disk.vectors[x]

\* What enroll_faces.cpp:181-183 says of the residents it removes, "without
\* deleting a pre-existing resident", of all who were in the file.
ExistingResidentsKept == DOMAIN start.residents \subseteq DOMAIN disk.residents

\* What open() relies on when it finds the table residents (resident_db.h:
\* 107-108, "If the DB has no tables yet, apply the schema"): the others are
\* there too, at least when nobody is creating them.
TablesOrNone ==
  (\A q \in Procs : ~At(q, "schema")) /\ "residents" \in disk.schema
    => Tables \subseteq disk.schema
=============================================================================
