---------------------------- MODULE EnrolProofs ----------------------------
(***************************************************************************)
(* Whoever has opened the database works on the latest schema, and no      *)
(* resident is lost, for any number of processes, residents and calls of   *)
(* open, with failures and kills at every statement.                       *)
(*                                                                         *)
(* The argument has three parts.  Every file that is ever committed is     *)
(* sound: a version row implies what the version promises.  The place of   *)
(* a process tells what it has seen committed, which nothing takes back.   *)
(* And what a write transaction has done so far keeps every resident,      *)
(* except between the DROP and the RENAME of version 3, when the copy      *)
(* holds them.                                                             *)
(***************************************************************************)
EXTENDS EnrolTools, TLAPS

Places == {"closed", "has_tables", "schema", "version", "v2", "v2.columns",
           "v2.version", "v3", "v3.copy", "v3.drop", "v3.rename", "v3.version",
           "ready", "person", "clear", "add", "end", "done"}
Migrating == {"v2.columns", "v2.version", "v3.copy", "v3.drop", "v3.rename",
              "v3.version"}
PastV2 == {"v3", "v3.copy", "v3.drop", "v3.rename", "v3.version"}
Batching == {"person", "clear", "add", "end"}

IsFile(f) ==
  /\ f = [schema |-> f.schema, residents |-> f.residents, copy |-> f.copy,
          vectors |-> f.vectors]
  /\ DOMAIN f.vectors = People

IsBatch(b) ==
  b = [kind |-> b.kind, replace |-> b.replace, persons |-> b.persons,
       todo |-> b.todo, who |-> b.who, isNew |-> b.isNew, added |-> b.added,
       used |-> b.used, told |-> b.told, missed |-> b.missed]

\* What the rows of schema_version say is so, and tables that were created
\* by today's script have today's columns.
SchemaSound(s) ==
  /\ start.schema \subseteq s
  /\ "schema_version" \in s => Tables \subseteq s
  /\ "v2" \in s => Tables \cup {"config", "ext_id"} \subseteq s
  /\ "v3" \in s => {"v2", "roles"} \subseteq s
  /\ start.schema = {} /\ "residents" \in s => {"ext_id", "roles"} \subseteq s
  /\ start.schema = {} /\ "cabins" \in s => "config" \in s

\* Everybody but whom the tool has taken for new.
RolesKept(residents, new) ==
  \A x \in DOMAIN start.residents \ batch.missed :
    /\ x \in DOMAIN residents
    /\ residents[x] = IF new THEN NewRole(start.residents[x])
                      ELSE start.residents[x]

VectorsKept(f) ==
  \A x \in DOMAIN start.residents \ batch.missed :
    "old" \in f.vectors[x] \/ batch.replace

\* What was in the file, and what it is now.
FilesSound ==
  /\ IsFile(disk) /\ IsFile(draft)
  /\ SchemaSound(disk.schema) /\ SchemaSound(draft.schema)
  /\ disk.schema \subseteq draft.schema
  /\ IF start.schema = {} THEN DOMAIN start.residents = {}
     ELSE "residents" \in start.schema
  /\ \A x \in DOMAIN start.residents :
       x \in People /\ start.residents[x] \in LegacyRoles
  /\ RolesKept(disk.residents, "v3" \in disk.schema)
  /\ VectorsKept(disk) /\ VectorsKept(draft)

\* What the place of a process says about the file.
PlacesSound ==
  /\ proc \in [Procs -> [at : Places, next : Nat, cur : Nat]]
  /\ holder \in Procs \cup {Nobody}
  /\ Free => draft = disk
  /\ \A q \in Procs :
       /\ At(q, "schema") =>
            /\ start.schema = {} /\ proc[q].next \in 1 .. Len(Script)
            /\ \A k \in 1 .. Len(Script) :
                 k < proc[q].next => Script[k] \in disk.schema
       /\ proc[q].at \in PastV2 => "v2" \in disk.schema
       /\ proc[q].at \in Opened => "v3" \in disk.schema
       /\ proc[q].at \in Migrating => holder = q
       /\ At(q, "v2.version") => {"config", "ext_id"} \subseteq draft.schema
       /\ At(q, "v3.version") => "roles" \in draft.schema
       /\ holder = q => \/ proc[q].at \in Migrating
                        \/ q = Tool /\ proc[q].at \in Batching

\* Where the residents are during a write transaction.
DraftKept ==
  \A q \in Procs : holder = q =>
    CASE At(q, "v3.drop") -> RolesKept(draft.copy, TRUE)
      [] At(q, "v3.rename") -> RolesKept(draft.copy, TRUE)
      [] At(q, "v3.version") -> RolesKept(draft.residents, TRUE)
      [] OTHER -> RolesKept(draft.residents, "v3" \in draft.schema)

\* enroll_faces removes only whom it has created or not found, and both tools
\* clear only when asked to.
ToolSound ==
  /\ IsBatch(batch)
  /\ At(Tool, "clear") => batch.replace
  /\ proc[Tool].at \in {"clear", "add", "end"} /\ batch.isNew /\ batch.kind = "enroll" =>
       batch.who \notin DOMAIN start.residents \ batch.missed

IInv == FilesSound /\ PlacesSound /\ DraftKept /\ ToolSound

-----------------------------------------------------------------------------
(* Facts about the parts of the invariant.                                  *)

\* Nothing that a file was promised to have is ever lost by having more.
LEMMA NoCommit ==
  ASSUME FilesSound, UNCHANGED <<disk, draft, start, batch>>
  PROVE  FilesSound'
BY DEF FilesSound, IsFile, SchemaSound, RolesKept, VectorsKept

\* A process that only looks, or waits, leaves the draft to its owner.
LEMMA DraftUntouched ==
  ASSUME DraftKept, UNCHANGED <<draft, holder, start, batch>>,
         NEW q \in Procs, holder # q,
         \A r \in Procs \ {q} : proc'[r] = proc[r]
  PROVE  DraftKept'
BY DEF DraftKept, RolesKept, At

-----------------------------------------------------------------------------
LEMMA InitSound == Init => IInv
<1> SUFFICES ASSUME Init PROVE IInv
  OBVIOUS
<1> USE DEF Init, MigrationInit
<1>1. disk \in Files /\ start = disk /\ draft = disk /\ IsBatch(batch)
  BY DEF Batch, IsBatch
<1>2. FilesSound
  <2>1. CASE disk = NoFile
    BY <1>1, <2>1 DEF FilesSound, NoFile, IsFile, SchemaSound, RolesKept, VectorsKept
  <2>2. CASE \E roles \in UNION {[S -> LegacyRoles] : S \in SUBSET People},
                schema \in {{}, {"v2", "config", "ext_id"}} :
               disk = Older(roles, schema)
    <3>1. PICK roles \in UNION {[S -> LegacyRoles] : S \in SUBSET People},
               schema \in {{}, {"v2", "config", "ext_id"}} :
                 disk = Older(roles, schema)
      BY <2>2
    <3>2. DOMAIN roles \subseteq People /\ \A x \in DOMAIN roles : roles[x] \in LegacyRoles
      OBVIOUS
    <3> HIDE DEF Init, MigrationInit
    <3>3. /\ disk.schema = Tables \cup {"v1", "dev_cabin"} \cup schema
          /\ disk.residents = roles /\ IsFile(disk)
          /\ \A x \in DOMAIN roles : disk.vectors[x] = {"old"}
      BY <3>1, <3>2 DEF Older, IsFile
    <3> QED
      BY <1>1, <3>2, <3>3 DEF FilesSound, SchemaSound, RolesKept, VectorsKept, Tables
  <2> QED
    BY <1>1, <2>1, <2>2 DEF Files
<1>3. PlacesSound
  BY MigrationAssumption
     DEF PlacesSound, Places, Closed, At, PastV2, Opened, Migrating, Free
<1>4. DraftKept /\ ToolSound
  BY <1>1, MigrationAssumption, ToolAssumption DEF DraftKept, ToolSound, Closed, At
<1> QED
  BY <1>2, <1>3, <1>4 DEF IInv

-----------------------------------------------------------------------------
(* The steps of open().                                                     *)

LEMMA OpenKeeps ==
  ASSUME IInv, NEW q \in Procs, Open(q), UNCHANGED batch
  PROVE  IInv'
<1> USE DEF IInv
<1>1. /\ At(q, "has_tables")' /\ \A r \in Procs \ {q} : proc'[r] = proc[r]
      /\ proc' \in [Procs -> [at : Places, next : Nat, cur : Nat]]
  <2> DEFINE P == [at : Places, next : Nat, cur : Nat]
  <2>1. proc \in [Procs -> P]
    BY DEF PlacesSound
  <2>2. proc' = [proc EXCEPT ![q].at = "has_tables"]
    BY DEF Open, Go
  <2> HIDE DEF IInv
  <2>3. "has_tables" \in Places
    BY DEF Places
  <2> QED
    BY <2>1, <2>2, <2>3 DEF At
<1>2. holder # q
  BY DEF Open, PlacesSound, At, Migrating, Batching
<1>3. FilesSound' /\ DraftKept'
  BY <1>1, <1>2, NoCommit, DraftUntouched DEF Open
<1>4. PlacesSound'
  BY <1>1, <1>2 DEF Open, PlacesSound, At, PastV2, Opened, Migrating, Free
<1>5. ToolSound'
  BY <1>1, ToolAssumption DEF Open, ToolSound, At, IsBatch
<1> QED
  BY <1>3, <1>4, <1>5

LEMMA HasTablesKeeps ==
  ASSUME IInv, NEW q \in Procs, HasTables(q), UNCHANGED batch
  PROVE  IInv'
<1> USE DEF IInv
<1>1. /\ proc'[q].at = IF "residents" \in disk.schema THEN "version" ELSE "schema"
      /\ proc'[q].next = 1
      /\ \A r \in Procs \ {q} : proc'[r] = proc[r]
      /\ proc' \in [Procs -> [at : Places, next : Nat, cur : Nat]]
  <2> DEFINE place == IF "residents" \in disk.schema THEN "version" ELSE "schema"
             P == [at : Places, next : Nat, cur : Nat]
  <2>1. proc \in [Procs -> P]
    BY DEF PlacesSound
  <2>2. proc' = [proc EXCEPT ![q].next = 1, ![q].at = place]
    BY DEF HasTables
  <2>3. place \in Places
    BY DEF Places
  <2> HIDE DEF IInv, place
  <2>4. /\ proc'[q] = [proc[q] EXCEPT !.next = 1, !.at = place]
        /\ proc' \in [Procs -> P]
    BY <2>1, <2>2, <2>3
  <2>5. \A r \in Procs \ {q} : proc'[r] = proc[r]
    BY <2>1, <2>2
  <2>6. proc'[q].at = place /\ proc'[q].next = 1
    BY <2>1, <2>4
  <2> QED
    BY <2>4, <2>5, <2>6 DEF place
<1>2. holder # q
  BY DEF HasTables, PlacesSound, At, Migrating, Batching
<1>3. FilesSound' /\ DraftKept'
  BY <1>1, <1>2, NoCommit, DraftUntouched DEF HasTables
<1>4. At(q, "schema")' => start.schema = {} /\ Len(Script) = 9
  BY <1>1 DEF At, FilesSound, SchemaSound, Script
<1>5. PlacesSound'
  BY <1>1, <1>2, <1>4
     DEF HasTables, PlacesSound, At, PastV2, Opened, Migrating, Free
<1>6. ToolSound'
  BY <1>1, ToolAssumption DEF HasTables, ToolSound, At, IsBatch
<1> QED
  BY <1>3, <1>5, <1>6

LEMMA ApplySchemaKeeps ==
  ASSUME IInv, NEW q \in Procs, ApplySchema(q), UNCHANGED batch
  PROVE  IInv'
<1> USE DEF IInv
<1> DEFINE n == proc[q].next
<1>1. /\ Len(Script) = 9 /\ n \in 1 .. 9 /\ start.schema = {}
      /\ \A k \in 1 .. 9 : k < n => Script[k] \in disk.schema
      /\ holder = Nobody /\ draft = disk
  BY DEF ApplySchema, PlacesSound, Free, Script
<1>2. /\ proc'[q].at = IF n = 9 THEN "version" ELSE "schema"
      /\ proc'[q].next = n + 1
      /\ \A r \in Procs \ {q} : proc'[r] = proc[r]
      /\ proc' \in [Procs -> [at : Places, next : Nat, cur : Nat]]
  <2> DEFINE m == n + 1
             to == IF n = 9 THEN "version" ELSE "schema"
  <2>1. /\ proc \in [Procs -> [at : Places, next : Nat, cur : Nat]]
        /\ proc[q].at = "schema" /\ m \in Nat /\ to \in Places
    BY <1>1 DEF ApplySchema, PlacesSound, At, Places
  <2>2. proc' = [proc EXCEPT ![q].next = m, ![q].at = to]
    BY <1>1, <2>1 DEF ApplySchema
  <2> HIDE DEF m, to
  <2>3. /\ proc'[q].at = to /\ proc'[q].next = m
        /\ \A r \in Procs \ {q} : proc'[r] = proc[r]
        /\ proc' \in [Procs -> [at : Places, next : Nat, cur : Nat]]
    BY <2>1, <2>2
  <2> QED
    BY <2>3 DEF m, to
<1>3. /\ disk'.schema = Created(disk.schema, Script[n])
      /\ disk'.residents = disk.residents /\ disk'.vectors = disk.vectors
      /\ IsFile(disk') /\ draft' = disk'
  BY DEF ApplySchema, Statement, FilesSound, IsFile
<1>4. disk.schema \subseteq disk'.schema /\ Script[n] \in disk'.schema
  BY <1>3 DEF Created
<1>5. SchemaSound(disk'.schema)
  <2>1. SchemaSound(disk.schema)
    BY DEF FilesSound
  <2>2. CASE n <= 4
    BY <1>1, <1>3, <2>1, <2>2 DEF SchemaSound, Created, Script, Tables
  <2>3. CASE n >= 5
    BY <1>1, <1>3, <2>1, <2>3 DEF SchemaSound, Created, Script, Tables
  <2> QED
    BY <1>1, <2>2, <2>3
<1>6. FilesSound' /\ ToolSound'
  <2>1. UNCHANGED <<start, batch>> /\ DOMAIN start.residents = {}
    BY <1>1 DEF ApplySchema, FilesSound
  <2>2. ToolSound'
    BY <1>2, <2>1, ToolAssumption DEF ToolSound, At, IsBatch
  <2> QED
    BY <1>1, <1>3, <1>5, <2>1, <2>2
       DEF FilesSound, SchemaSound, IsFile, RolesKept, VectorsKept
<1>7. DraftKept'
  BY <1>1, MigrationAssumption DEF ApplySchema, DraftKept
<1>8. PlacesSound'
  <2>1. UNCHANGED <<start, holder>>
    BY DEF ApplySchema
  <2>2. \A k \in 1 .. 9 : k < n + 1 => Script[k] \in disk'.schema
    BY <1>1, <1>4
  <2> QED
    BY <1>1, <1>2, <1>3, <1>4, <2>1, <2>2, MigrationAssumption
       DEF PlacesSound, At, PastV2, Opened, Migrating, Free
<1> QED
  BY <1>6, <1>7, <1>8

LEMMA ReadVersionKeeps ==
  ASSUME IInv, NEW q \in Procs, ReadVersion(q), UNCHANGED batch
  PROVE  IInv'
<1> USE DEF IInv
<1>1. /\ CurrentSchemaVersion \in 0 .. 3
      /\ CurrentSchemaVersion >= 2 => "v2" \in disk.schema
      /\ CurrentSchemaVersion >= 3 => "v3" \in disk.schema
  BY DEF CurrentSchemaVersion, FilesSound, SchemaSound
<1>2. /\ proc'[q].at \in {"v2", "v3", "ready"}
      /\ proc'[q].at = "v3" => "v2" \in disk.schema
      /\ proc'[q].at = "ready" => "v3" \in disk.schema
      /\ \A r \in Procs \ {q} : proc'[r] = proc[r]
      /\ proc' \in [Procs -> [at : Places, next : Nat, cur : Nat]]
  <2> DEFINE cur == CurrentSchemaVersion
             to == IF cur < 2 THEN "v2" ELSE IF cur < 3 THEN "v3" ELSE "ready"
  <2>1. /\ proc' = [proc EXCEPT ![q].cur = cur, ![q].at = to]
        /\ proc \in [Procs -> [at : Places, next : Nat, cur : Nat]]
    BY DEF ReadVersion, PlacesSound
  <2>2. cur \in Nat /\ to \in Places /\ to \in {"v2", "v3", "ready"}
    BY <1>1 DEF Places
  <2>3. (to = "v3" => "v2" \in disk.schema) /\ (to = "ready" => "v3" \in disk.schema)
    BY <1>1
  <2> HIDE DEF cur, to
  <2> QED
    BY <2>1, <2>2, <2>3
<1>3. holder # q
  BY DEF ReadVersion, PlacesSound, At, Migrating, Batching
<1>4. FilesSound' /\ DraftKept'
  BY <1>2, <1>3, NoCommit, DraftUntouched DEF ReadVersion
<1>5. PlacesSound'
  BY <1>2, <1>3 DEF ReadVersion, PlacesSound, At, PastV2, Opened, Migrating, Free
<1>6. ToolSound'
  BY <1>2, ToolAssumption DEF ReadVersion, ToolSound, At, IsBatch
<1> QED
  BY <1>4, <1>5, <1>6

-----------------------------------------------------------------------------
(* The migrations.                                                          *)

LEMMA BeginKeeps ==
  ASSUME IInv, NEW q \in Procs, UNCHANGED batch,
         Begin(q, "v2", "v2.columns") \/ Begin(q, "v3", "v3.copy")
  PROVE  IInv'
<1> USE DEF IInv
<1>1. /\ proc'[q].at \in {"v2.columns", "v3.copy"}
      /\ proc'[q].at = "v3.copy" => "v2" \in disk.schema
      /\ \A r \in Procs \ {q} : proc'[r] = proc[r]
      /\ proc' \in [Procs -> [at : Places, next : Nat, cur : Nat]]
  <2>1. CASE Begin(q, "v2", "v2.columns")
    BY <2>1 DEF Begin, Go, PlacesSound, Places
  <2>2. CASE Begin(q, "v3", "v3.copy")
    BY <2>2 DEF Begin, Go, At, PlacesSound, Places, PastV2
  <2> QED
    BY <2>1, <2>2
<1>2. holder = Nobody /\ holder' = q /\ draft' = disk /\ draft = disk
  BY DEF Begin, Free, PlacesSound
<1>3. UNCHANGED <<disk, start, batch>>
  BY DEF Begin
<1>4. FilesSound'
  BY <1>2, <1>3, NoCommit
<1>5. PlacesSound'
  BY <1>1, <1>2, <1>3, MigrationAssumption
     DEF PlacesSound, At, PastV2, Opened, Migrating, Free
<1>6. DraftKept'
  BY <1>1, <1>2, <1>3 DEF DraftKept, At, FilesSound, RolesKept
<1>7. ToolSound'
  BY <1>1, <1>3, ToolAssumption DEF ToolSound, At, IsBatch
<1> QED
  BY <1>4, <1>5, <1>6, <1>7

\* A statement of a migration: the draft changes, its owner moves on.
LEMMA StatementMoves ==
  ASSUME PlacesSound, NEW q \in Procs, NEW from \in Migrating, At(q, from),
         NEW content, NEW to \in Migrating, Change(q, content, to)
  PROVE  /\ holder = q /\ holder' = q /\ draft' = content
         /\ UNCHANGED <<disk, start>>
         /\ proc'[q].at = to /\ \A r \in Procs \ {q} : proc'[r] = proc[r]
         /\ proc' \in [Procs -> [at : Places, next : Nat, cur : Nat]]
BY DEF PlacesSound, Change, Go, At, Migrating, Places

LEMMA AddColumnsKeeps ==
  ASSUME IInv, NEW q \in Procs, AddColumns(q), UNCHANGED batch
  PROVE  IInv'
<1> USE DEF IInv
<1> DEFINE content == [draft EXCEPT !.schema = @ \cup {"config", "ext_id"}]
<1>1. /\ At(q, "v2.columns") /\ Change(q, content, "v2.version")
      /\ "v2.columns" \in Migrating /\ "v2.version" \in Migrating
  BY DEF AddColumns, Migrating
<1>2. /\ IsFile(content) /\ content.schema = draft.schema \cup {"config", "ext_id"}
      /\ content.residents = draft.residents /\ content.vectors = draft.vectors
  BY DEF FilesSound, IsFile
<1> HIDE DEF content
<1>3. /\ holder = q /\ holder' = q /\ draft' = content
      /\ UNCHANGED <<disk, start>>
      /\ proc'[q].at = "v2.version" /\ \A r \in Procs \ {q} : proc'[r] = proc[r]
      /\ proc' \in [Procs -> [at : Places, next : Nat, cur : Nat]]
  BY <1>1, StatementMoves
<1>4. FilesSound'
  BY <1>2, <1>3 DEF FilesSound, SchemaSound, RolesKept, VectorsKept, IsFile
<1>5. PlacesSound'
  BY <1>2, <1>3, MigrationAssumption
     DEF PlacesSound, At, PastV2, Opened, Migrating, Free
<1>6. DraftKept'
  BY <1>1, <1>2, <1>3 DEF DraftKept, At, RolesKept
<1>7. ToolSound'
  BY <1>3, ToolAssumption DEF ToolSound, At, IsBatch
<1> QED
  BY <1>4, <1>5, <1>6, <1>7

LEMMA CommitV2Keeps ==
  ASSUME IInv, NEW q \in Procs, CommitV2(q), UNCHANGED batch
  PROVE  IInv'
<1> USE DEF IInv
<1> DEFINE content == [draft EXCEPT !.schema = @ \cup {"v2"}]
<1>1. /\ At(q, "v2.version") /\ "schema_version" \in draft.schema
      /\ disk' = content /\ draft' = content /\ holder' = Nobody
      /\ UNCHANGED <<start, batch>> /\ holder = q
  BY DEF CommitV2, Commit, PlacesSound, At, Migrating
<1>2. /\ IsFile(content) /\ content.schema = draft.schema \cup {"v2"}
      /\ content.residents = draft.residents /\ content.vectors = draft.vectors
  BY DEF FilesSound, IsFile
<1>3. {"config", "ext_id"} \subseteq draft.schema
  BY <1>1 DEF PlacesSound
<1>4. /\ proc'[q].at = "v3" /\ \A r \in Procs \ {q} : proc'[r] = proc[r]
      /\ proc' \in [Procs -> [at : Places, next : Nat, cur : Nat]]
  BY DEF CommitV2, Commit, Go, PlacesSound, Places
<1> HIDE DEF content
<1>5. RolesKept(draft.residents, "v3" \in draft.schema)
  BY <1>1 DEF DraftKept, At
<1>6. FilesSound'
  BY <1>1, <1>2, <1>3, <1>5
     DEF FilesSound, SchemaSound, RolesKept, VectorsKept, IsFile
<1>7. PlacesSound'
  BY <1>1, <1>2, <1>4, MigrationAssumption
     DEF FilesSound, PlacesSound, At, PastV2, Opened, Migrating, Free
<1>8. DraftKept'
  BY <1>1, MigrationAssumption DEF DraftKept
<1>9. ToolSound'
  BY <1>1, <1>4, ToolAssumption DEF ToolSound, At, IsBatch
<1> QED
  BY <1>6, <1>7, <1>8, <1>9

\* The new roles once more are the new roles.
LEMMA NewRoles ==
  ASSUME FilesSound, NEW new \in BOOLEAN, RolesKept(draft.residents, new)
  PROVE  RolesKept([x \in DOMAIN draft.residents |-> NewRole(draft.residents[x])],
                   TRUE)
BY DEF FilesSound, RolesKept, NewRole, LegacyRoles

LEMMA CopyKeeps ==
  ASSUME IInv, NEW q \in Procs, CopyResidents(q), UNCHANGED batch
  PROVE  IInv'
<1> USE DEF IInv
<1> DEFINE copy == [x \in DOMAIN draft.residents |-> NewRole(draft.residents[x])]
           content == [draft EXCEPT !.copy = copy]
<1>1. /\ At(q, "v3.copy") /\ Change(q, content, "v3.drop")
      /\ "v3.copy" \in Migrating /\ "v3.drop" \in Migrating
  BY DEF CopyResidents, Migrating
<1> HIDE DEF copy
<1>2. /\ IsFile(content) /\ content.schema = draft.schema
      /\ content.copy = copy /\ content.vectors = draft.vectors
  BY DEF FilesSound, IsFile
<1> HIDE DEF content
<1>3. /\ holder = q /\ holder' = q /\ draft' = content
      /\ UNCHANGED <<disk, start>>
      /\ proc'[q].at = "v3.drop" /\ \A r \in Procs \ {q} : proc'[r] = proc[r]
      /\ proc' \in [Procs -> [at : Places, next : Nat, cur : Nat]]
  BY <1>1, StatementMoves
<1>4. FilesSound'
  BY <1>2, <1>3 DEF FilesSound, SchemaSound, RolesKept, VectorsKept, IsFile
<1>5. PlacesSound'
  BY <1>1, <1>2, <1>3, MigrationAssumption
     DEF PlacesSound, At, PastV2, Opened, Migrating, Free
<1>6. DraftKept'
  <2>1. RolesKept(draft.residents, "v3" \in draft.schema)
    BY <1>1, <1>3 DEF DraftKept, At
  <2>2. RolesKept(copy, TRUE)
    <3>1. ("v3" \in draft.schema) \in BOOLEAN
      OBVIOUS
    <3> QED
      BY <2>1, <3>1, NewRoles DEF copy
  <2> QED
    BY <1>2, <1>3, <2>2 DEF DraftKept, At, RolesKept
<1>7. ToolSound'
  BY <1>3, ToolAssumption DEF ToolSound, At, IsBatch
<1> QED
  BY <1>4, <1>5, <1>6, <1>7

LEMMA DropKeeps ==
  ASSUME IInv, NEW q \in Procs, DropResidents(q), UNCHANGED batch
  PROVE  IInv'
<1> USE DEF IInv
<1> DEFINE content == Dropped(draft)
<1>1. /\ At(q, "v3.drop") /\ Change(q, content, "v3.rename")
      /\ "v3.drop" \in Migrating /\ "v3.rename" \in Migrating
  BY DEF DropResidents, Migrating
<1>2. /\ IsFile(content) /\ content.schema = draft.schema
      /\ content.copy = draft.copy /\ content.vectors = draft.vectors
  BY DEF FilesSound, IsFile, Dropped
<1> HIDE DEF content
<1>3. /\ holder = q /\ holder' = q /\ draft' = content
      /\ UNCHANGED <<disk, start>>
      /\ proc'[q].at = "v3.rename" /\ \A r \in Procs \ {q} : proc'[r] = proc[r]
      /\ proc' \in [Procs -> [at : Places, next : Nat, cur : Nat]]
  BY <1>1, StatementMoves
<1>4. FilesSound'
  BY <1>2, <1>3 DEF FilesSound, SchemaSound, RolesKept, VectorsKept, IsFile
<1>5. PlacesSound'
  BY <1>1, <1>2, <1>3, MigrationAssumption
     DEF PlacesSound, At, PastV2, Opened, Migrating, Free
<1>6. DraftKept'
  BY <1>1, <1>2, <1>3 DEF DraftKept, At, RolesKept
<1>7. ToolSound'
  BY <1>3, ToolAssumption DEF ToolSound, At, IsBatch
<1> QED
  BY <1>4, <1>5, <1>6, <1>7

LEMMA RenameKeeps ==
  ASSUME IInv, NEW q \in Procs, RenameResidents(q), UNCHANGED batch
  PROVE  IInv'
<1> USE DEF IInv
<1> DEFINE content == [schema |-> draft.schema \cup {"roles"}, residents |-> draft.copy,
                       copy |-> Nobody, vectors |-> draft.vectors]
<1>1. /\ At(q, "v3.rename") /\ Change(q, content, "v3.version")
      /\ "v3.rename" \in Migrating /\ "v3.version" \in Migrating
  BY DEF RenameResidents, Migrating
<1>2. /\ IsFile(content) /\ content.schema = draft.schema \cup {"roles"}
      /\ content.residents = draft.copy /\ content.vectors = draft.vectors
  BY DEF FilesSound, IsFile
<1> HIDE DEF content
<1>3. /\ holder = q /\ holder' = q /\ draft' = content
      /\ UNCHANGED <<disk, start>>
      /\ proc'[q].at = "v3.version" /\ \A r \in Procs \ {q} : proc'[r] = proc[r]
      /\ proc' \in [Procs -> [at : Places, next : Nat, cur : Nat]]
  BY <1>1, StatementMoves
<1>4. FilesSound'
  BY <1>2, <1>3 DEF FilesSound, SchemaSound, RolesKept, VectorsKept, IsFile
<1>5. PlacesSound'
  BY <1>1, <1>2, <1>3, MigrationAssumption
     DEF PlacesSound, At, PastV2, Opened, Migrating, Free
<1>6. DraftKept'
  BY <1>1, <1>2, <1>3 DEF DraftKept, At, RolesKept
<1>7. ToolSound'
  BY <1>3, ToolAssumption DEF ToolSound, At, IsBatch
<1> QED
  BY <1>4, <1>5, <1>6, <1>7

LEMMA CommitV3Keeps ==
  ASSUME IInv, NEW q \in Procs, CommitV3(q), UNCHANGED batch
  PROVE  IInv'
<1> USE DEF IInv
<1> DEFINE content == [draft EXCEPT !.schema = @ \cup {"v3"}]
<1>1. /\ At(q, "v3.version")
      /\ disk' = content /\ draft' = content /\ holder' = Nobody
      /\ UNCHANGED <<start, batch>> /\ holder = q
  BY DEF CommitV3, Commit, PlacesSound, At, Migrating
<1>2. /\ IsFile(content) /\ content.schema = draft.schema \cup {"v3"}
      /\ content.residents = draft.residents /\ content.vectors = draft.vectors
  BY DEF FilesSound, IsFile
<1>3. "roles" \in draft.schema /\ "v2" \in disk.schema
  BY <1>1 DEF PlacesSound, At, PastV2
<1>4. /\ proc'[q].at = "ready" /\ \A r \in Procs \ {q} : proc'[r] = proc[r]
      /\ proc' \in [Procs -> [at : Places, next : Nat, cur : Nat]]
  BY DEF CommitV3, Commit, Go, PlacesSound, Places
<1> HIDE DEF content
<1>5. RolesKept(draft.residents, TRUE)
  BY <1>1 DEF DraftKept, At
<1>6. FilesSound'
  BY <1>1, <1>2, <1>3, <1>5
     DEF FilesSound, SchemaSound, RolesKept, VectorsKept, IsFile
<1>7. PlacesSound'
  BY <1>1, <1>2, <1>4, MigrationAssumption
     DEF FilesSound, PlacesSound, At, PastV2, Opened, Migrating, Free
<1>8. DraftKept'
  BY <1>1, MigrationAssumption DEF DraftKept
<1>9. ToolSound'
  BY <1>1, <1>4, ToolAssumption DEF ToolSound, At, IsBatch
<1> QED
  BY <1>6, <1>7, <1>8, <1>9

\* A rollback takes the file back to what is committed.
LEMMA AbandonKeeps ==
  ASSUME IInv, NEW q \in Procs, Abandon(q), UNCHANGED batch
  PROVE  IInv'
<1> USE DEF IInv
<1>1. /\ proc'[q].at = "closed" /\ \A r \in Procs \ {q} : proc'[r] = proc[r]
      /\ proc' \in [Procs -> [at : Places, next : Nat, cur : Nat]]
  BY DEF Abandon, Closed, PlacesSound, Places
<1>2. UNCHANGED <<disk, start, batch>>
  BY DEF Abandon
<1>3. CASE holder = q
  <2>1. holder' = Nobody /\ draft' = disk
    BY <1>3 DEF Abandon, Rollback
  <2>2. FilesSound'
    BY <1>2, <2>1 DEF FilesSound, IsFile, SchemaSound, RolesKept, VectorsKept
  <2>3. PlacesSound'
    BY <1>1, <1>2, <1>3, <2>1, MigrationAssumption
       DEF PlacesSound, At, PastV2, Opened, Migrating, Free
  <2>4. DraftKept' /\ ToolSound'
    BY <1>1, <1>2, <2>1, MigrationAssumption, ToolAssumption
       DEF DraftKept, ToolSound, At, IsBatch
  <2> QED
    BY <2>2, <2>3, <2>4
<1>4. CASE holder # q
  <2>1. UNCHANGED <<holder, draft>>
    BY <1>4 DEF Abandon, Rollback
  <2>2. FilesSound' /\ DraftKept'
    BY <1>1, <1>2, <1>4, <2>1, NoCommit, DraftUntouched
  <2>3. PlacesSound'
    BY <1>1, <1>2, <1>4, <2>1 DEF PlacesSound, At, PastV2, Opened, Migrating, Free
  <2>4. ToolSound'
    BY <1>1, <1>2, ToolAssumption DEF ToolSound, At, IsBatch
  <2> QED
    BY <2>2, <2>3, <2>4
<1> QED
  BY <1>3, <1>4

-----------------------------------------------------------------------------
(* The tool.                                                                *)

\* What the tool reads keeps every resident, by the role it has by now.
LEMMA ViewKept ==
  ASSUME FilesSound, PlacesSound, DraftKept, proc[Tool].at \in Batching
  PROVE  /\ IsFile(View) /\ VectorsKept(View)
         /\ RolesKept(View.residents, TRUE)
<1>1. "v3" \in disk.schema /\ "v3" \in draft.schema
  BY ToolAssumption DEF PlacesSound, FilesSound, Batching, Opened
<1>2. CASE holder = Tool
  BY <1>1, <1>2, ToolAssumption
     DEF View, FilesSound, DraftKept, At, Batching
<1>3. CASE holder # Tool
  BY <1>1, <1>3 DEF View, FilesSound
<1> QED
  BY <1>2, <1>3

\* A write that keeps the residents keeps the invariant of the files,
\* inside the transaction or outside.
LEMMA WriteKeeps ==
  ASSUME FilesSound, PlacesSound, DraftKept, proc[Tool].at \in Batching,
         NEW content, IsFile(content), content.schema = View.schema,
         RolesKept(content.residents, TRUE), VectorsKept(content),
         Write(content), NEW to \in Batching, Go(Tool, to),
         batch'.replace = batch.replace, batch.missed \subseteq batch'.missed
  PROVE  FilesSound' /\ PlacesSound' /\ DraftKept' /\ proc'[Tool].at = to
<1>1. /\ proc'[Tool].at = to /\ \A r \in Procs \ {Tool} : proc'[r] = proc[r]
      /\ proc' \in [Procs -> [at : Places, next : Nat, cur : Nat]]
      /\ to \in Places /\ to \in Batching
  BY ToolAssumption DEF Go, PlacesSound, Batching, Places
<1>2. UNCHANGED <<start, holder>> /\ "v3" \in disk.schema /\ "v3" \in draft.schema
  BY ToolAssumption DEF Write, PlacesSound, FilesSound, Batching, Opened
<1>3. CASE holder = Tool /\ draft' = content /\ disk' = disk
  <2>1. content.schema = draft.schema
    BY <1>3 DEF View
  <2>2. FilesSound'
    BY <1>2, <1>3, <2>1 DEF FilesSound, SchemaSound, RolesKept, VectorsKept, IsFile
  <2>3. PlacesSound'
    BY <1>1, <1>2, <1>3, <2>1, ToolAssumption, MigrationAssumption
       DEF PlacesSound, At, PastV2, Opened, Migrating, Batching, Free
  <2>4. DraftKept'
    BY <1>1, <1>2, <1>3, <2>1, ToolAssumption
       DEF DraftKept, At, RolesKept, Batching
  <2> QED
    BY <1>1, <2>2, <2>3, <2>4
<1>4. CASE Free /\ disk' = content /\ draft' = content
  <2>1. content.schema = disk.schema /\ holder = Nobody /\ draft = disk
    BY <1>4, ToolAssumption, MigrationAssumption DEF View, Free, PlacesSound
  <2>2. FilesSound'
    BY <1>2, <1>4, <2>1 DEF FilesSound, SchemaSound, RolesKept, VectorsKept, IsFile
  <2>3. PlacesSound'
    BY <1>1, <1>2, <1>4, <2>1, ToolAssumption, MigrationAssumption
       DEF PlacesSound, At, PastV2, Opened, Migrating, Batching, Free
  <2>4. DraftKept'
    BY <1>2, <2>1, MigrationAssumption DEF DraftKept
  <2> QED
    BY <1>1, <2>2, <2>3, <2>4
<1> QED
  BY <1>3, <1>4 DEF Write

\* The same if the tool moves on without a write.
LEMMA KeepKeeps ==
  ASSUME FilesSound, PlacesSound, DraftKept, proc[Tool].at \in Batching, Keep,
         NEW to \in Batching, Go(Tool, to), batch'.replace = batch.replace,
         batch.missed \subseteq batch'.missed
  PROVE  FilesSound' /\ PlacesSound' /\ DraftKept' /\ proc'[Tool].at = to
<1>1. /\ proc'[Tool].at = to /\ \A r \in Procs \ {Tool} : proc'[r] = proc[r]
      /\ proc' \in [Procs -> [at : Places, next : Nat, cur : Nat]]
      /\ to \in Places /\ to \in Batching
  BY ToolAssumption DEF Go, PlacesSound, Batching, Places
<1>2. UNCHANGED <<disk, draft, start, holder>>
  BY DEF Keep
<1>3. FilesSound'
  BY <1>2 DEF FilesSound, SchemaSound, RolesKept, VectorsKept, IsFile
<1>4. PlacesSound'
  BY <1>1, <1>2, ToolAssumption
     DEF PlacesSound, At, PastV2, Opened, Migrating, Batching, Free
<1>5. DraftKept'
  BY <1>1, <1>2, ToolAssumption DEF DraftKept, At, RolesKept, Batching
<1> QED
  BY <1>1, <1>3, <1>4, <1>5

LEMMA BeginBatchKeeps ==
  ASSUME IInv, BeginBatch
  PROVE  IInv'
<1> USE DEF IInv
<1>1. /\ IsBatch(batch') /\ batch'.replace = batch.replace
      /\ batch'.missed = batch.missed
      /\ UNCHANGED <<disk, start>> /\ "v3" \in disk.schema /\ holder # Tool
  BY ToolAssumption
     DEF BeginBatch, Batch, IsBatch, Begin, Keep, At, PlacesSound, Opened,
         Migrating, Batching
<1>2. /\ proc'[Tool].at = "person" /\ \A r \in Procs \ {Tool} : proc'[r] = proc[r]
      /\ proc' \in [Procs -> [at : Places, next : Nat, cur : Nat]]
  BY ToolAssumption DEF BeginBatch, Begin, Go, PlacesSound, Places
<1>3. ToolSound'
  BY <1>1, <1>2 DEF ToolSound, At
<1>4. CASE holder = Nobody /\ holder' = Tool /\ draft' = disk
  <2>1. draft = disk
    BY <1>4 DEF PlacesSound, Free
  <2>2. FilesSound'
    BY <1>1, <1>4, <2>1 DEF FilesSound, SchemaSound, RolesKept, VectorsKept, IsFile
  <2>3. PlacesSound'
    BY <1>1, <1>2, <1>4, <2>1, ToolAssumption, MigrationAssumption
       DEF PlacesSound, At, PastV2, Opened, Migrating, Batching, Free
  <2>4. DraftKept'
    BY <1>1, <1>2, <1>4 DEF DraftKept, At, FilesSound, RolesKept
  <2> QED
    BY <1>3, <2>2, <2>3, <2>4
<1>5. CASE UNCHANGED <<holder, draft>>
  <2>1. FilesSound'
    BY <1>1, <1>5 DEF FilesSound, SchemaSound, RolesKept, VectorsKept, IsFile
  <2>2. PlacesSound'
    BY <1>1, <1>2, <1>5, ToolAssumption
       DEF PlacesSound, At, PastV2, Opened, Migrating, Free
  <2>3. DraftKept'
    <3>1. \A r \in Procs : holder = r => r # Tool /\ proc'[r] = proc[r]
      BY <1>1, <1>2
    <3> QED
      BY <1>1, <1>5, <3>1 DEF DraftKept, At, RolesKept
  <2> QED
    BY <1>3, <2>1, <2>2, <2>3
<1> QED
  BY <1>4, <1>5 DEF BeginBatch, Begin, Keep, Free

LEMMA SkipPersonKeeps ==
  ASSUME IInv, NEW x \in Names, SkipPerson(x)
  PROVE  IInv'
<1> USE DEF IInv
<1>1. /\ UNCHANGED <<disk, draft, holder, proc, start>> /\ At(Tool, "person")
      /\ IsBatch(batch') /\ batch'.replace = batch.replace
      /\ batch'.missed = batch.missed
  BY DEF SkipPerson, migrationVars, ToolSound, IsBatch
<1>2. FilesSound'
  BY <1>1 DEF FilesSound, SchemaSound, RolesKept, VectorsKept, IsFile
<1>3. PlacesSound' /\ DraftKept'
  BY <1>1 DEF PlacesSound, DraftKept, RolesKept, At, Free
<1>4. ToolSound'
  BY <1>1 DEF ToolSound, At
<1> QED
  BY <1>2, <1>3, <1>4

\* A new row takes nothing from the rows that are there.
LEMMA InsertKeeps ==
  ASSUME NEW row, IsFile(View), VectorsKept(View), RolesKept(View.residents, TRUE),
         row \notin DOMAIN View.residents
  PROVE  /\ IsFile(Inserted(row)) /\ Inserted(row).schema = View.schema
         /\ VectorsKept(Inserted(row)) /\ RolesKept(Inserted(row).residents, TRUE)
<1> DEFINE content == Inserted(row)
<1>1. /\ content.schema = View.schema /\ content.vectors = View.vectors
      /\ IsFile(content)
      /\ content.residents =
           [y \in DOMAIN View.residents \cup {row} |->
              IF y = row THEN "staff" ELSE View.residents[y]]
  BY DEF Inserted, IsFile
<1> HIDE DEF content
<1>2. VectorsKept(content) /\ RolesKept(content.residents, TRUE)
  BY <1>1 DEF VectorsKept, RolesKept
<1> QED
  BY <1>1, <1>2 DEF content

LEMMA UpsertPersonKeeps ==
  ASSUME IInv, NEW x \in Names, UpsertPerson(x)
  PROVE  IInv'
<1> USE DEF IInv
<1> DEFINE Taken(seen, found) ==
             IF batch.kind = "enroll" /\ seen = Nobody
             THEN batch.missed \cup ({found} \ {Nobody}) ELSE batch.missed
           Place(seen) == IF batch.replace /\ seen # Nobody THEN "clear" ELSE "add"
<1>1. PICK seen \in Found(x), found \in Found(x), who \in People :
        /\ At(Tool, "person") /\ Upserted(x, found, who)
        /\ batch' = [batch EXCEPT !.todo = @ \ {x}, !.who = who,
                                  !.isNew = seen = Nobody, !.added = FALSE,
                                  !.missed = Taken(seen, found)]
        /\ Go(Tool, Place(seen))
  BY DEF UpsertPerson
<1>2. proc[Tool].at \in Batching
  BY <1>1 DEF At, Batching
<1>3. /\ IsFile(View) /\ VectorsKept(View) /\ RolesKept(View.residents, TRUE)
  BY <1>2, ViewKept
<1>4. /\ IsBatch(batch') /\ batch'.replace = batch.replace
      /\ batch'.kind = batch.kind /\ batch'.who = who
      /\ batch'.isNew = (seen = Nobody)
      /\ batch'.missed = Taken(seen, found)
  BY <1>1 DEF ToolSound, IsBatch
<1>5. batch.missed \subseteq batch'.missed
  BY <1>4
<1> DEFINE to == Place(seen)
<1>6. Go(Tool, to) /\ to \in Batching /\ (to = "clear" => batch.replace)
  BY <1>1 DEF Batching
<1>7. batch'.isNew /\ batch.kind = "enroll" =>
        who \notin DOMAIN start.residents \ batch'.missed
  <2>1. CASE found # Nobody
    <3>1. who = found
      BY <1>1, <2>1 DEF Upserted
    <3> SUFFICES ASSUME seen = Nobody, batch.kind = "enroll"
                 PROVE  who \in batch'.missed
      BY <1>4
    <3>2. Taken(seen, found) = batch.missed \cup ({found} \ {Nobody})
      OBVIOUS
    <3> QED
      BY <1>4, <2>1, <3>1, <3>2
  <2>2. CASE found = Nobody
    BY <1>1, <1>3, <1>5, <2>2 DEF Upserted, RolesKept
  <2> QED
    BY <2>1, <2>2
<1> HIDE DEF Taken, Place, to
<1>8. FilesSound' /\ PlacesSound' /\ DraftKept' /\ proc'[Tool].at = to
      /\ UNCHANGED start
  <2>1. CASE Keep
    BY <1>2, <1>4, <1>5, <1>6, <2>1, KeepKeeps DEF Keep
  <2>2. CASE who \notin DOMAIN View.residents /\ Write(Inserted(who))
    <3> DEFINE content == Inserted(who)
    <3>1. /\ IsFile(content) /\ content.schema = View.schema
          /\ VectorsKept(content) /\ RolesKept(content.residents, TRUE)
          /\ Write(content)
      BY <1>3, <2>2, InsertKeeps
    <3> HIDE DEF content
    <3>2. UNCHANGED start
      BY <3>1 DEF Write
    <3> QED
      BY <1>2, <1>4, <1>5, <1>6, <3>1, <3>2, WriteKeeps
  <2> QED
    BY <1>1, <2>1, <2>2 DEF Upserted
<1>9. ToolSound'
  BY <1>4, <1>6, <1>7, <1>8 DEF ToolSound, At
<1> QED
  BY <1>8, <1>9

LEMMA DeleteEmbeddingsKeeps ==
  ASSUME IInv, DeleteEmbeddings
  PROVE  IInv'
<1> USE DEF IInv
<1> DEFINE content == Cleared
<1>1. /\ proc[Tool].at \in Batching /\ batch.replace /\ UNCHANGED batch
      /\ Write(content) /\ Go(Tool, "add") /\ "add" \in Batching
  BY DEF DeleteEmbeddings, At, Batching, ToolSound
<1>2. /\ IsFile(View) /\ RolesKept(View.residents, TRUE)
  BY <1>1, ViewKept
<1>3. /\ IsFile(content) /\ content.schema = View.schema
      /\ content.residents = View.residents
  BY <1>2 DEF Cleared, IsFile
<1>4. VectorsKept(content)
  BY <1>1 DEF VectorsKept
<1> HIDE DEF content
<1>5. FilesSound' /\ PlacesSound' /\ DraftKept' /\ proc'[Tool].at = "add"
  BY <1>1, <1>2, <1>3, <1>4, WriteKeeps
<1>6. UNCHANGED start /\ At(Tool, "clear")
  BY <1>1 DEF Write, DeleteEmbeddings
<1>7. ToolSound'
  BY <1>1, <1>5, <1>6 DEF ToolSound, At, IsBatch
<1> QED
  BY <1>5, <1>7

LEMMA DeleteFailsKeeps ==
  ASSUME IInv, DeleteFails
  PROVE  IInv'
<1> USE DEF IInv
<1> DEFINE to == IF batch.kind = "enroll" THEN "add" ELSE "person"
<1>1. /\ At(Tool, "clear") /\ proc[Tool].at \in Batching /\ UNCHANGED batch
      /\ Keep /\ Go(Tool, to) /\ to \in Batching /\ to \in {"add", "person"}
  BY DEF DeleteFails, At, Batching
<1> HIDE DEF to
<1>2. FilesSound' /\ PlacesSound' /\ DraftKept' /\ proc'[Tool].at = to
  BY <1>1, KeepKeeps
<1>3. UNCHANGED start
  BY <1>1 DEF Keep
<1>4. ToolSound'
  BY <1>1, <1>2, <1>3 DEF ToolSound, At, IsBatch
<1> QED
  BY <1>2, <1>4

LEMMA AddEmbeddingKeeps ==
  ASSUME IInv, AddEmbedding
  PROVE  IInv'
<1> USE DEF IInv
<1> DEFINE content == [View EXCEPT !.vectors[batch.who] = @ \cup {"new"}]
<1>1. /\ proc[Tool].at \in Batching /\ At(Tool, "add")
      /\ Write(content) /\ Go(Tool, "end") /\ "end" \in Batching
  BY DEF AddEmbedding, At, Batching
<1>2. /\ IsFile(View) /\ VectorsKept(View) /\ RolesKept(View.residents, TRUE)
  BY <1>1, ViewKept
<1>3. /\ IsBatch(batch') /\ batch'.replace = batch.replace
      /\ batch'.who = batch.who /\ batch'.isNew = batch.isNew
      /\ batch'.kind = batch.kind /\ batch'.missed = batch.missed
  BY DEF AddEmbedding, ToolSound, IsBatch
<1>4. /\ IsFile(content) /\ content.schema = View.schema
      /\ content.residents = View.residents
      /\ \A x \in People : View.vectors[x] \subseteq content.vectors[x]
  BY <1>2 DEF IsFile
<1>5. VectorsKept(content)
  BY <1>2, <1>4 DEF VectorsKept, FilesSound
<1> HIDE DEF content
<1>6. FilesSound' /\ PlacesSound' /\ DraftKept' /\ proc'[Tool].at = "end"
  BY <1>1, <1>2, <1>3, <1>4, <1>5, WriteKeeps
<1>7. UNCHANGED start
  BY <1>1 DEF Write
<1>8. ToolSound'
  BY <1>1, <1>3, <1>6, <1>7 DEF ToolSound, At
<1> QED
  BY <1>6, <1>8

LEMMA AddNothingKeeps ==
  ASSUME IInv, AddNothing
  PROVE  IInv'
<1> USE DEF IInv
<1>1. /\ At(Tool, "add") /\ proc[Tool].at \in Batching /\ UNCHANGED batch
      /\ Keep /\ Go(Tool, "end") /\ "end" \in Batching
  BY DEF AddNothing, At, Batching
<1>2. FilesSound' /\ PlacesSound' /\ DraftKept' /\ proc'[Tool].at = "end"
  BY <1>1, KeepKeeps
<1>3. UNCHANGED start
  BY <1>1 DEF Keep
<1>4. ToolSound'
  BY <1>1, <1>2, <1>3 DEF ToolSound, At, IsBatch
<1> QED
  BY <1>2, <1>4

LEMMA EndPersonKeeps ==
  ASSUME IInv, EndPerson
  PROVE  IInv'
<1> USE DEF IInv
<1>1. /\ At(Tool, "end") /\ proc[Tool].at \in Batching
      /\ Go(Tool, "person") /\ "person" \in Batching
  BY DEF EndPerson, At, Batching
<1>2. /\ IsBatch(batch') /\ batch'.replace = batch.replace
      /\ batch'.missed = batch.missed
  BY DEF EndPerson, ToolSound, IsBatch
<1>3. CASE Unusable /\ Write(Removed)
  <2> DEFINE content == Removed
  <2>1. /\ IsFile(View) /\ VectorsKept(View) /\ RolesKept(View.residents, TRUE)
    BY <1>1, ViewKept
  <2>2. batch.who \notin DOMAIN start.residents \ batch.missed
    BY <1>1, <1>3 DEF Unusable, ToolSound, At
  <2>3. /\ IsFile(content) /\ content.schema = View.schema
        /\ content.residents = [y \in DOMAIN View.residents \ {batch.who} |->
                                  View.residents[y]]
        /\ \A x \in People : x # batch.who => content.vectors[x] = View.vectors[x]
    BY <2>1 DEF Removed, IsFile
  <2> HIDE DEF content
  <2>4. RolesKept(content.residents, TRUE) /\ VectorsKept(content)
    BY <2>1, <2>2, <2>3 DEF RolesKept, VectorsKept, FilesSound
  <2>5. Write(content)
    BY <1>3 DEF content
  <2>6. FilesSound' /\ PlacesSound' /\ DraftKept' /\ proc'[Tool].at = "person"
    BY <1>1, <1>2, <2>3, <2>4, <2>5, WriteKeeps
  <2> QED
    BY <1>2, <2>6 DEF ToolSound, At
<1>4. CASE Keep
  <2>1. FilesSound' /\ PlacesSound' /\ DraftKept' /\ proc'[Tool].at = "person"
    BY <1>1, <1>2, <1>4, KeepKeeps
  <2> QED
    BY <1>2, <2>1 DEF ToolSound, At
<1> QED
  BY <1>3, <1>4 DEF EndPerson

LEMMA EndBatchKeeps ==
  ASSUME IInv, EndBatch
  PROVE  IInv'
<1> USE DEF IInv
<1>1. /\ At(Tool, "person") /\ UNCHANGED <<start, batch>>
      /\ "v3" \in disk.schema /\ "v3" \in draft.schema
  BY ToolAssumption DEF EndBatch, Commit, At, PlacesSound, FilesSound, Opened
<1>2. /\ proc'[Tool].at = "done" /\ \A r \in Procs \ {Tool} : proc'[r] = proc[r]
      /\ proc' \in [Procs -> [at : Places, next : Nat, cur : Nat]]
  BY ToolAssumption DEF EndBatch, Commit, Go, PlacesSound, Places
<1>3. ToolSound'
  BY <1>1, <1>2 DEF ToolSound, At, IsBatch
<1>4. CASE holder = Tool /\ holder' = Nobody /\ draft' = disk' /\ disk' \in {disk, draft}
  <2>1. RolesKept(draft.residents, TRUE)
    BY <1>1, <1>4, ToolAssumption DEF DraftKept, At
  <2>2. FilesSound'
    BY <1>1, <1>4, <2>1 DEF FilesSound, SchemaSound, RolesKept, VectorsKept, IsFile
  <2>3. PlacesSound'
    BY <1>1, <1>2, <1>4, ToolAssumption, MigrationAssumption
       DEF FilesSound, PlacesSound, At, PastV2, Opened, Migrating, Free
  <2>4. DraftKept'
    BY <1>4, MigrationAssumption DEF DraftKept
  <2> QED
    BY <1>3, <2>2, <2>3, <2>4
<1>5. CASE holder # Tool /\ UNCHANGED <<holder, draft, disk>>
  <2>1. FilesSound' /\ DraftKept'
    BY <1>1, <1>2, <1>5, NoCommit, DraftUntouched, ToolAssumption
  <2>2. PlacesSound'
    BY <1>1, <1>2, <1>5, ToolAssumption
       DEF PlacesSound, At, PastV2, Opened, Migrating, Free
  <2> QED
    BY <1>3, <2>1, <2>2
<1> QED
  BY <1>4, <1>5 DEF EndBatch, Commit, Rollback

-----------------------------------------------------------------------------
LEMMA StepKeeps == IInv /\ [Next]_toolVars => IInv'
<1> SUFFICES ASSUME IInv, [Next]_toolVars PROVE IInv'
  OBVIOUS
<1>1. ASSUME NEW q \in Procs, MigrationStep(q), UNCHANGED batch PROVE IInv'
  BY <1>1, OpenKeeps, HasTablesKeeps, ApplySchemaKeeps, ReadVersionKeeps, BeginKeeps,
     AddColumnsKeeps, CommitV2Keeps, CopyKeeps, DropKeeps, RenameKeeps,
     CommitV3Keeps, AbandonKeeps
     DEF MigrationStep
<1>2. CASE ToolStep
  BY <1>2, BeginBatchKeeps, SkipPersonKeeps, UpsertPersonKeeps,
     DeleteEmbeddingsKeeps, DeleteFailsKeeps, AddEmbeddingKeeps, AddNothingKeeps,
     EndPersonKeeps, EndBatchKeeps
     DEF ToolStep
<1>3. CASE UNCHANGED toolVars
  <2>1. UNCHANGED <<disk, draft, holder, proc, start, batch>>
    BY <1>3 DEF toolVars, migrationVars
  <2>2. FilesSound'
    BY <2>1, NoCommit DEF IInv
  <2> QED
    BY <2>1, <2>2
       DEF IInv, PlacesSound, DraftKept, ToolSound, RolesKept, IsBatch, At, Free
<1> QED
  BY <1>1, <1>2, <1>3 DEF Next

\* The inductive invariant of the file, its processes and the batch tool
\* holds in every reachable state, for any number of processes, residents
\* and calls of open (resident_db.cpp:48-310, enroll_faces.cpp, migrate_fdb.cpp).
THEOREM EnrolInvariant == Spec => []IInv
<1>1. Init => IInv
  BY InitSound
<1>2. IInv /\ [Next]_toolVars => IInv'
  BY StepKeeps
<1> QED
  BY <1>1, <1>2, PTL DEF Spec

\* A process whose open() has returned true works on the latest schema,
\* whoever created or migrated the file and whoever was killed on the way.
THEOREM OpenedWorksOnLatest == Spec => []OpenedIsLatest
<1>1. IInv => OpenedIsLatest
  BY DEF IInv, FilesSound, PlacesSound, SchemaSound, OpenedIsLatest, Columns
<1> QED
  BY <1>1, EnrolInvariant, PTL

\* Neither a migration nor a batch that breaks off anywhere costs a resident,
\* the role or, unless the tool was asked to replace them, the vectors.
THEOREM NobodyIsLost == Spec => []ResidentsSurvive
<1>1. IInv => ResidentsSurvive
  BY DEF IInv, FilesSound, RolesKept, VectorsKept, ResidentsSurvive
<1> QED
  BY <1>1, EnrolInvariant, PTL
=============================================================================
