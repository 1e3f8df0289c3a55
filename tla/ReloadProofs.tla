---------------------------- MODULE ReloadProofs ----------------------------
(***************************************************************************)
(* What CatalogReload guarantees for every set of residents and embeddings *)
(* and any number of commits.  The argument for SkipIsSound: the version   *)
(* a poll accepts was read before its snapshot was taken, so a commit that *)
(* the snapshot missed makes the connection take a higher number, and one  *)
(* that it did not miss leaves the snapshot equal to the database as long  *)
(* as the change counter stands where the snapshot found it.               *)
(***************************************************************************)
EXTENDS CatalogReload, TLAPS

\* An enrolment that began has a commit left in the bound.
WriterInv == enrolment # Nothing => commits < MaxCommits

\* The numbers of the read connection.
ReaderInv ==
  /\ reader.seen <= commits
  /\ reader.version <= reader.seen + 1

\* What a poll in progress holds.
PollInv ==
  /\ pc = "start" => backoff = FirstBackoff /\ ~haveAccepted
  /\ pc \in {"scan", "embeddings", "candidate"} =>
       reader.open /\ version <= reader.version
  /\ pc \in {"embeddings", "candidate"} =>
       /\ snapshot \in completed
       /\ reader.seen = commits => snapshot = db
  /\ pc = "candidate" =>
       candidate = snapshot /\ Intact(snapshot) /\ ~SameCatalog(candidate)

\* What the accepted version stands for.
AcceptedInv ==
  haveAccepted /\ reader.open =>
    /\ accepted <= reader.version
    /\ accepted = reader.version /\ reader.seen = commits => active = db

ReloadInv ==
  /\ ReloadTypeOK
  /\ db \in completed
  /\ WriterInv
  /\ ReaderInv
  /\ PollInv
  /\ AcceptedInv
  /\ RuntimeIsWhole

-----------------------------------------------------------------------------
\* A function into rows on some of the residents is a content.
LEMMA ContentIntro ==
  ASSUME NEW S \in SUBSET Residents, NEW f \in [S -> Row]
  PROVE  f \in Content
BY DEF Content

\* What a content is.
LEMMA ContentElim ==
  ASSUME NEW c \in Content
  PROVE  DOMAIN c \subseteq Residents /\ c \in [DOMAIN c -> Row]
BY DEF Content

\* Replacing or adding one row leaves a content.
LEMMA WithRow ==
  ASSUME NEW c \in Content, NEW rid \in Residents, NEW row \in Row
  PROVE  With(c, rid, row) \in Content /\ rid \in DOMAIN With(c, rid, row)
<1>1. With(c, rid, row) \in [DOMAIN c \cup {rid} -> Row]
  BY ContentElim DEF With
<1> QED
  BY <1>1, ContentElim, ContentIntro

\* Changing the embeddings of one resident leaves a content.
LEMMA WithEmbeddings ==
  ASSUME NEW c \in Content, NEW rid, NEW embs \in SUBSET Embeddings
  PROVE  [c EXCEPT ![rid].embs = embs] \in Content
<1>1. [c EXCEPT ![rid].embs = embs] \in [DOMAIN c -> Row]
  BY ContentElim DEF Row
<1> QED
  BY <1>1, ContentElim, ContentIntro

\* The catalog built from a snapshot's own rows is the snapshot.
LEMMA CatalogOfSnapshot ==
  ASSUME snapshot \in Content
  PROVE  /\ Catalog(EmbeddingRows) = snapshot
         /\ Valid(EmbeddingRows) => Intact(snapshot)
<1>1. snapshot \in [DOMAIN snapshot -> Row]
  BY ContentElim
<1>2. \A r \in DOMAIN snapshot :
        [meta |-> snapshot[r].meta, embs |-> snapshot[r].embs] = snapshot[r]
  BY <1>1 DEF Row
<1>3. Catalog(EmbeddingRows) = [r \in DOMAIN snapshot |-> snapshot[r]]
  BY <1>2 DEF Catalog, EmbeddingRows
<1>4. [r \in DOMAIN snapshot |-> snapshot[r]] = snapshot
  BY <1>1
<1> QED
  BY <1>3, <1>4 DEF Valid, EmbeddingRows, Intact

-----------------------------------------------------------------------------
\* The initial states satisfy the invariant.
LEMMA InitReload == Init => ReloadInv
<1> SUFFICES ASSUME Init PROVE ReloadInv
  OBVIOUS
<1>1. EmptyContent \in Content
  <2>1. EmptyContent \in [{} -> Row]
    BY DEF EmptyContent
  <2> QED
    BY <2>1, ContentIntro
<1>2. StoreTypeOK
  BY StoreAssumption DEF Init, StoreInit, StoreTypeOK
<1>3. reader \in [open : BOOLEAN, version : Version, seen : 0 .. MaxCommits]
  BY StoreAssumption DEF Init, ClosedReader, Version
<1>4. /\ pollIn \in 0 .. PollInterval /\ reopenIn \in 0 .. MaxBackoff
      /\ backoff \in FirstBackoff .. MaxBackoff
      /\ accepted \in Version /\ version \in Version /\ generation \in Nat
  BY StoreAssumption, ReloadAssumption DEF Init, Version
<1>5. ReloadTypeOK
  BY <1>1, <1>2, <1>3, <1>4 DEF Init, ReloadTypeOK
<1> QED
  BY <1>5
     DEF Init, StoreInit, WriterInv, ReloadInv, ReaderInv, PollInv,
         AcceptedInv, RuntimeIsWhole, ClosedReader

\* Only a free writer can use up the bound.
LEMMA WriterKeepsBound ==
  ASSUME ReloadInv, StoreNext
  PROVE  WriterInv'
<1>1. ASSUME NEW req \in Request, BeginEnrolment(req) PROVE WriterInv'
  BY <1>1 DEF BeginEnrolment, WriterInv
<1>2. ASSUME NEW c, NEW stage, NEW left, ~WriterFree, Write(c, stage, left)
      PROVE  WriterInv'
  BY <1>2 DEF Write, WriterInv, WriterFree, ReloadInv
<1>3. ASSUME NEW byName \in BOOLEAN, UpsertResident(byName) PROVE WriterInv'
  BY <1>2, <1>3 DEF UpsertResident
<1>4. CASE DeleteEmbeddings
  BY <1>2, <1>4 DEF DeleteEmbeddings
<1>5. ASSUME NEW e \in Embeddings, AddEmbedding(e) PROVE WriterInv'
  BY <1>2, <1>5 DEF AddEmbedding
<1>6. CASE CommitEnrolment \/ RollbackEnrolment
  BY <1>6 DEF CommitEnrolment, RollbackEnrolment, WriterInv
<1>7. ASSUME NEW rid \in Residents, RemoveResident(rid) PROVE WriterInv'
  BY <1>7 DEF RemoveResident, WriterInv, WriterFree
<1>8. CASE AuditCommit
  BY <1>8 DEF AuditCommit, WriterInv, WriterFree
<1> QED
  BY <1>1, <1>3, <1>4, <1>5, <1>6, <1>7, <1>8 DEF StoreNext

\* What a step of the writers does to what a reader can see.
LEMMA WriterStep ==
  ASSUME ReloadInv, StoreNext
  PROVE  /\ StoreTypeOK'
         /\ \/ db' = db /\ commits' = commits
            \/ commits' = commits + 1
         /\ completed \subseteq completed' /\ db' \in completed'
<1> USE DEF ReloadInv, ReloadTypeOK, StoreTypeOK, WriterInv
<1>1. ASSUME NEW req \in Request, BeginEnrolment(req)
      PROVE  StoreTypeOK' /\ db' = db /\ commits' = commits
             /\ completed' = completed
  BY <1>1 DEF BeginEnrolment, Transaction, Request
<1>2. ASSUME NEW byName \in BOOLEAN, UpsertResident(byName)
      PROVE  StoreTypeOK' /\ db' = db /\ commits' = commits
             /\ completed' = completed
  <2>1. enrolment \in Transaction
    BY <1>2 DEF UpsertResident, WriterFree
  <2> DEFINE old == enrolment.draft
             row == Upserted(enrolment.req, old, byName)
  <2>2. old \in Content /\ enrolment.req \in Request
    BY <2>1 DEF Transaction
  <2>3. row \in Row
    <3>1. CASE enrolment.req.rid \in DOMAIN old
      BY <2>2, <3>1, ContentElim DEF Upserted, Row, Request
    <3>2. CASE enrolment.req.rid \notin DOMAIN old
      BY <2>2, <3>2 DEF Upserted, Row, Request
    <3> QED
      BY <3>1, <3>2
  <2>4. With(old, enrolment.req.rid, row) \in Content
    BY <2>2, <2>3, WithRow DEF Request
  <2>5. enrolment' = [enrolment EXCEPT
            !.draft = With(old, enrolment.req.rid, row),
            !.stage = IF enrolment.req.replace THEN "delete" ELSE "add",
            !.left = enrolment.left]
        /\ UNCHANGED <<db, commits, completed>>
    BY <1>2 DEF UpsertResident, Write
  <2>6. enrolment' \in Transaction
    BY <2>1, <2>4, <2>5 DEF Transaction
  <2> QED
    BY <2>5, <2>6
<1>3. CASE DeleteEmbeddings
  <2>1. enrolment \in Transaction /\ enrolment.draft \in Content
    BY <1>3 DEF DeleteEmbeddings, WriterFree, Transaction
  <2>2. [enrolment.draft EXCEPT ![enrolment.req.rid].embs = {}] \in Content
    BY <2>1, WithEmbeddings
  <2> QED
    BY <1>3, <2>1, <2>2 DEF DeleteEmbeddings, Write, Transaction
<1>4. ASSUME NEW e \in Embeddings, AddEmbedding(e)
      PROVE  StoreTypeOK' /\ db' = db /\ commits' = commits
             /\ completed' = completed
  <2>1. enrolment \in Transaction /\ enrolment.draft \in Content
    BY <1>4 DEF AddEmbedding, WriterFree, Transaction
  <2> DEFINE new ==
        [enrolment.draft EXCEPT ![enrolment.req.rid].embs = @ \cup {e}]
  <2>2. new \in Content
    <3>1. CASE enrolment.req.rid \in DOMAIN enrolment.draft
      <4>1. enrolment.draft[enrolment.req.rid].embs \cup {e} \in SUBSET Embeddings
        BY <2>1, <3>1, ContentElim DEF Row
      <4> QED
        BY <2>1, <4>1, WithEmbeddings
    <3>2. CASE enrolment.req.rid \notin DOMAIN enrolment.draft
      <4>1. enrolment.draft \in [DOMAIN enrolment.draft -> Row]
        BY <2>1, ContentElim
      <4>2. new = enrolment.draft
        BY <3>2, <4>1
      <4> QED
        BY <2>1, <4>2
    <3> QED
      BY <3>1, <3>2
  <2> QED
    BY <1>4, <2>1, <2>2 DEF AddEmbedding, Write, Transaction
<1>5. CASE CommitEnrolment
  <2>1. enrolment \in Transaction /\ commits < MaxCommits
    BY <1>5 DEF CommitEnrolment, WriterFree
  <2>2. commits + 1 \in 0 .. MaxCommits
    BY <2>1, StoreAssumption
  <2>3. enrolment.draft \in Content
    BY <2>1 DEF Transaction
  <2> QED
    BY <1>5, <2>2, <2>3 DEF CommitEnrolment
<1>6. CASE RollbackEnrolment
  BY <1>6 DEF RollbackEnrolment
<1>7. ASSUME NEW rid \in Residents, RemoveResident(rid)
      PROVE  StoreTypeOK' /\ commits' = commits + 1
             /\ completed' = completed \cup {db'}
  <2>1. [r \in DOMAIN db \ {rid} |-> db[r]] \in [DOMAIN db \ {rid} -> Row]
    BY ContentElim
  <2>2. db' \in Content
    BY <1>7, <2>1, ContentElim, ContentIntro DEF RemoveResident
  <2> QED
    BY <1>7, <2>2, StoreAssumption DEF RemoveResident
<1>8. CASE AuditCommit
  BY <1>8, StoreAssumption DEF AuditCommit
<1> QED
  BY <1>1, <1>2, <1>3, <1>4, <1>5, <1>6, <1>7, <1>8 DEF StoreNext

-----------------------------------------------------------------------------
\* The steps of the writers preserve the invariant.
LEMMA StorePreserves ==
  ASSUME ReloadInv, StoreNext, UNCHANGED reloadVars
  PROVE  ReloadInv'
<1> USE DEF ReloadInv, reloadVars, acceptedVars, pollVars
<1>1. StoreTypeOK' /\ WriterInv' /\ db' \in completed'
      /\ completed \subseteq completed'
  BY WriterStep, WriterKeepsBound
<1>2. (db' = db /\ commits' = commits) \/ commits' = commits + 1
  BY WriterStep
<1>3. commits \in Nat /\ reader.seen \in Nat /\ reader.seen <= commits
  BY StoreAssumption DEF ReaderInv, ReloadTypeOK, StoreTypeOK
<1>4. reader.seen = commits' => commits' = commits /\ db' = db
  BY <1>2, <1>3
<1>5. ReloadTypeOK'
  BY <1>1 DEF ReloadTypeOK
<1>6. ReaderInv'
  BY <1>2, <1>3 DEF ReaderInv
<1>7. PollInv'
  BY <1>1, <1>4 DEF PollInv, Intact, SameCatalog
<1>8. AcceptedInv'
  BY <1>4 DEF AcceptedInv
<1>9. RuntimeIsWhole'
  BY <1>1 DEF RuntimeIsWhole, Intact
<1> QED
  BY <1>1, <1>5, <1>6, <1>7, <1>8, <1>9

-----------------------------------------------------------------------------
\* A connection that is in use stays within the change counter and never
\* goes back.
LEMMA ConnectionShape ==
  ASSUME ReloadInv
  PROVE  /\ Refreshed(reader).seen = commits
         /\ Refreshed(reader).open = reader.open
         /\ Refreshed(reader).version \in Version
         /\ reader.version <= Refreshed(reader).version
         /\ Refreshed(reader).version <= commits + 1
         /\ reader.seen # commits =>
              Refreshed(reader).version = reader.version + 1
         /\ reader.seen = commits => Refreshed(reader) = reader
         /\ Refreshed(reader) \in
              [open : BOOLEAN, version : Version, seen : 0 .. MaxCommits]
         /\ NewReader \in
              [open : BOOLEAN, version : Version, seen : 0 .. MaxCommits]
<1> DEFINE Reader == [open : BOOLEAN, version : Version, seen : 0 .. MaxCommits]
<1>1. /\ reader \in Reader /\ commits \in 0 .. MaxCommits
      /\ reader.seen <= commits /\ reader.version <= reader.seen + 1
  BY DEF ReloadInv, ReloadTypeOK, StoreTypeOK, ReaderInv
<1>2. /\ reader.version \in Nat /\ reader.seen \in Nat
      /\ commits \in Nat /\ MaxCommits \in Nat
  BY <1>1, StoreAssumption DEF Version
<1>3. NewReader \in Reader
  BY <1>1, <1>2 DEF NewReader, Version
<1>4. CASE reader.seen = commits
  BY <1>1, <1>2, <1>3, <1>4 DEF Refreshed
<1>5. CASE reader.seen # commits
  <2>1. Refreshed(reader) =
          [open |-> reader.open, version |-> reader.version + 1, seen |-> commits]
    BY <1>1, <1>5 DEF Refreshed
  <2>2. reader.version + 1 <= commits + 1
    BY <1>1, <1>2, <1>5
  <2>3. reader.version + 1 \in Version /\ reader.open \in BOOLEAN
    BY <1>1, <1>2, <2>2 DEF Version
  <2> QED
    BY <1>1, <1>2, <1>3, <1>5, <2>1, <2>2, <2>3
<1> QED
  BY <1>4, <1>5

-----------------------------------------------------------------------------
\* The steps of the main thread.
LEMMA ReloadPreserves ==
  ASSUME ReloadInv, Reload \/ Tick, UNCHANGED storeVars
  PROVE  ReloadInv'
<1> USE DEF storeVars
<1> DEFINE Reader == [open : BOOLEAN, version : Version, seen : 0 .. MaxCommits]
<1>1. ReloadTypeOK /\ StoreTypeOK /\ db \in completed /\ WriterInv
      /\ ReaderInv /\ PollInv /\ AcceptedInv /\ RuntimeIsWhole
  BY DEF ReloadInv, ReloadTypeOK
<1>2. StoreTypeOK' /\ WriterInv' /\ (db \in completed)'
  BY <1>1 DEF StoreTypeOK, WriterInv
<1>3. /\ reader \in Reader /\ reader.version \in Nat /\ reader.seen \in Nat
      /\ commits \in 0 .. MaxCommits /\ commits \in Nat /\ MaxCommits \in Nat
      /\ version \in Nat /\ accepted \in Nat
  BY <1>1, StoreAssumption DEF ReloadTypeOK, StoreTypeOK, Version
<1>4. EmptyContent \in Content /\ 0 \in Version /\ 1 \in Version
  <2>1. EmptyContent \in [{} -> Row]
    BY DEF EmptyContent
  <2> QED
    <3>1. EmptyContent \in Content
      BY <2>1, ContentIntro
    <3> QED
      BY <1>3, <3>1 DEF Version
<1>5. /\ NewReader \in Reader /\ Refreshed(reader) \in Reader
      /\ ClosedReader \in Reader
  BY <1>3, <1>4, ConnectionShape DEF ClosedReader
<1>6. /\ 0 \in 0 .. PollInterval /\ PollInterval \in 0 .. PollInterval
      /\ 0 \in 0 .. MaxBackoff /\ FirstBackoff \in 0 .. MaxBackoff
      /\ backoff \in 0 .. MaxBackoff
      /\ FirstBackoff \in FirstBackoff .. MaxBackoff
      /\ BackoffNow \in FirstBackoff .. MaxBackoff
      /\ BackoffNow \in 0 .. MaxBackoff
  BY <1>1, ReloadAssumption DEF ReloadTypeOK, BackoffNow
<1>7. reader.open => backoff = FirstBackoff
  BY <1>1 DEF ReloadTypeOK
<1>8. Connection \in Reader /\ Connection.open
      /\ Connection.seen = commits /\ Connection.version \in Version
      /\ Connection.version <= commits + 1
  BY ConnectionShape DEF Connection, NewReader
<1>9. Connection.version \in Nat
  BY <1>8 DEF Version
<1>10. /\ ForceFull \in BOOLEAN /\ KnowsAccepted \in BOOLEAN
       /\ AfterFailure \in {"exited", "idle"} /\ ~ClosedReader.open
       /\ KnowsAccepted => haveAccepted /\ reader.open
  BY DEF ForceFull, KnowsAccepted, AfterFailure, ClosedReader
<1>11. /\ (IF backoff * 2 < MaxBackoff THEN backoff * 2 ELSE MaxBackoff)
             \in FirstBackoff .. MaxBackoff
       /\ Less(pollIn) \in 0 .. PollInterval /\ Less(reopenIn) \in 0 .. MaxBackoff
  BY <1>1, ReloadAssumption DEF ReloadTypeOK, Less
<1>12. /\ Catalog(EmbeddingRows) = snapshot
       /\ Valid(EmbeddingRows) => Intact(snapshot)
       /\ db \in Content /\ snapshot \in Content
  BY <1>1, CatalogOfSnapshot DEF ReloadTypeOK, StoreTypeOK
<1>13. BackoffNow = FirstBackoff
  BY <1>7 DEF BackoffNow
<1>14. Refreshed(reader).open = reader.open
  BY ConnectionShape
<1> USE DEF EndPoll, acceptedVars, pollVars
<1>15. CASE Open
  <2>1. ReloadTypeOK'
    BY <1>1, <1>2, <1>5, <1>15 DEF Open, PollInv, ReloadTypeOK
  <2>2. ReaderInv'
    BY <1>15, ConnectionShape DEF Open, ReaderInv, NewReader
  <2>3. PollInv'
    BY <1>15 DEF Open, PollInv
  <2>4. AcceptedInv'
    BY <1>1, <1>15 DEF Open, AcceptedInv, PollInv
  <2>5. RuntimeIsWhole'
    BY <1>1, <1>15 DEF Open, RuntimeIsWhole
  <2> QED
    BY <1>2, <2>1, <2>2, <2>3, <2>4, <2>5 DEF ReloadInv
<1>16. CASE OpenFails
  <2>1. ReloadTypeOK'
    BY <1>1, <1>2, <1>6, <1>16 DEF OpenFails, ReloadTypeOK
  <2>2. ReaderInv'
    BY <1>1, <1>16 DEF OpenFails, ReaderInv
  <2>3. PollInv'
    BY <1>16 DEF OpenFails, PollInv
  <2>4. AcceptedInv'
    BY <1>1, <1>16 DEF OpenFails, AcceptedInv
  <2>5. RuntimeIsWhole'
    BY <1>1, <1>16 DEF OpenFails, RuntimeIsWhole
  <2> QED
    BY <1>2, <2>1, <2>2, <2>3, <2>4, <2>5 DEF ReloadInv
<1>17. CASE PollInBackoff
  <2>1. ReloadTypeOK'
    BY <1>1, <1>2, <1>4, <1>6, <1>10, <1>17
       DEF PollInBackoff, Due, ReloadTypeOK
  <2>2. ReaderInv'
    BY <1>1, <1>17 DEF PollInBackoff, ReaderInv
  <2>3. PollInv'
    BY <1>10, <1>17 DEF PollInBackoff, PollInv
  <2>4. AcceptedInv'
    BY <1>17 DEF PollInBackoff, AcceptedInv
  <2>5. RuntimeIsWhole'
    BY <1>1, <1>17 DEF PollInBackoff, RuntimeIsWhole
  <2> QED
    BY <1>2, <2>1, <2>2, <2>3, <2>4, <2>5 DEF ReloadInv
<1>18. CASE PollCannotReopen
  <2>1. ReloadTypeOK'
    BY <1>1, <1>2, <1>4, <1>6, <1>10, <1>11, <1>18
       DEF PollCannotReopen, Due, ReloadTypeOK
  <2>2. ReaderInv'
    BY <1>1, <1>18 DEF PollCannotReopen, ReaderInv
  <2>3. PollInv'
    BY <1>10, <1>18 DEF PollCannotReopen, PollInv
  <2>4. AcceptedInv'
    BY <1>18 DEF PollCannotReopen, AcceptedInv
  <2>5. RuntimeIsWhole'
    BY <1>1, <1>18 DEF PollCannotReopen, RuntimeIsWhole
  <2> QED
    BY <1>2, <2>1, <2>2, <2>3, <2>4, <2>5 DEF ReloadInv
<1>19. CASE PollLosesReader
  <2>1. ReloadTypeOK'
    BY <1>1, <1>2, <1>4, <1>5, <1>6, <1>10, <1>19
       DEF PollLosesReader, Due, ReloadTypeOK
  <2>2. ReaderInv'
    BY <1>19, ConnectionShape DEF PollLosesReader, ReaderInv, ClosedReader
  <2>3. PollInv'
    BY <1>10, <1>19 DEF PollLosesReader, PollInv
  <2>4. AcceptedInv'
    BY <1>19 DEF PollLosesReader, AcceptedInv
  <2>5. RuntimeIsWhole'
    BY <1>1, <1>19 DEF PollLosesReader, RuntimeIsWhole
  <2> QED
    BY <1>2, <2>1, <2>2, <2>3, <2>4, <2>5 DEF ReloadInv
<1>20. CASE PollSkips
  <2>1. ReloadTypeOK'
    BY <1>1, <1>2, <1>6, <1>8, <1>20
       DEF PollSkips, Due, NothingNew, KnowsAccepted, ReloadTypeOK
  <2>2. ReaderInv'
    BY <1>8, <1>20 DEF PollSkips, ReaderInv
  <2>3. PollInv'
    BY <1>20 DEF PollSkips, PollInv
  <2>4. AcceptedInv'
    BY <1>1, <1>3, <1>20, ConnectionShape
       DEF PollSkips, NothingNew, KnowsAccepted, AcceptedInv, Connection
  <2>5. RuntimeIsWhole'
    BY <1>1, <1>20 DEF PollSkips, RuntimeIsWhole
  <2> QED
    BY <1>2, <2>1, <2>2, <2>3, <2>4, <2>5 DEF ReloadInv
<1>21. CASE PollScans
  <2>1. ReloadTypeOK'
    BY <1>1, <1>2, <1>6, <1>8, <1>21, <1>13
       DEF PollScans, Due, ForceFull, KnowsAccepted, ReloadTypeOK
  <2>2. ReaderInv'
    BY <1>8, <1>21 DEF PollScans, ReaderInv
  <2>3. PollInv'
    BY <1>8, <1>9, <1>21 DEF PollScans, PollInv
  <2>4. AcceptedInv'
    <3> SUFFICES ASSUME haveAccepted', reader'.open PROVE AcceptedInv'
      BY DEF AcceptedInv
    <3>1. haveAccepted /\ reader.open /\ reader' = Refreshed(reader)
      BY <1>10, <1>21 DEF PollScans, Connection
    <3>2. accepted <= reader.version
          /\ (accepted = reader.version /\ reader.seen = commits => active = db)
      BY <1>1, <3>1 DEF AcceptedInv
    <3>3. CASE reader.seen = commits
      <4>1. reader' = reader
        BY <3>1, <3>3, ConnectionShape
      <4> QED
        BY <1>21, <3>2, <4>1 DEF PollScans, AcceptedInv
    <3>4. CASE reader.seen # commits
      <4>1. reader'.version = reader.version + 1
        BY <3>1, <3>4, ConnectionShape
      <4> QED
        BY <1>3, <1>21, <3>2, <4>1 DEF PollScans, AcceptedInv
    <3> QED
      BY <3>3, <3>4
  <2>5. RuntimeIsWhole'
    BY <1>1, <1>21 DEF PollScans, RuntimeIsWhole
  <2> QED
    BY <1>2, <2>1, <2>2, <2>3, <2>4, <2>5 DEF ReloadInv
<1>22. CASE ReadResidents
  <2>1. ReloadTypeOK'
    BY <1>1, <1>2, <1>5, <1>12, <1>22, <1>14 DEF ReadResidents, ReloadTypeOK
  <2>2. ReaderInv'
    BY <1>22, ConnectionShape DEF ReadResidents, ReaderInv
  <2>3. PollInv'
    BY <1>1, <1>3, <1>22, ConnectionShape DEF ReadResidents, PollInv
  <2>4. AcceptedInv'
    BY <1>1, <1>3, <1>22, ConnectionShape
       DEF ReadResidents, AcceptedInv, PollInv
  <2>5. RuntimeIsWhole'
    BY <1>1, <1>22 DEF ReadResidents, RuntimeIsWhole
  <2> QED
    BY <1>2, <2>1, <2>2, <2>3, <2>4, <2>5 DEF ReloadInv
<1>23. CASE ScanFails
  <2>1. ReloadTypeOK'
    BY <1>1, <1>2, <1>4, <1>10, <1>23 DEF ScanFails, ReloadTypeOK
  <2>2. ReaderInv'
    BY <1>1, <1>23 DEF ScanFails, ReaderInv
  <2>3. PollInv'
    BY <1>10, <1>23 DEF ScanFails, PollInv
  <2>4. AcceptedInv'
    BY <1>1, <1>23 DEF ScanFails, AcceptedInv
  <2>5. RuntimeIsWhole'
    BY <1>1, <1>23 DEF ScanFails, RuntimeIsWhole
  <2> QED
    BY <1>2, <2>1, <2>2, <2>3, <2>4, <2>5 DEF ReloadInv
<1>24. CASE ScanFindsNoChange
  <2>1. ReloadTypeOK'
    BY <1>1, <1>2, <1>4, <1>24 DEF ScanFindsNoChange, ReloadTypeOK
  <2>2. ReaderInv'
    BY <1>1, <1>24 DEF ScanFindsNoChange, ReaderInv
  <2>3. PollInv'
    BY <1>24 DEF ScanFindsNoChange, PollInv
  <2>4. AcceptedInv'
    BY <1>1, <1>12, <1>24
       DEF ScanFindsNoChange, AcceptedInv, PollInv, SameCatalog
  <2>5. RuntimeIsWhole'
    BY <1>1, <1>24 DEF ScanFindsNoChange, RuntimeIsWhole
  <2> QED
    BY <1>2, <2>1, <2>2, <2>3, <2>4, <2>5 DEF ReloadInv
<1>25. CASE ScanFindsCandidate
  <2>1. ReloadTypeOK'
    BY <1>1, <1>2, <1>12, <1>25 DEF ScanFindsCandidate, ReloadTypeOK
  <2>2. ReaderInv'
    BY <1>1, <1>25 DEF ScanFindsCandidate, ReaderInv
  <2>3. PollInv'
    BY <1>1, <1>12, <1>25 DEF ScanFindsCandidate, PollInv, SameCatalog
  <2>4. AcceptedInv'
    BY <1>1, <1>25 DEF ScanFindsCandidate, AcceptedInv
  <2>5. RuntimeIsWhole'
    BY <1>1, <1>25 DEF ScanFindsCandidate, RuntimeIsWhole
  <2> QED
    BY <1>2, <2>1, <2>2, <2>3, <2>4, <2>5 DEF ReloadInv
<1>26. CASE Accept
  <2>1. ReloadTypeOK'
    <3>1. active' \in Content /\ accepted' \in Version /\ generation' \in Nat
      BY <1>1, <1>26 DEF Accept, ObservedVersion, PollInv, ReloadTypeOK
    <3>2. /\ version' \in Version /\ snapshot' \in Content
          /\ candidate' = Nothing /\ pc' = "idle"
      BY <1>4, <1>26 DEF Accept
    <3> QED
      BY <1>1, <1>2, <1>26, <3>1, <3>2 DEF Accept, ReloadTypeOK
  <2>2. ReaderInv'
    BY <1>1, <1>26 DEF Accept, ReaderInv
  <2>3. PollInv'
    BY <1>26 DEF Accept, PollInv
  <2>4. AcceptedInv'
    BY <1>1, <1>26 DEF Accept, ObservedVersion, AcceptedInv, PollInv
  <2>5. RuntimeIsWhole'
    BY <1>1, <1>26 DEF Accept, PollInv, RuntimeIsWhole
  <2> QED
    BY <1>2, <2>1, <2>2, <2>3, <2>4, <2>5 DEF ReloadInv
<1>27. CASE Tick
  <2>1. ReloadTypeOK'
    BY <1>1, <1>2, <1>11, <1>27 DEF Tick, ReloadTypeOK
  <2>2. ReaderInv'
    BY <1>1, <1>27 DEF Tick, ReaderInv
  <2>3. PollInv'
    BY <1>1, <1>27 DEF Tick, PollInv, SameCatalog
  <2>4. AcceptedInv'
    BY <1>1, <1>27 DEF Tick, AcceptedInv
  <2>5. RuntimeIsWhole'
    BY <1>1, <1>27 DEF Tick, RuntimeIsWhole
  <2> QED
    BY <1>2, <2>1, <2>2, <2>3, <2>4, <2>5 DEF ReloadInv
<1> QED
  BY <1>15, <1>16, <1>17, <1>18, <1>19, <1>20, <1>21, <1>22, <1>23, <1>24,
     <1>25, <1>26, <1>27
     DEF Reload

-----------------------------------------------------------------------------
\* The invariant holds in every reachable state, for any number of residents,
\* embeddings and commits.
THEOREM ReloadInvariant == Spec => []ReloadInv
<1>1. ReloadInv /\ [Next]_vars => ReloadInv'
  <2> SUFFICES ASSUME ReloadInv, [Next]_vars PROVE ReloadInv'
    OBVIOUS
  <2>1. CASE StoreNext /\ UNCHANGED reloadVars
    BY <2>1, StorePreserves
  <2>2. CASE (Reload \/ Tick) /\ UNCHANGED storeVars
    BY <2>2, ReloadPreserves
  <2>3. CASE UNCHANGED vars
    BY <2>3 DEF vars, storeVars, reloadVars, acceptedVars, pollVars, ReloadInv,
       ReloadTypeOK, StoreTypeOK, WriterInv, ReaderInv, PollInv, AcceptedInv,
       RuntimeIsWhole, Intact, SameCatalog
  <2> QED
    BY <2>1, <2>2, <2>3 DEF Next, Exited
<1> QED
  BY <1>1, InitReload, PTL DEF Spec

\* The variables keep their types.
THEOREM ReloadTypeCorrect == Spec => []ReloadTypeOK
<1>1. ReloadInv => ReloadTypeOK
  BY DEF ReloadInv
<1> QED
  BY <1>1, ReloadInvariant, PTL

\* resident_catalog.cpp 190-197: a poll that stops at the data version never
\* overlooks a commit, whenever it came and whatever failed in between.
THEOREM SkipNeverMisses == Spec => []SkipIsSound
<1>1. ReloadInv => SkipIsSound
  <2> SUFFICES ASSUME ReloadInv, NothingNew PROVE active = db
    BY DEF SkipIsSound
  <2>1. haveAccepted /\ reader.open /\ Refreshed(reader).version = accepted
    BY DEF NothingNew, KnowsAccepted, Connection
  <2>2. accepted <= reader.version
        /\ (accepted = reader.version /\ reader.seen = commits => active = db)
    BY <2>1 DEF ReloadInv, AcceptedInv
  <2>3. CASE reader.seen = commits
    BY <2>1, <2>2, <2>3, ConnectionShape
  <2>4. CASE reader.seen # commits
    <3>1. accepted = reader.version + 1
      BY <2>1, <2>4, ConnectionShape
    <3>2. accepted \in Nat /\ reader.version \in Nat
      BY StoreAssumption DEF ReloadInv, ReloadTypeOK, Version
    <3> QED
      BY <2>2, <3>1, <3>2
  <2> QED
    BY <2>3, <2>4
<1> QED
  BY <1>1, ReloadInvariant, PTL

\* R3 and R4 of resident-hot-reload: the catalog in use is always the result
\* of whole enrolments and holds nothing malformed.
THEOREM RuntimeAlwaysWhole == Spec => []RuntimeIsWhole
<1>1. ReloadInv => RuntimeIsWhole
  BY DEF ReloadInv
<1> QED
  BY <1>1, ReloadInvariant, PTL

\* R2.5 of resident-hot-reload: a poll that finds the residents unchanged,
\* whatever else was committed, never replaces the catalog.
THEOREM UnchangedNeverReloads == Spec => AuditNeverReloads
<1>1. ReloadInv /\ [Next]_vars =>
        [generation > 0 /\ generation' # generation => active' # active]_vars
  <2> SUFFICES ASSUME ReloadInv, [Next]_vars, generation > 0,
                      generation' # generation
               PROVE  active' # active
    OBVIOUS
  <2>1. Accept
    BY DEF Next, Reload, Tick, Exited, vars, reloadVars, acceptedVars, Open,
       OpenFails, PollInBackoff, PollCannotReopen, PollLosesReader, PollSkips,
       PollScans, ReadResidents, ScanFails, ScanFindsNoChange,
       ScanFindsCandidate
  <2> QED
    BY <2>1 DEF ReloadInv, PollInv, Accept, SameCatalog
<1> QED
  BY <1>1, ReloadInvariant, PTL DEF Spec, AuditNeverReloads
=============================================================================
