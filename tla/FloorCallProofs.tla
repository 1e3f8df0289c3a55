--------------------------- MODULE FloorCallProofs ---------------------------
(***************************************************************************)
(* Theorems about FloorCallSystem for every set of residents and floors,   *)
(* every limit and timeout.  First what the operations of the coordinator  *)
(* preserve, then the actions of the transport, then the system: its       *)
(* inductive invariant joins those of the two components with what ties    *)
(* them together: the request the frame thread is handing over is queued   *)
(* in the coordinator and unknown to the transport, an accepted request of *)
(* the current visit has a record that is not rejected, and the record     *)
(* says what was issued.  Last the history: the system implements          *)
(* FloorCallLifecycle, and what is written and reported is in order and    *)
(* true.                                                                   *)
(***************************************************************************)
EXTENDS FloorCallSystem, FiniteSetTheorems, SequenceTheorems, TLAPS

(***************************************************************************)
(* The coordinator.  The records of a visit are exactly those of the       *)
(* sequence numbers it has given out; this is why the count of commands    *)
(* bounds the sequence, and why a new request never finds a record under   *)
(* its id.                                                                 *)
(***************************************************************************)

\* The records of the visit v are those of its ids below the next sequence.
ShapeOf(v) ==
  \A id \in Ids : v.commands[id] # Absent <=> (id[1] = v.id /\ id[2] < v.seq)

\* A command that is not rejected holds its floor, and only such a command.
ReservedIn(v) ==
  \A id \in Ids :
    v.commands[id] # Absent =>
      (v.commands[id].state # "rejected" <=> v.floorReq[v.commands[id].floor] = id)

CoordinatorInv ==
  /\ CoordinatorTypeOK
  /\ visit.id < nextVisit
  /\ ShapeOf(visit)
  /\ ReservedIn(visit)

\* A step that makes no request: the same visit keeps its records and its
\* rulings, or it has ended, or a new one has begun.
QuietVisit ==
  /\ nextVisit' >= nextVisit
  /\ \/ /\ visit.id # 0 /\ visit'.id = visit.id
        /\ visit'.commands = visit.commands
        /\ \A r \in Residents : visit.decided[r] # Absent => visit'.decided[r] # Absent
     \/ /\ visit'.id \in {0, nextVisit}
        /\ visit'.commands = [i \in Ids |-> Absent]

-----------------------------------------------------------------------------
\* A cleared visit is well formed.
LEMMA ClearedShape ==
  ASSUME NEW id \in 0 .. MaxVisits
  PROVE  Cleared(id) \in Visit /\ ShapeOf(Cleared(id)) /\ ReservedIn(Cleared(id))
<1>1. Cleared(id) \in Visit
  BY CoordinatorAssumption DEF Cleared, Visit
<1>2. \A i \in Ids : Cleared(id).commands[i] = Absent /\ i[2] >= Cleared(id).seq
  BY CoordinatorAssumption DEF Cleared, Ids
<1> QED
  BY <1>1, <1>2, CoordinatorAssumption DEF ShapeOf, ReservedIn, Cleared, Ids

\* The visit that a subject or a confirmation works on: the open one, or a
\* new one.
LEMMA StartedShape ==
  ASSUME CoordinatorInv, MayStart
  PROVE  /\ Started \in Visit /\ Started.id \in 1 .. MaxVisits
         /\ ShapeOf(Started) /\ ReservedIn(Started)
<1>1. CASE visit.id # 0
  BY <1>1 DEF CoordinatorInv, CoordinatorTypeOK, Started, Visit
<1>2. CASE visit.id = 0
  <2>1. nextVisit \in 1 .. MaxVisits
    BY <1>2, CoordinatorAssumption DEF CoordinatorInv, CoordinatorTypeOK, MayStart
  <2>2. Started = Cleared(nextVisit) /\ Started.id = nextVisit
    BY <1>2 DEF Started, Cleared
  <2> QED
    BY <2>1, <2>2, ClearedShape, CoordinatorAssumption
<1> QED
  BY <1>1, <1>2

\* The number of commands of a visit is one less than its next sequence.
LEMMA CommandCountIsSequence ==
  ASSUME NEW v \in Visit, v.id \in 1 .. MaxVisits, ShapeOf(v)
  PROVE  CommandCount(v) = v.seq - 1
<1> DEFINE T == {i \in Ids : v.commands[i] # Absent}
           S == 1 .. (v.seq - 1)
           f == [s \in S |-> <<v.id, s>>]
<1>1. v.seq \in Int /\ v.seq >= 1 /\ v.seq <= MaxCommandsPerVisit + 1
  BY CoordinatorAssumption DEF Visit
<1>2. \A s \in S : f[s] \in T
  <2> SUFFICES ASSUME NEW s \in S PROVE f[s] \in T
    OBVIOUS
  <2>1. f[s] \in Ids /\ f[s][1] = v.id /\ f[s][2] < v.seq
    BY <1>1, CoordinatorAssumption DEF Ids
  <2> QED
    BY <2>1 DEF ShapeOf
<1>3. \A t \in T : t[2] \in S /\ f[t[2]] = t
  BY <1>1, CoordinatorAssumption DEF ShapeOf, Ids
<1>4. f \in Bijection(S, T)
  <2>1. f \in [S -> T]
    BY <1>2
  <2>2. \A a, b \in S : f[a] = f[b] => a = b
    OBVIOUS
  <2>3. \A t \in T : \E s \in S : f[s] = t
    BY <1>3
  <2> QED
    BY <2>1, <2>2, <2>3 DEF Bijection, Injection, Surjection, IsInjective
<1>5. ExistsBijection(S, T)
  BY <1>4 DEF ExistsBijection
<1>6. IsFiniteSet(S) /\ Cardinality(S) = v.seq - 1
  BY <1>1, FS_Interval
<1>7. Cardinality(T) = Cardinality(S)
  BY <1>5, <1>6, FS_Bijection
<1> QED
  BY <1>6, <1>7 DEF CommandCount

\* A queued ruling leaves room for a record and finds the floor free.
LEMMA QueuedHasRoom ==
  ASSUME NEW v \in Visit, v.id \in 1 .. MaxVisits, ShapeOf(v),
         NEW rid \in Residents, NEW floor \in Floors,
         Ruling(v, rid, floor) = "queued", v.decided[rid] = Absent
  PROVE  /\ v.seq \in 1 .. MaxCommandsPerVisit
         /\ <<v.id, v.seq>> \in Ids
         /\ v.commands[<<v.id, v.seq>>] = Absent
         /\ v.floorReq[floor] = Absent
         /\ floor \in FloorsMin .. FloorsMax
<1>1. v.floorReq[floor] = Absent /\ CommandCount(v) < MaxCommandsPerVisit
        /\ floor \in FloorsMin .. FloorsMax
  <2>1. CommandCount(v) \in Int
    BY CommandCountIsSequence, CoordinatorAssumption DEF Visit
  <2> QED
    BY <2>1, CoordinatorAssumption DEF Ruling
<1>2. v.seq \in 1 .. MaxCommandsPerVisit
  BY <1>1, CommandCountIsSequence, CoordinatorAssumption DEF Visit
<1>3. <<v.id, v.seq>> \in Ids
  BY <1>2 DEF Ids
<1> QED
  BY <1>1, <1>2, <1>3, CoordinatorAssumption DEF ShapeOf

-----------------------------------------------------------------------------
(* Each operation preserves the invariant.                                  *)

LEMMA InitPreserves == CoordinatorInit => CoordinatorInv
BY ClearedShape, CoordinatorAssumption
   DEF CoordinatorInit, CoordinatorInv, CoordinatorTypeOK, Cleared

LEMMA PresentPreserves ==
  ASSUME CoordinatorInv, OnPresent
  PROVE  CoordinatorInv' /\ QuietVisit
<1>1. Started \in Visit /\ Started.id \in 1 .. MaxVisits /\ ShapeOf(Started)
        /\ ReservedIn(Started)
  BY StartedShape DEF OnPresent
<1>2. visit' \in Visit /\ visit'.id = Started.id /\ visit'.seq = Started.seq
        /\ visit'.commands = Started.commands /\ visit'.floorReq = Started.floorReq
  BY <1>1 DEF OnPresent, Visit
<1>3. nextVisit' \in 1 .. (MaxVisits + 1) /\ visit'.id < nextVisit'
  BY <1>1, <1>2, CoordinatorAssumption
     DEF OnPresent, CountStart, MayStart, Started, Cleared, CoordinatorInv,
         CoordinatorTypeOK
<1>4. QuietVisit
  <2>1. visit'.decided = Started.decided
    BY <1>1 DEF OnPresent, Visit
  <2> QED
    BY <1>2, <2>1, CoordinatorAssumption
       DEF OnPresent, CountStart, Started, Cleared, QuietVisit, CoordinatorInv,
           CoordinatorTypeOK
<1> QED
  BY <1>1, <1>2, <1>3, <1>4 DEF CoordinatorInv, CoordinatorTypeOK, ShapeOf, ReservedIn

LEMMA EmptyPreserves ==
  ASSUME NEW now \in Nat, CoordinatorInv, OnEmpty(now)
  PROVE  CoordinatorInv' /\ QuietVisit
<1>0. nextVisit' = nextVisit /\ nextVisit \in Int
  BY CoordinatorAssumption DEF OnEmpty, CoordinatorInv, CoordinatorTypeOK
<1>1. CASE visit' = Cleared(0)
  <2>1. 0 \in 0 .. MaxVisits /\ nextVisit' = nextVisit /\ visit'.id = 0
    BY <1>1, CoordinatorAssumption DEF OnEmpty, Cleared
  <2>2. visit'.commands = [i \in Ids |-> Absent]
    BY <1>1 DEF Cleared
  <2> QED
    BY <1>0, <1>1, <2>1, <2>2, ClearedShape, CoordinatorAssumption
       DEF CoordinatorInv, CoordinatorTypeOK, QuietVisit, OnEmpty
<1>2. CASE visit' = [visit EXCEPT !.emptySince = now]
  <2>1. visit' \in Visit /\ visit'.id = visit.id /\ visit'.seq = visit.seq
          /\ visit'.commands = visit.commands /\ visit'.floorReq = visit.floorReq
          /\ visit'.decided = visit.decided
    BY <1>2 DEF CoordinatorInv, CoordinatorTypeOK, Visit
  <2> QED
    BY <1>0, <2>1
       DEF OnEmpty, CoordinatorInv, CoordinatorTypeOK, ShapeOf, ReservedIn, QuietVisit
<1>3. CASE visit' = visit
  BY <1>0, <1>3
     DEF OnEmpty, CoordinatorInv, CoordinatorTypeOK, ShapeOf, ReservedIn, QuietVisit
<1> QED
  BY <1>1, <1>2, <1>3 DEF OnEmpty

LEMMA SuppressPreserves ==
  ASSUME NEW rid \in Residents, NEW floor \in Floors,
         CoordinatorInv, Suppress(rid, floor)
  PROVE  CoordinatorInv' /\ QuietVisit
<1> DEFINE ruling == Ruling(Started, rid, floor)
<1>1. Started \in Visit /\ Started.id \in 1 .. MaxVisits /\ ShapeOf(Started)
        /\ ReservedIn(Started)
  BY StartedShape DEF Suppress
<1>2. ruling \in Rulings
  BY DEF Ruling, Rulings
<1>3. visit' = [Started EXCEPT !.decided[rid] = ruling]
  BY DEF Suppress
<1>4. visit' \in Visit /\ visit'.id = Started.id /\ visit'.seq = Started.seq
        /\ visit'.commands = Started.commands /\ visit'.floorReq = Started.floorReq
  <2> HIDE DEF ruling
  <2> QED
    BY <1>1, <1>2, <1>3 DEF Visit
<1>5. nextVisit' \in 1 .. (MaxVisits + 1) /\ visit'.id < nextVisit'
  BY <1>1, <1>4, CoordinatorAssumption
     DEF Suppress, CountStart, MayStart, Started, Cleared, CoordinatorInv,
         CoordinatorTypeOK
<1>6. QuietVisit
  <2>1. ruling # Absent
    BY <1>2, AbsentAssumption
  <2>2. \A r \in Residents : Started.decided[r] # Absent => visit'.decided[r] # Absent
    <3> HIDE DEF ruling
    <3> QED
      BY <1>1, <1>3, <2>1 DEF Visit
  <2> QED
    BY <1>4, <2>2, CoordinatorAssumption
       DEF Suppress, CountStart, Started, Cleared, QuietVisit, CoordinatorInv,
           CoordinatorTypeOK
<1> QED
  BY <1>1, <1>4, <1>5, <1>6 DEF CoordinatorInv, CoordinatorTypeOK, ShapeOf, ReservedIn

\* A queued ruling also shows that the resident had none.
LEMMA QueuedUndecided ==
  ASSUME NEW v, NEW rid, NEW floor, Ruling(v, rid, floor) = "queued"
  PROVE  v.decided[rid] = Absent
BY DEF Ruling

LEMMA ReservePreserves ==
  ASSUME NEW rid \in Residents, NEW floor \in Floors,
         CoordinatorInv, Reserve(rid, floor)
  PROVE  /\ CoordinatorInv'
         /\ NextId \in Ids /\ NextId[1] = visit'.id
         /\ Started.commands[NextId] = Absent
         /\ visit'.commands = [Started.commands EXCEPT
                                 ![NextId] = [rid |-> rid, floor |-> floor,
                                              state |-> "queued"]]
         /\ floor \in FloorsMin .. FloorsMax
         /\ nextVisit' >= nextVisit
         /\ \/ visit'.id = visit.id /\ visit.commands = Started.commands
              /\ visit.decided[rid] = Absent
            \/ visit'.id = nextVisit /\ Started.commands = [i \in Ids |-> Absent]
         /\ visit'.decided[rid] # Absent
         /\ visit'.id = visit.id =>
              \A r \in Residents : visit.decided[r] # Absent => visit'.decided[r] # Absent
<1> DEFINE record == [rid |-> rid, floor |-> floor, state |-> "queued"]
<1>1. Started \in Visit /\ Started.id \in 1 .. MaxVisits /\ ShapeOf(Started)
        /\ ReservedIn(Started)
  BY StartedShape DEF Reserve
<1>2. /\ Started.seq \in 1 .. MaxCommandsPerVisit
      /\ NextId \in Ids /\ NextId = <<Started.id, Started.seq>>
      /\ Started.commands[NextId] = Absent /\ Started.floorReq[floor] = Absent
      /\ floor \in FloorsMin .. FloorsMax
  BY <1>1, QueuedHasRoom, QueuedUndecided DEF Reserve, NextId
<1>3. record \in Entry /\ record \in Entry \cup {Absent}
  BY DEF Entry, CommandStates
<1>4. visit' = [Started EXCEPT !.decided[rid] = "queued",
                  !.floorReq[floor] = NextId, !.commands[NextId] = record,
                  !.seq = @ + 1]
  BY DEF Reserve
<1>5. /\ visit' \in Visit
      /\ visit'.id = Started.id /\ visit'.seq = Started.seq + 1
      /\ visit'.commands = [Started.commands EXCEPT ![NextId] = record]
      /\ visit'.floorReq = [Started.floorReq EXCEPT ![floor] = NextId]
      /\ visit'.decided = [Started.decided EXCEPT ![rid] = "queued"]
  <2>1. Started.seq + 1 \in 1 .. (MaxCommandsPerVisit + 1)
    BY <1>2, CoordinatorAssumption
  <2>2. visit' = [id |-> Started.id, seq |-> Started.seq + 1,
                  emptySince |-> Started.emptySince,
                  decided |-> [Started.decided EXCEPT ![rid] = "queued"],
                  floorReq |-> [Started.floorReq EXCEPT ![floor] = NextId],
                  commands |-> [Started.commands EXCEPT ![NextId] = record]]
    <3> HIDE DEF record
    <3> QED
      BY <1>1, <1>4 DEF Visit
  <2>3. /\ [Started.decided EXCEPT ![rid] = "queued"]
              \in [Residents -> Rulings \cup {Absent}]
        /\ [Started.floorReq EXCEPT ![floor] = NextId]
              \in [Floors -> Ids \cup {Absent}]
        /\ [Started.commands EXCEPT ![NextId] = record]
              \in [Ids -> Entry \cup {Absent}]
    <3> HIDE DEF record
    <3> QED
      BY <1>1, <1>2, <1>3 DEF Visit, Rulings
  <2> HIDE DEF record
  <2> QED
    BY <1>1, <2>1, <2>2, <2>3 DEF Visit
<1>6. record # Absent
  BY <1>3, AbsentAssumption
<1>7. ShapeOf(visit')
  <2> SUFFICES ASSUME NEW id \in Ids
               PROVE  visit'.commands[id] # Absent
                        <=> (id[1] = visit'.id /\ id[2] < visit'.seq)
    BY DEF ShapeOf
  <2>1. CASE id = NextId
    <3>1. visit'.commands[id] = record
      BY <2>1, <1>1, <1>2, <1>5 DEF Visit
    <3> QED
      BY <2>1, <3>1, <1>2, <1>5, <1>6
  <2>2. CASE id # NextId
    <3>1. visit'.commands[id] = Started.commands[id]
      BY <2>2, <1>1, <1>5 DEF Visit
    <3>2. id[1] = Started.id => id[2] # Started.seq
      BY <2>2, <1>2 DEF Ids
    <3> QED
      BY <3>1, <3>2, <1>1, <1>2, <1>5, CoordinatorAssumption DEF ShapeOf, Ids
  <2> QED
    BY <2>1, <2>2
<1>8. ReservedIn(visit')
  <2> SUFFICES ASSUME NEW id \in Ids, visit'.commands[id] # Absent
               PROVE  visit'.commands[id].state # "rejected"
                        <=> visit'.floorReq[visit'.commands[id].floor] = id
    BY DEF ReservedIn
  <2>1. CASE id = NextId
    <3>1. visit'.commands[id] = record
      BY <2>1, <1>1, <1>2, <1>5 DEF Visit
    <3>2. visit'.floorReq[floor] = NextId
      BY <1>1, <1>5 DEF Visit
    <3> QED
      BY <2>1, <3>1, <3>2
  <2>2. CASE id # NextId
    <3>1. visit'.commands[id] = Started.commands[id]
      BY <2>2, <1>1, <1>5 DEF Visit
    <3>2. Started.commands[id] \in Entry
      BY <3>1, <1>1 DEF Visit
    <3>3. Started.commands[id].state # "rejected"
            <=> Started.floorReq[Started.commands[id].floor] = id
      BY <3>1, <1>1 DEF ReservedIn
    <3>4. CASE Started.commands[id].floor = floor
      <4>1. visit'.floorReq[floor] = NextId /\ Started.floorReq[floor] # id
        BY <1>1, <1>2, <1>5, AbsentAssumption DEF Visit
      <4> QED
        BY <4>1, <3>1, <3>3, <3>4, <2>2
    <3>5. CASE Started.commands[id].floor # floor
      <4>1. visit'.floorReq[Started.commands[id].floor]
              = Started.floorReq[Started.commands[id].floor]
        BY <1>1, <1>5, <3>2, <3>5 DEF Visit, Entry
      <4> QED
        BY <4>1, <3>1, <3>3
    <3> QED
      BY <3>4, <3>5
  <2> QED
    BY <2>1, <2>2
<1>9. nextVisit' \in 1 .. (MaxVisits + 1) /\ visit'.id < nextVisit'
  BY <1>1, <1>5, CoordinatorAssumption
     DEF Reserve, CountStart, MayStart, Started, Cleared, CoordinatorInv,
         CoordinatorTypeOK
<1>10. nextVisit' >= nextVisit
  BY CoordinatorAssumption DEF Reserve, CountStart, CoordinatorInv, CoordinatorTypeOK
<1>11. \/ Started = visit
       \/ Started.id = nextVisit /\ Started.commands = [i \in Ids |-> Absent]
            /\ visit.id # nextVisit
  BY DEF Started, Cleared, CoordinatorInv, CoordinatorTypeOK
<1>12. Started.decided[rid] = Absent
  BY QueuedUndecided DEF Reserve
<1>13. visit'.decided[rid] # Absent
         /\ \A r \in Residents : Started.decided[r] # Absent => visit'.decided[r] # Absent
  BY <1>1, <1>5, AbsentAssumption DEF Visit, Rulings
<1> HIDE DEF record
<1> QED
  BY <1>2, <1>5, <1>7, <1>8, <1>9, <1>10, <1>11, <1>12, <1>13
     DEF CoordinatorInv, CoordinatorTypeOK, record

\* A report changes the state of one open command and, if it says that the
\* command was rejected, gives back the floor this command held.
LEMMA ReportPreserves ==
  ASSUME NEW id \in Ids, NEW state \in CommandStates,
         CoordinatorInv, OnTransportState(id, state)
  PROVE  /\ CoordinatorInv'
         /\ visit'.id = visit.id /\ nextVisit' = nextVisit
         /\ visit'.decided = visit.decided
         /\ \A i \in Ids : i # id => visit'.commands[i] = visit.commands[i]
         /\ visit'.commands[id] # Absent <=> visit.commands[id] # Absent
         /\ visit.commands[id] # Absent =>
              visit'.commands[id].floor = visit.commands[id].floor
         /\ visit'.commands[id] # visit.commands[id] =>
              visit'.commands[id].state = state
<1>0. visit \in Visit /\ ShapeOf(visit) /\ ReservedIn(visit)
  BY DEF CoordinatorInv, CoordinatorTypeOK
<1>1. CASE ~Open(id)
  <2>1. visit' = visit /\ nextVisit' = nextVisit
    BY <1>1 DEF OnTransportState
  <2> QED
    BY <2>1 DEF CoordinatorInv, CoordinatorTypeOK, ShapeOf, ReservedIn
<1>2. CASE Open(id)
  <2> DEFINE old == visit.commands[id]
             new == [old EXCEPT !.state = state]
             kept == [f \in Floors |->
                        IF state = "rejected" /\ f = old.floor /\ visit.floorReq[f] = id
                        THEN Absent ELSE visit.floorReq[f]]
  <2>1. old \in Entry /\ old.state # "rejected"
    BY <1>0, <1>2 DEF Open, Visit, TerminalStates
  <2>2. new \in Entry /\ new.floor = old.floor /\ new.state = state
    BY <2>1 DEF Entry
  <2>3. visit' = [visit EXCEPT !.commands[id] = new, !.floorReq = kept]
    BY <1>2 DEF OnTransportState
  <2>4. kept \in [Floors -> Ids \cup {Absent}]
    BY <1>0 DEF Visit
  <2>5. /\ visit' \in Visit
        /\ visit'.id = visit.id /\ visit'.seq = visit.seq
        /\ visit'.decided = visit.decided /\ visit'.floorReq = kept
        /\ visit'.commands = [visit.commands EXCEPT ![id] = new]
    <3> HIDE DEF new, kept
    <3> QED
      BY <1>0, <2>2, <2>3, <2>4 DEF Visit
  <2>6. /\ visit'.commands[id] = new /\ new # Absent /\ old # Absent
        /\ \A i \in Ids : i # id => visit'.commands[i] = visit.commands[i]
    <3> HIDE DEF new, kept
    <3> QED
      BY <1>0, <2>1, <2>2, <2>5, AbsentAssumption DEF Visit
  <2>7. ShapeOf(visit')
    BY <1>0, <2>5, <2>6 DEF ShapeOf
  <2>8. ReservedIn(visit')
    <3> SUFFICES ASSUME NEW i \in Ids, visit'.commands[i] # Absent
                 PROVE  visit'.commands[i].state # "rejected"
                          <=> kept[visit'.commands[i].floor] = i
      BY <2>5 DEF ReservedIn
    <3>1. CASE i = id
      <4>1. visit.floorReq[old.floor] = id
        BY <1>0, <2>1, <2>6 DEF ReservedIn
      <4>2. old.floor \in Floors
        BY <2>1 DEF Entry
      <4>3. kept[old.floor] = IF state = "rejected" THEN Absent ELSE id
        BY <4>1, <4>2
      <4> HIDE DEF new, kept, old
      <4> QED
        BY <3>1, <4>3, <2>2, <2>6, AbsentAssumption
    <3>2. CASE i # id
      <4>1. visit'.commands[i] = visit.commands[i] /\ visit.commands[i] \in Entry
        BY <3>2, <2>6, <1>0 DEF Visit
      <4>2. visit.commands[i].floor \in Floors
        BY <4>1 DEF Entry
      <4>3. kept[visit.commands[i].floor] = i <=> visit.floorReq[visit.commands[i].floor] = i
        BY <3>2, <4>2, AbsentAssumption
      <4> HIDE DEF kept
      <4> QED
        BY <4>1, <4>3, <1>0 DEF ReservedIn
    <3> QED
      BY <3>1, <3>2
  <2>9. nextVisit' = nextVisit
    BY DEF OnTransportState
  <2> HIDE DEF new, kept, old
  <2> QED
    BY <2>2, <2>5, <2>6, <2>7, <2>8, <2>9 DEF CoordinatorInv, CoordinatorTypeOK, old
<1> QED
  BY <1>1, <1>2

-----------------------------------------------------------------------------
(***************************************************************************)
(* The transport.  The central fact is that a command in flight is the     *)
(* head of the queue: it holds because only the worker takes commands out, *)
(* never while one is in flight except to drop that one, and because the   *)
(* copy it writes is still the head then.                                  *)
(***************************************************************************)

\* Where the commands the worker holds are in the queue.
HeadInv ==
  /\ inFlight # None =>
       /\ wpc \in {"recv", "send", "check", "poll", "lost"}
       /\ queue # <<>> /\ Head(queue).id = inFlight.id
  /\ picked # None => wpc = "write" /\ queue # <<>> /\ Head(queue) = picked

\* Every command in the transport was accepted.
KnownInv ==
  /\ \A i \in 1 .. Len(queue) : queue[i].id \in Range(accepted)
  /\ \A i \in 1 .. Len(reports) : reports[i].id \in Range(accepted)

TransportInv == TransportTypeOK /\ HeadInv /\ KnownInv

-----------------------------------------------------------------------------
(* Sequences.                                                               *)

LEMMA TupleInSeq ==
  ASSUME NEW S, NEW n \in Nat, NEW f \in [1 .. n -> S]
  PROVE  f \in Seq(S) /\ Len(f) = n
OBVIOUS

LEMMA OneInSeq ==
  ASSUME NEW S, NEW x \in S
  PROVE  /\ <<x>> \in Seq(S) /\ Len(<<x>>) = 1
         /\ \A i \in 1 .. Len(<<x>>) : <<x>>[i] = x
OBVIOUS

\* Dropping the first k elements.
LEMMA SuffixOfSeq ==
  ASSUME NEW S, NEW s \in Seq(S), NEW k \in 0 .. Len(s)
  PROVE  /\ SubSeq(s, k + 1, Len(s)) \in Seq(S)
         /\ Len(SubSeq(s, k + 1, Len(s))) = Len(s) - k
         /\ \A i \in 1 .. (Len(s) - k) : SubSeq(s, k + 1, Len(s))[i] = s[i + k]
<1>1. Len(s) \in Nat /\ \A i \in k + 1 .. Len(s) : s[i] \in S
  BY LenProperties, ElementOfSeq
<1>2. /\ SubSeq(s, k + 1, Len(s)) \in Seq(S)
      /\ Len(SubSeq(s, k + 1, Len(s)))
           = IF k + 1 <= Len(s) THEN Len(s) - (k + 1) + 1 ELSE 0
      /\ \A i \in 1 .. Len(s) - (k + 1) + 1 :
           SubSeq(s, k + 1, Len(s))[i] = s[k + 1 + i - 1]
  BY <1>1, SubSeqProperties
<1> QED
  BY <1>1, <1>2

\* The head of a sequence is its first element.
LEMMA HeadIsFirst ==
  ASSUME NEW S, NEW s \in Seq(S), s # <<>>
  PROVE  /\ Head(s) = s[1] /\ Head(s) \in S /\ 1 \in 1 .. Len(s)
         /\ Tail(s) \in Seq(S) /\ Len(Tail(s)) = Len(s) - 1 /\ Len(s) \in Nat \ {0}
         /\ \A i \in 1 .. Len(Tail(s)) : Tail(s)[i] = s[i + 1]
BY HeadTailProperties, EmptySeq

LEMMA AppendedSeq ==
  ASSUME NEW S, NEW s \in Seq(S), NEW x \in S
  PROVE  /\ Append(s, x) \in Seq(S) /\ Len(Append(s, x)) = Len(s) + 1
         /\ Append(s, x) # <<>>
         /\ \A i \in 1 .. Len(s) : Append(s, x)[i] = s[i]
         /\ Append(s, x)[Len(s) + 1] = x
         /\ s # <<>> => Head(Append(s, x)) = Head(s)
         /\ Range(Append(s, x)) = Range(s) \cup {x}
<1>1. Append(s, x) \in Seq(S) /\ Len(Append(s, x)) = Len(s) + 1
        /\ (\A i \in 1 .. Len(s) : Append(s, x)[i] = s[i])
        /\ Append(s, x)[Len(s) + 1] = x /\ Append(s, x) # <<>>
  BY AppendProperties
<1>2. s # <<>> => Head(Append(s, x)) = Head(s)
  BY <1>1, HeadIsFirst
<1>3. DOMAIN s = 1 .. Len(s) /\ DOMAIN Append(s, x) = 1 .. (Len(s) + 1) /\ Len(s) \in Nat
  BY <1>1, LenProperties
<1>4. Range(Append(s, x)) = Range(s) \cup {x}
  BY <1>1, <1>3 DEF Range
<1> QED
  BY <1>1, <1>2, <1>4

-----------------------------------------------------------------------------
(* The caller.                                                              *)

LEMMA TransportInitInv == TransportInit => TransportInv
<1> SUFFICES ASSUME TransportInit PROVE TransportInv
  OBVIOUS
<1>1. /\ queue \in Seq(Queued) /\ rx \in Seq(Message) /\ inbox \in Seq(Message)
      /\ wire \in Seq(Packet) /\ reports \in Seq(Report)
      /\ accepted \in Seq(Request) /\ written \in Seq(Request)
      /\ Len(queue) = 0 /\ Len(reports) = 0
  BY EmptySeq DEF TransportInit
<1>2. 0 \in 0 .. MaxClock /\ 0 \in 0 .. MaxDrops /\ 0 \in 0 .. (AckIds - 1)
  BY TransportAssumption
<1>3. fate \in [Request -> Fates \cup {None}]
  BY DEF TransportInit
<1>4. TransportTypeOK
  BY <1>1, <1>2, <1>3 DEF TransportInit, TransportTypeOK, Positions
<1>5. HeadInv /\ KnownInv
  BY <1>1 DEF TransportInit, HeadInv, KnownInv
<1> QED
  BY <1>4, <1>5 DEF TransportInv

LEMMA EnqueuePreserves ==
  ASSUME NEW id \in Request, TransportInv, Enqueue(id)
  PROVE  TransportInv' /\ Range(accepted') = Range(accepted) \cup {id}
<1> DEFINE entry == [id |-> id, at |-> clock]
<1>1. entry \in Queued /\ queue \in Seq(Queued) /\ accepted \in Seq(Request)
  BY DEF TransportInv, TransportTypeOK, Queued
<1>2. queue' = Append(queue, entry) /\ accepted' = Append(accepted, id)
  BY DEF Enqueue
<1>3. /\ queue' \in Seq(Queued) /\ Len(queue') = Len(queue) + 1 /\ queue' # <<>>
      /\ \A i \in 1 .. Len(queue) : queue'[i] = queue[i]
      /\ queue'[Len(queue) + 1].id = id
      /\ queue # <<>> => Head(queue') = Head(queue)
  <2> HIDE DEF entry
  <2>1. entry.id = id
    BY DEF entry
  <2> QED
    BY <1>1, <1>2, <2>1, AppendedSeq
<1>4. accepted' \in Seq(Request) /\ Range(accepted') = Range(accepted) \cup {id}
  BY <1>1, <1>2, AppendedSeq
<1>5. TransportTypeOK'
  BY <1>3, <1>4 DEF Enqueue, TransportInv, TransportTypeOK, workerVars, networkVars
<1>6. HeadInv'
  BY <1>3 DEF Enqueue, TransportInv, HeadInv, workerVars
<1>7. KnownInv'
  <2>1. Len(queue) \in Nat
    BY <1>1, LenProperties
  <2> QED
    BY <1>3, <1>4, <2>1 DEF Enqueue, TransportInv, KnownInv, workerVars
<1> QED
  BY <1>4, <1>5, <1>6, <1>7 DEF TransportInv

LEMMA ClosePreserves ==
  ASSUME TransportInv, Close
  PROVE  TransportInv'
BY DEF Close, TransportInv, TransportTypeOK, HeadInv, KnownInv, workerVars, networkVars

-----------------------------------------------------------------------------
(* The worker.                                                              *)

\* The steps that leave queue, inFlight, picked and reports alone.
LEMMA QuietPreserves ==
  ASSUME TransportInv,
         Connect \/ Exit \/ LeaveLoop \/ RecvNothing \/ RecvClose \/ RecvOpen
           \/ RecvNamespace \/ RecvStaleAck \/ ReadClock \/ WriteNothing
           \/ PollRead \/ PollFails \/ Disconnect
  PROVE  TransportInv'
<1> USE DEF TransportInv
<1>0. /\ rx \in Seq(Message) /\ inbox \in Seq(Message) /\ wire \in Seq(Packet)
      /\ rx # <<>> => Tail(rx) \in Seq(Message)
      /\ rx \o inbox \in Seq(Message)
      /\ <<>> \in Seq(Message) /\ <<>> \in Seq(Packet)
      /\ <<[kind |-> "open"]>> \in Seq(Message)
      /\ Append(wire, [kind |-> "connect"]) \in Seq(Packet)
  <2>1. rx \in Seq(Message) /\ inbox \in Seq(Message) /\ wire \in Seq(Packet)
    BY DEF TransportTypeOK
  <2>2. [kind |-> "open"] \in Message /\ [kind |-> "connect"] \in Packet
    BY DEF Message, Packet
  <2> QED
    BY <2>1, <2>2, HeadIsFirst, ConcatProperties, EmptySeq, OneInSeq, AppendedSeq
<1>1. CASE Connect
  BY <1>0, <1>1 DEF Connect, At, TransportTypeOK, HeadInv, KnownInv, Positions
<1>2. CASE Exit
  BY <1>2 DEF Exit, At, TransportTypeOK, HeadInv, KnownInv, Positions, networkVars
<1>3. CASE LeaveLoop
  BY <1>3 DEF LeaveLoop, At, TransportTypeOK, HeadInv, KnownInv, Positions, networkVars
<1>4. CASE RecvNothing
  BY <1>4 DEF RecvNothing, At, TransportTypeOK, HeadInv, KnownInv, Positions, networkVars
<1>5. CASE RecvClose
  <2>1. drops' \in 0 .. MaxDrops
    BY <1>5, TransportAssumption DEF RecvClose, TransportTypeOK
  <2> QED
    BY <1>5, <2>1 DEF RecvClose, At, TransportTypeOK, HeadInv, KnownInv, Positions
<1>6. CASE RecvOpen
  BY <1>0, <1>6 DEF RecvOpen, At, TransportTypeOK, HeadInv, KnownInv, Positions
<1>7. CASE RecvNamespace
  BY <1>0, <1>7 DEF RecvNamespace, At, TransportTypeOK, HeadInv, KnownInv, Positions, networkVars
<1>8. CASE RecvStaleAck
  BY <1>0, <1>8 DEF RecvStaleAck, At, TransportTypeOK, HeadInv, KnownInv, Positions, networkVars
<1>9. CASE ReadClock
  BY <1>9 DEF ReadClock, At, TransportTypeOK, HeadInv, KnownInv, Positions, networkVars
<1>10. CASE WriteNothing
  BY <1>10, TransportAssumption
     DEF WriteNothing, At, TransportTypeOK, HeadInv, KnownInv, Positions, networkVars
<1>11. CASE PollRead
  BY <1>0, <1>11 DEF PollRead, At, TransportTypeOK, HeadInv, KnownInv, Positions
<1>12. CASE PollFails
  BY <1>0, <1>12 DEF PollFails, At, TransportTypeOK, HeadInv, KnownInv, Positions
<1>13. CASE Disconnect
  BY <1>0, <1>13 DEF Disconnect, At, TransportTypeOK, HeadInv, KnownInv, Positions
<1> QED
  BY <1>1, <1>2, <1>3, <1>4, <1>5, <1>6, <1>7, <1>8, <1>9, <1>10, <1>11, <1>12, <1>13

\* The end of the command in flight: the head of the queue, and only it,
\* leaves; what is reported is known.
LEMMA SettlePreserves ==
  ASSUME TransportTypeOK, HeadInv, KnownInv, inFlight # None,
         NEW result \in Fates, Settle(result)
  PROVE  /\ queue' \in Seq(Queued) /\ inFlight' = None
         /\ fate' \in [Request -> Fates \cup {None}]
         /\ reports' \in Seq(Report)
         /\ picked = None
         /\ \A i \in 1 .. Len(queue') : queue'[i].id \in Range(accepted)
         /\ \A i \in 1 .. Len(reports') : reports'[i].id \in Range(accepted)
<1>1. inFlight \in InFlight /\ inFlight.id \in Request /\ queue \in Seq(Queued)
  BY DEF TransportTypeOK, InFlight
<1>2. queue # <<>> /\ Head(queue).id = inFlight.id
  BY DEF HeadInv
<1>3. /\ queue' = Tail(queue) /\ queue' \in Seq(Queued)
      /\ Len(queue') = Len(queue) - 1 /\ Len(queue) \in Nat \ {0}
      /\ \A i \in 1 .. Len(queue') : queue'[i] = queue[i + 1]
      /\ Head(queue) = queue[1]
  BY <1>1, <1>2, HeadIsFirst DEF Settle
<1>4. inFlight.id \in Range(accepted)
  BY <1>2, <1>3 DEF KnownInv
<1>5. [id |-> inFlight.id, state |-> result] \in Report
  BY <1>1 DEF Report
<1>6. reports' \in Seq(Report)
        /\ \A i \in 1 .. Len(reports') : reports'[i].id = inFlight.id
  BY <1>5, OneInSeq DEF Settle
<1>7. \A i \in 1 .. Len(queue') : queue'[i].id \in Range(accepted)
  BY <1>3 DEF KnownInv
<1>8. picked = None
  BY DEF HeadInv
<1> QED
  BY <1>1, <1>3, <1>4, <1>6, <1>7, <1>8 DEF Settle, TransportTypeOK

LEMMA RecvAckPreserves ==
  ASSUME TransportInv, RecvAck
  PROVE  TransportInv'
<1>1. inFlight # None /\ Head(rx).kind \in Replies
  BY DEF RecvAck, Answers
<1>2. Verdict(Head(rx)) \in Fates
  BY <1>1, TransportAssumption DEF Verdict, Fates
<1>3. Tail(rx) \in Seq(Message)
  BY HeadIsFirst DEF RecvAck, TransportInv, TransportTypeOK
<1>4. Settle(Verdict(Head(rx)))
  BY DEF RecvAck
<1> QED
  BY <1>1, <1>2, <1>3, <1>4, SettlePreserves
     DEF RecvAck, TransportInv, TransportTypeOK, HeadInv, KnownInv, Positions, networkVars

LEMMA CheckTimeoutPreserves ==
  ASSUME TransportInv, CheckTimeout
  PROVE  TransportInv'
<1>1. CASE TimedOut
  <2>1. inFlight # None /\ Settle("ambiguous") /\ "ambiguous" \in Fates
    BY <1>1 DEF TimedOut, CheckTimeout, Fates
  <2> QED
    BY <2>1, SettlePreserves
       DEF CheckTimeout, TransportInv, TransportTypeOK, HeadInv, KnownInv, Positions, networkVars
<1>2. CASE ~TimedOut
  BY <1>2 DEF CheckTimeout, At, TransportInv, TransportTypeOK, HeadInv, KnownInv, Positions, networkVars
<1> QED
  BY <1>1, <1>2

LEMMA AbandonPreserves ==
  ASSUME TransportInv, AbandonInFlight
  PROVE  TransportInv'
<1>1. inFlight # None /\ Settle("ambiguous") /\ "ambiguous" \in Fates
  BY DEF AbandonInFlight, Fates
<1> QED
  BY <1>1, SettlePreserves
     DEF AbandonInFlight, TransportInv, TransportTypeOK, HeadInv, KnownInv, Positions, networkVars

\* The expired commands are a prefix of the queue; the copy that will be
\* written is the head of what is left.
LEMMA PickPreserves ==
  ASSUME TransportInv, Pick
  PROVE  TransportInv'
<1>1. PICK k \in 0 .. Len(queue) :
        /\ queue' = SubSeq(queue, k + 1, Len(queue))
        /\ picked' = IF k < Len(queue) THEN queue[k + 1] ELSE None
        /\ reports' = [i \in 1 .. k |-> [id |-> queue[i].id, state |-> "expired"]]
        /\ fate' = [r \in Request |->
                      IF \E i \in 1 .. k : queue[i].id = r THEN "expired" ELSE fate[r]]
  BY DEF Pick
<1>2. queue \in Seq(Queued) /\ Len(queue) \in Nat
        /\ \A i \in 1 .. Len(queue) : queue[i] \in Queued /\ queue[i].id \in Request
  <2>1. queue \in Seq(Queued)
    BY DEF TransportInv, TransportTypeOK
  <2>2. Len(queue) \in Nat /\ \A i \in 1 .. Len(queue) : queue[i] \in Queued
    BY <2>1, LenProperties, ElementOfSeq
  <2>3. \A e \in Queued : e.id \in Request
    BY DEF Queued
  <2> QED
    BY <2>1, <2>2, <2>3
<1>3. /\ queue' \in Seq(Queued) /\ Len(queue') = Len(queue) - k
      /\ \A i \in 1 .. Len(queue') : queue'[i] = queue[i + k]
  BY <1>1, <1>2, SuffixOfSeq
<1>4. reports' \in Seq(Report) /\ Len(reports') = k
  <2>1. reports' \in [1 .. k -> Report]
    BY <1>1, <1>2 DEF Report, Fates
  <2> QED
    BY <2>1, <1>2, TupleInSeq
<1>5. \A i \in 1 .. Len(reports') : reports'[i].id = queue[i].id
  BY <1>1, <1>4
<1>6. fate' \in [Request -> Fates \cup {None}]
  BY <1>1 DEF TransportInv, TransportTypeOK, Fates
<1>7. picked' \in Queued \cup {None}
  BY <1>1, <1>2
<1>8. picked' # None => queue' # <<>> /\ Head(queue') = picked'
  <2> SUFFICES ASSUME picked' # None PROVE queue' # <<>> /\ Head(queue') = picked'
    OBVIOUS
  <2>1. k < Len(queue) /\ picked' = queue[k + 1]
    BY <1>1
  <2>2. Len(queue') >= 1 /\ queue'[1] = queue[1 + k] /\ queue' # <<>>
    BY <2>1, <1>2, <1>3, EmptySeq
  <2> QED
    BY <2>1, <2>2, <1>2, <1>3, HeadIsFirst
<1>9. TransportTypeOK'
  BY <1>3, <1>4, <1>6, <1>7 DEF Pick, TransportInv, TransportTypeOK, Positions, networkVars
<1>10. HeadInv'
  BY <1>8 DEF Pick, At, TransportInv, HeadInv
<1>11. KnownInv'
  <2>1. \A i \in 1 .. Len(queue') : i + k \in 1 .. Len(queue)
    BY <1>2, <1>3
  <2>2. \A i \in 1 .. Len(reports') : i \in 1 .. Len(queue)
    BY <1>2, <1>4
  <2>3. accepted' = accepted
    BY DEF Pick
  <2> QED
    BY <1>3, <1>5, <2>1, <2>2, <2>3 DEF TransportInv, KnownInv
<1> QED
  BY <1>9, <1>10, <1>11 DEF TransportInv

\* The command that goes out is the head, and stays there.
LEMMA WriteCommandPreserves ==
  ASSUME TransportInv, WriteCommand
  PROVE  TransportInv'
<1>1. /\ picked # None /\ picked \in Queued /\ picked.id \in Request
      /\ queue \in Seq(Queued) /\ queue # <<>> /\ Head(queue) = picked
      /\ nextAck \in 0 .. (AckIds - 1) /\ readNow \in 0 .. MaxClock
  BY DEF WriteCommand, TransportInv, TransportTypeOK, HeadInv, Queued
<1>2. inFlight' \in InFlight /\ inFlight'.id = picked.id
  BY <1>1 DEF WriteCommand, InFlight
<1>3. AckAfter(nextAck) \in 0 .. (AckIds - 1)
  BY <1>1, TransportAssumption DEF AckAfter
<1>4. reports' \in Seq(Report) /\ \A i \in 1 .. Len(reports') : reports'[i].id = picked.id
  <2>1. [id |-> picked.id, state |-> "sent"] \in Report
    BY <1>1 DEF Report
  <2> QED
    BY <2>1, OneInSeq DEF WriteCommand
<1>5. wire' \in Seq(Packet)
  <2>1. [kind |-> "write", id |-> picked.id, ack |-> nextAck] \in Packet
    BY <1>1 DEF Packet
  <2> QED
    BY <2>1, AppendedSeq DEF WriteCommand, TransportInv, TransportTypeOK
<1>6. written' \in Seq(Request)
  BY <1>1, AppendedSeq DEF WriteCommand, TransportInv, TransportTypeOK
<1>7. TransportTypeOK'
  BY <1>2, <1>3, <1>4, <1>5, <1>6, TransportAssumption
     DEF WriteCommand, TransportInv, TransportTypeOK, Positions
<1>8. HeadInv'
  BY <1>1, <1>2 DEF WriteCommand, HeadInv
<1>9. KnownInv'
  <2>1. picked.id \in Range(accepted)
    BY <1>1, HeadIsFirst DEF TransportInv, KnownInv
  <2>2. queue' = queue /\ accepted' = accepted
    BY DEF WriteCommand
  <2> QED
    BY <1>4, <2>1, <2>2 DEF TransportInv, KnownInv
<1> QED
  BY <1>7, <1>8, <1>9 DEF TransportInv

LEMMA WriteFailsPreserves ==
  ASSUME TransportInv, WriteFails
  PROVE  TransportInv'
<1>1. AckAfter(nextAck) \in 0 .. (AckIds - 1) /\ 0 \in 0 .. MaxClock
  BY TransportAssumption DEF AckAfter, TransportInv, TransportTypeOK
<1> QED
  BY <1>1 DEF WriteFails, At, TransportInv, TransportTypeOK, HeadInv, KnownInv, Positions,
              networkVars

LEMMA WorkerPreserves ==
  ASSUME TransportInv, WorkerStep
  PROVE  TransportInv' /\ accepted' = accepted
<1>1. TransportInv'
  BY QuietPreserves, RecvAckPreserves, CheckTimeoutPreserves, AbandonPreserves,
     PickPreserves, WriteCommandPreserves, WriteFailsPreserves DEF WorkerStep
<1>2. accepted' = accepted
  BY DEF WorkerStep, Connect, Exit, LeaveLoop, RecvNothing, RecvClose, RecvOpen,
         RecvNamespace, RecvAck, RecvStaleAck, ReadClock, Pick, WriteNothing,
         WriteCommand, WriteFails, CheckTimeout, PollRead, PollFails,
         AbandonInFlight, Disconnect
<1> QED
  BY <1>1, <1>2

LEMMA TakeReportPreserves ==
  ASSUME TransportInv, TakeReport
  PROVE  /\ TransportInv' /\ accepted' = accepted
         /\ Head(reports).id \in Request \cap Range(accepted)
         /\ Head(reports).state \in Fates \cup {"sent"}
<1>1. /\ Head(reports) = reports[1] /\ Head(reports) \in Report /\ 1 \in 1 .. Len(reports)
      /\ reports' \in Seq(Report) /\ Len(reports') = Len(reports) - 1
      /\ Len(reports) \in Nat \ {0}
      /\ \A i \in 1 .. Len(reports') : reports'[i] = reports[i + 1]
  BY HeadIsFirst DEF TakeReport, TransportInv, TransportTypeOK
<1>2. \A i \in 1 .. Len(reports') : i + 1 \in 1 .. Len(reports)
  BY <1>1
<1> QED
  BY <1>1, <1>2 DEF TakeReport, TransportInv, TransportTypeOK, HeadInv, KnownInv, Report,
                    networkVars

-----------------------------------------------------------------------------
(* The environment.                                                         *)

LEMMA EnvironmentPreserves ==
  ASSUME TransportInv, Environment
  PROVE  TransportInv' /\ accepted' = accepted
<1>0. /\ Tick => clock' \in 0 .. MaxClock
      /\ LinkBreaks => drops' \in 0 .. MaxDrops
  BY TransportAssumption DEF Tick, LinkBreaks, TransportInv, TransportTypeOK
<1> USE DEF TransportInv, TransportTypeOK, HeadInv, KnownInv
<1>1. CASE Tick
  <2>1. clock' \in 0 .. MaxClock
    BY <1>0, <1>1
  <2>2. UNCHANGED <<queue, stop, workerVars, networkVars, accepted, written, fate>>
    BY <1>1 DEF Tick
  <2> QED
    BY <2>1, <2>2 DEF workerVars, networkVars
<1>2. CASE LinkBreaks
  <2>1. drops' \in 0 .. MaxDrops /\ linkUp' \in BOOLEAN
    BY <1>0, <1>2 DEF LinkBreaks
  <2>2. UNCHANGED <<clock, queue, stop, workerVars, inbox, wire, applied, accepted,
                    written, fate>>
    BY <1>2 DEF LinkBreaks
  <2> QED
    BY <2>1, <2>2 DEF workerVars
<1>3. CASE ServiceOpensNamespace
  <2>1. wire' \in Seq(Packet)
    BY <1>3, HeadIsFirst DEF ServiceOpensNamespace
  <2>2. [kind |-> "namespace"] \in Message
    BY DEF Message
  <2>3. inbox' \in Seq(Message)
    BY <1>3, <2>2, AppendedSeq DEF ServiceOpensNamespace
  <2> QED
    BY <1>3, <2>1, <2>3 DEF ServiceOpensNamespace, workerVars
<1>4. CASE ServiceApplies
  <2>1. /\ wire' \in Seq(Packet) /\ Head(wire) \in Packet /\ Head(wire).kind = "write"
    BY <1>4, HeadIsFirst DEF ServiceApplies
  <2>2. Head(wire).id \in Request /\ Head(wire).ack \in 0 .. (AckIds - 1)
    BY <2>1 DEF Packet
  <2>3. PICK done \in BOOLEAN, answer \in SUBSET Replies :
          /\ \A kind \in answer : answer = {kind}
          /\ applied' = IF done THEN applied \cup {Head(wire).id} ELSE applied
          /\ inbox' = IF ~linkUp \/ answer = {} THEN inbox
                      ELSE Append(inbox, [id |-> Head(wire).id,
                                          ack |-> Head(wire).ack,
                                          kind |-> CHOOSE kind \in answer : TRUE])
    BY <1>4 DEF ServiceApplies
  <2>4. applied' \subseteq Request
    BY <2>2, <2>3
  <2>5. inbox' \in Seq(Message)
    <3>1. CASE ~linkUp \/ answer = {}
      BY <2>3, <3>1
    <3>2. CASE linkUp /\ answer # {}
      <4> DEFINE kind == CHOOSE x \in answer : TRUE
                 m == [id |-> Head(wire).id, ack |-> Head(wire).ack, kind |-> kind]
      <4>1. kind \in Replies
        BY <3>2
      <4>2. m \in Ack
        <5> HIDE DEF kind
        <5> QED
          BY <4>1, <2>2 DEF Ack
      <4>3. m \in Message
        BY <4>2 DEF Message
      <4>4. inbox' = Append(inbox, m)
        BY <2>3, <3>2
      <4> HIDE DEF m
      <4> QED
        BY <4>3, <4>4, AppendedSeq
    <3> QED
      BY <3>1, <3>2
  <2>6. UNCHANGED <<clock, queue, stop, workerVars, linkUp, drops, accepted, written, fate>>
    BY <1>4 DEF ServiceApplies
  <2> QED
    BY <2>1, <2>4, <2>5, <2>6 DEF workerVars
<1> QED
  BY <1>1, <1>2, <1>3, <1>4 DEF Environment

-----------------------------------------------------------------------------
(***************************************************************************)
(* The system.                                                             *)
(***************************************************************************)

\* The request between ConfirmQueued and the answer of enqueue_floor.
HandOverInv ==
  frame # "idle" =>
    /\ pending \in Ids /\ pending[1] = visit.id
    /\ pending \notin Range(accepted)
    /\ visit.commands[pending] # Absent
    /\ visit.commands[pending].state = "queued"

\* Every accepted request was issued and, in its visit, holds a record.
AcceptedInv ==
  \A a \in Range(accepted) :
    /\ issued[a] # Absent
    /\ a[1] = visit.id => /\ visit.commands[a] # Absent
                          /\ visit.commands[a].state # "rejected"

\* What was issued: in which visit, to whom, for which floor.
IssuedInv ==
  \A a \in Ids :
    /\ issued[a] # Absent =>
         /\ a[1] < nextVisit
         /\ issued[a].floor \in FloorsMin .. FloorsMax
         /\ a[1] = visit.id => visit.decided[issued[a].rid] # Absent
    /\ visit.commands[a] # Absent =>
         /\ issued[a] # Absent
         /\ visit.commands[a].floor = issued[a].floor

HistoryTypeOK ==
  /\ frame \in {"idle", "enqueue", "refused"}
  /\ pending \in Ids \cup {None}
  /\ rejected \subseteq Ids
  /\ issued \in [Ids -> [rid : Residents, floor : Floors] \cup {Absent}]

SystemInv ==
  /\ CoordinatorInv /\ TransportInv /\ HistoryTypeOK
  /\ HandOverInv /\ AcceptedInv /\ IssuedInv
  /\ OneCommandPerFloor /\ OneRequestPerResident

-----------------------------------------------------------------------------
\* Accepted requests are ids.
LEMMA AcceptedAreIds ==
  ASSUME TransportInv
  PROVE  Range(accepted) \subseteq Ids
<1>1. accepted \in Seq(Ids)
  BY SystemAssumption DEF TransportInv, TransportTypeOK
<1> QED
  BY <1>1, LenProperties DEF Range

LEMMA InitInv == SystemInit => SystemInv
<1> SUFFICES ASSUME SystemInit PROVE SystemInv
  OBVIOUS
<1>1. CoordinatorInv /\ TransportInv
  BY InitPreserves, TransportInitInv DEF SystemInit
<1>2. Range(accepted) = {}
  BY DEF SystemInit, TransportInit, Range
<1>3. issued = [i \in Ids |-> Absent] /\ frame = "idle" /\ pending = None /\ rejected = {}
  BY DEF SystemInit
<1>4. \A i \in Ids : visit.commands[i] = Absent
  BY DEF SystemInit, CoordinatorInit, Cleared
<1> QED
  BY <1>1, <1>2, <1>3, <1>4
     DEF SystemInv, HistoryTypeOK, HandOverInv, AcceptedInv, IssuedInv,
         OneCommandPerFloor, OneRequestPerResident

-----------------------------------------------------------------------------
(* The frame thread.                                                        *)

\* A step of the coordinator that makes no request, with the transport and
\* the histories as they were.
LEMMA QuietVisitPreserves ==
  ASSUME SystemInv, CoordinatorInv', QuietVisit, frame = "idle",
         UNCHANGED <<transportVars, frameVars>>
  PROVE  SystemInv'
<1>1. TransportInv'
  BY DEF SystemInv, TransportInv, TransportTypeOK, HeadInv, KnownInv,
         transportVars, workerVars, networkVars
<1>2. accepted' = accepted /\ issued' = issued /\ frame' = "idle"
        /\ pending' = pending /\ rejected' = rejected
  BY DEF transportVars, frameVars
<1>3. Range(accepted) \subseteq Ids
  BY AcceptedAreIds DEF SystemInv
<1>4. \A a \in Ids : a[1] \in Int /\ a[1] >= 1
  BY CoordinatorAssumption DEF Ids
<1>5. nextVisit \in Int /\ visit.id \in Int /\ nextVisit' \in Int /\ visit'.id \in Int
  BY CoordinatorAssumption DEF SystemInv, CoordinatorInv, CoordinatorTypeOK, Visit
<1>6. \A a \in Range(accepted) : a \in Ids /\ issued[a] # Absent /\ a[1] < nextVisit
  BY <1>3 DEF SystemInv, AcceptedInv, IssuedInv
<1>7. AcceptedInv'
  <2> SUFFICES ASSUME NEW a \in Range(accepted), a[1] = visit'.id
               PROVE  /\ visit'.commands[a] # Absent
                      /\ visit'.commands[a].state # "rejected"
    BY <1>2, <1>6 DEF AcceptedInv
  <2>1. visit'.id = visit.id /\ visit'.commands = visit.commands
    BY <1>4, <1>5, <1>6 DEF QuietVisit
  <2> QED
    BY <2>1 DEF SystemInv, AcceptedInv
<1>8. IssuedInv'
  <2> SUFFICES ASSUME NEW a \in Ids
               PROVE  /\ issued[a] # Absent =>
                           /\ a[1] < nextVisit'
                           /\ issued[a].floor \in FloorsMin .. FloorsMax
                           /\ a[1] = visit'.id => visit'.decided[issued[a].rid] # Absent
                      /\ visit'.commands[a] # Absent =>
                           /\ issued[a] # Absent
                           /\ visit'.commands[a].floor = issued[a].floor
    BY <1>2 DEF IssuedInv
  <2>1. ASSUME issued[a] # Absent
        PROVE  /\ a[1] < nextVisit'
               /\ issued[a].floor \in FloorsMin .. FloorsMax
               /\ a[1] = visit'.id => visit'.decided[issued[a].rid] # Absent
    <3>1. a[1] < nextVisit /\ issued[a].floor \in FloorsMin .. FloorsMax
      BY <2>1 DEF SystemInv, IssuedInv
    <3>2. ASSUME a[1] = visit'.id PROVE visit'.decided[issued[a].rid] # Absent
      <4>1. /\ visit'.id = visit.id
            /\ \A r \in Residents : visit.decided[r] # Absent => visit'.decided[r] # Absent
        BY <3>1, <3>2, <1>4, <1>5 DEF QuietVisit
      <4>2. issued[a].rid \in Residents
        BY <2>1 DEF SystemInv, HistoryTypeOK
      <4> QED
        BY <2>1, <3>2, <4>1, <4>2 DEF SystemInv, IssuedInv
    <3> QED
      BY <3>1, <3>2, <1>4, <1>5 DEF QuietVisit
  <2>2. ASSUME visit'.commands[a] # Absent
        PROVE  issued[a] # Absent /\ visit'.commands[a].floor = issued[a].floor
    \* A new or an ended visit has no record at all.
    <3>1. visit'.commands = visit.commands
      BY <2>2 DEF QuietVisit
    <3> QED
      BY <2>2, <3>1 DEF SystemInv, IssuedInv
  <2> QED
    BY <2>1, <2>2
<1>9. HistoryTypeOK' /\ HandOverInv'
  BY <1>2 DEF SystemInv, HistoryTypeOK, HandOverInv
<1>10. OneCommandPerFloor' /\ OneRequestPerResident'
  BY <1>2 DEF SystemInv, OneCommandPerFloor, OneRequestPerResident, VisitOf
<1> QED
  BY <1>1, <1>7, <1>8, <1>9, <1>10 DEF SystemInv

\* A request is made under an id that no request had: either its visit is
\* new, or the visit had no record under that id.
LEMMA ConfirmQueuedPreserves ==
  ASSUME SystemInv, NEW rid \in Residents, NEW floor \in Floors,
         ConfirmQueued(rid, floor)
  PROVE  SystemInv'
<1> DEFINE made == [rid |-> rid, floor |-> floor]
           record == [rid |-> rid, floor |-> floor, state |-> "queued"]
           new == NextId
<1>1. /\ CoordinatorInv'
      /\ new \in Ids /\ new[1] = visit'.id
      /\ Started.commands[new] = Absent
      /\ visit'.commands = [Started.commands EXCEPT ![new] = record]
      /\ floor \in FloorsMin .. FloorsMax
      /\ nextVisit' >= nextVisit
      /\ \/ visit'.id = visit.id /\ visit.commands = Started.commands
           /\ visit.decided[rid] = Absent
         \/ visit'.id = nextVisit /\ Started.commands = [i \in Ids |-> Absent]
      /\ visit'.decided[rid] # Absent
      /\ visit'.id = visit.id =>
           \A r \in Residents : visit.decided[r] # Absent => visit'.decided[r] # Absent
  BY ReservePreserves DEF ConfirmQueued, SystemInv
<1>2. TransportInv'
  BY DEF ConfirmQueued, SystemInv, TransportInv, TransportTypeOK, HeadInv, KnownInv,
         transportVars, workerVars, networkVars
<1>3. /\ accepted' = accepted /\ rejected' = rejected
      /\ frame' = "enqueue" /\ pending' = new
      /\ issued' = [issued EXCEPT ![new] = made]
  BY DEF ConfirmQueued, transportVars
<1>4. /\ made \in [rid : Residents, floor : Floors] /\ made # Absent
      /\ made.rid = rid /\ made.floor = floor
      /\ record \in Entry /\ record # Absent
      /\ record.state = "queued" /\ record.floor = floor
  BY SystemAssumption, AbsentAssumption DEF Entry, CommandStates
<1> HIDE DEF made, record, new
<1>5. Range(accepted) \subseteq Ids
  BY AcceptedAreIds DEF SystemInv
<1>6. /\ issued'[new] = made
      /\ \A a \in Ids : a # new => issued'[a] = issued[a]
  BY <1>1, <1>3 DEF SystemInv, HistoryTypeOK
<1>7. /\ visit'.commands[new] = record
      /\ \A a \in Ids : a # new => visit'.commands[a] = Started.commands[a]
  <2>1. DOMAIN Started.commands = Ids
    BY StartedShape DEF SystemInv, ConfirmQueued, Reserve, Visit
  <2> QED
    BY <1>1, <2>1
<1>8. /\ nextVisit \in Int /\ nextVisit' \in Int /\ visit.id \in Int /\ visit'.id \in Int
      /\ visit'.id < nextVisit'
      /\ \A a \in Ids : a[1] \in Int
  BY <1>1, CoordinatorAssumption
     DEF SystemInv, CoordinatorInv, CoordinatorTypeOK, Visit, Ids
\* The other requests of the visit belong to the visit as it was.
<1>9. \A a \in Ids : issued[a] # Absent /\ a[1] = visit'.id =>
        visit'.id = visit.id /\ visit.commands = Started.commands /\ visit.decided[rid] = Absent
  BY <1>1, <1>8 DEF SystemInv, IssuedInv
<1>10. new \notin Range(accepted)
  BY <1>1, <1>9 DEF SystemInv, AcceptedInv
<1>11. HistoryTypeOK' /\ HandOverInv'
  BY <1>1, <1>3, <1>4, <1>7, <1>10 DEF SystemInv, HistoryTypeOK, HandOverInv
<1>12. AcceptedInv'
  BY <1>3, <1>5, <1>6, <1>7, <1>9, <1>10 DEF SystemInv, AcceptedInv
<1>13. IssuedInv'
  <2> SUFFICES ASSUME NEW a \in Ids
               PROVE  /\ issued'[a] # Absent =>
                           /\ a[1] < nextVisit'
                           /\ issued'[a].floor \in FloorsMin .. FloorsMax
                           /\ a[1] = visit'.id => visit'.decided[issued'[a].rid] # Absent
                      /\ visit'.commands[a] # Absent =>
                           /\ issued'[a] # Absent
                           /\ visit'.commands[a].floor = issued'[a].floor
    BY DEF IssuedInv
  <2>1. CASE a = new
    BY <2>1, <1>1, <1>4, <1>6, <1>7, <1>8
  <2>2. CASE a # new
    <3>1. issued'[a] = issued[a] /\ visit'.commands[a] = Started.commands[a]
      BY <2>2, <1>6, <1>7
    <3>2. ASSUME issued[a] # Absent
          PROVE  /\ a[1] < nextVisit'
                 /\ issued[a].floor \in FloorsMin .. FloorsMax
                 /\ a[1] = visit'.id => visit'.decided[issued[a].rid] # Absent
      <4>1. issued[a].rid \in Residents
        BY <3>2 DEF SystemInv, HistoryTypeOK
      <4> QED
        BY <3>2, <4>1, <1>1, <1>8, <1>9 DEF SystemInv, IssuedInv
    <3>3. ASSUME Started.commands[a] # Absent
          PROVE  issued[a] # Absent /\ Started.commands[a].floor = issued[a].floor
      BY <3>3, <1>1 DEF SystemInv, IssuedInv
    <3> QED
      BY <3>1, <3>2, <3>3
  <2> QED
    BY <2>1, <2>2
<1>14. OneCommandPerFloor'
  BY <1>3, <1>5, <1>6, <1>10 DEF SystemInv, OneCommandPerFloor, VisitOf
<1>15. OneRequestPerResident'
  <2> SUFFICES ASSUME NEW a \in Ids, NEW b \in Ids, issued'[a] # Absent
               PROVE  /\ issued'[a].floor \in FloorsMin .. FloorsMax
                      /\ /\ issued'[b] # Absent /\ a[1] = b[1]
                         /\ issued'[a].rid = issued'[b].rid
                         => a = b
    BY DEF OneRequestPerResident, VisitOf
  <2>1. issued'[a].floor \in FloorsMin .. FloorsMax
    BY <1>13 DEF IssuedInv
  \* The resident of the new request had none in this visit.
  <2>2. \A c \in Ids : c # new /\ issued[c] # Absent /\ c[1] = new[1] => issued[c].rid # rid
    BY <1>1, <1>9 DEF SystemInv, IssuedInv
  <2>3. issued'[b] # Absent /\ a[1] = b[1] /\ issued'[a].rid = issued'[b].rid => a = b
    <3>1. CASE a # new /\ b # new
      BY <3>1, <1>6 DEF SystemInv, OneRequestPerResident, VisitOf
    <3>2. CASE a = new \/ b = new
      BY <3>2, <2>2, <1>4, <1>6
    <3> QED
      BY <3>1, <3>2
  <2> QED
    BY <2>1, <2>3
<1> QED
  BY <1>1, <1>2, <1>11, <1>12, <1>13, <1>14, <1>15 DEF SystemInv

\* The request handed over is the only accepted one of its visit for its
\* floor: both would hold the floor's reservation.
LEMMA HandOverPreserves ==
  ASSUME SystemInv, HandOver
  PROVE  SystemInv'
<1>1. /\ frame = "enqueue" /\ frame' = "idle" /\ pending' = None
      /\ visit' = visit /\ nextVisit' = nextVisit
      /\ issued' = issued /\ rejected' = rejected /\ Enqueue(pending)
  BY DEF HandOver, coordinatorVars
<1>2. /\ pending \in Ids /\ pending[1] = visit.id
      /\ visit.commands[pending] # Absent
      /\ visit.commands[pending].state = "queued"
  BY <1>1 DEF SystemInv, HandOverInv
<1>3. TransportInv' /\ Range(accepted') = Range(accepted) \cup {pending}
  BY <1>1, <1>2, EnqueuePreserves, SystemAssumption DEF SystemInv
<1>4. CoordinatorInv' /\ HistoryTypeOK' /\ HandOverInv' /\ OneRequestPerResident'
  BY <1>1 DEF SystemInv, CoordinatorInv, CoordinatorTypeOK, HistoryTypeOK, HandOverInv,
              OneRequestPerResident
<1>5. AcceptedInv' /\ IssuedInv'
  BY <1>1, <1>2, <1>3 DEF SystemInv, AcceptedInv, IssuedInv
<1>6. ASSUME NEW a \in Range(accepted), a[1] = visit.id,
             issued[a].floor = issued[pending].floor
      PROVE  a = pending
  <2>1. a \in Ids
    BY AcceptedAreIds DEF SystemInv
  <2>2. visit.commands[a] # Absent /\ visit.commands[a].state # "rejected"
    BY <1>6 DEF SystemInv, AcceptedInv
  <2>3. /\ visit.commands[a].floor = issued[a].floor
        /\ visit.commands[pending].floor = issued[pending].floor
    BY <1>2, <2>1, <2>2 DEF SystemInv, IssuedInv
  <2> QED
    BY <1>2, <1>6, <2>1, <2>2, <2>3 DEF SystemInv, CoordinatorInv, ReservedIn
<1>7. OneCommandPerFloor'
  BY <1>1, <1>2, <1>3, <1>6 DEF SystemInv, OneCommandPerFloor, VisitOf
<1> QED
  BY <1>3, <1>4, <1>5, <1>7 DEF SystemInv

LEMMA RefusedPreserves ==
  ASSUME SystemInv, HandOverRefused
  PROVE  SystemInv'
<1>1. /\ frame = "enqueue" /\ frame' = "refused" /\ pending' = pending
      /\ visit' = visit /\ nextVisit' = nextVisit
      /\ issued' = issued /\ rejected' = rejected
      /\ UNCHANGED transportVars
  BY DEF HandOverRefused, Refuse, coordinatorVars
<1>2. TransportInv' /\ accepted' = accepted
  BY <1>1 DEF SystemInv, TransportInv, TransportTypeOK, HeadInv, KnownInv,
              transportVars, workerVars, networkVars
<1> QED
  BY <1>1, <1>2
     DEF SystemInv, CoordinatorInv, CoordinatorTypeOK, HistoryTypeOK, HandOverInv,
         AcceptedInv, IssuedInv, OneCommandPerFloor, OneRequestPerResident

\* A report changes one record.  It may say "rejected" only of a request
\* that is not in the queue.
LEMMA ReportedInv ==
  ASSUME SystemInv, NEW id \in Ids, NEW state \in CommandStates,
         OnTransportState(id, state),
         state = "rejected" => id \notin Range(accepted),
         UNCHANGED <<accepted, issued>>
  PROVE  /\ CoordinatorInv' /\ AcceptedInv' /\ IssuedInv'
         /\ OneCommandPerFloor' /\ OneRequestPerResident'
<1>1. /\ CoordinatorInv'
      /\ visit'.id = visit.id /\ nextVisit' = nextVisit /\ visit'.decided = visit.decided
      /\ \A i \in Ids : i # id => visit'.commands[i] = visit.commands[i]
      /\ visit'.commands[id] # Absent <=> visit.commands[id] # Absent
      /\ visit.commands[id] # Absent =>
           visit'.commands[id].floor = visit.commands[id].floor
      /\ visit'.commands[id] # visit.commands[id] => visit'.commands[id].state = state
  BY ReportPreserves DEF SystemInv
<1>2. Range(accepted) \subseteq Ids
  BY AcceptedAreIds DEF SystemInv
<1>3. AcceptedInv'
  BY <1>1, <1>2 DEF SystemInv, AcceptedInv
<1>4. IssuedInv'
  BY <1>1 DEF SystemInv, IssuedInv
<1>5. OneCommandPerFloor' /\ OneRequestPerResident'
  BY DEF SystemInv, OneCommandPerFloor, OneRequestPerResident, VisitOf
<1> QED
  BY <1>1, <1>3, <1>4, <1>5

LEMMA GiveFloorBackPreserves ==
  ASSUME SystemInv, GiveFloorBack
  PROVE  SystemInv'
<1>1. /\ frame = "refused" /\ frame' = "idle" /\ pending' = None
      /\ OnTransportState(pending, "rejected")
      /\ rejected' = rejected \cup {pending} /\ issued' = issued
      /\ UNCHANGED transportVars
  BY DEF GiveFloorBack
<1>2. TransportInv' /\ accepted' = accepted
  BY <1>1 DEF SystemInv, TransportInv, TransportTypeOK, HeadInv, KnownInv,
              transportVars, workerVars, networkVars
<1>3. pending \in Ids /\ pending \notin Range(accepted)
  BY <1>1 DEF SystemInv, HandOverInv
<1>4. "rejected" \in CommandStates
  BY DEF CommandStates, TerminalStates
<1>5. HistoryTypeOK' /\ HandOverInv'
  BY <1>1, <1>3 DEF SystemInv, HistoryTypeOK, HandOverInv
<1> QED
  BY <1>1, <1>2, <1>3, <1>4, <1>5, ReportedInv DEF SystemInv

LEMMA ShutdownPreserves ==
  ASSUME SystemInv, Shutdown
  PROVE  SystemInv'
<1>1. TransportInv' /\ accepted' = accepted
  BY ClosePreserves DEF SystemInv, Shutdown, Close
<1> QED
  BY <1>1
     DEF Shutdown, coordinatorVars, frameVars, SystemInv, CoordinatorInv,
         CoordinatorTypeOK, HistoryTypeOK, HandOverInv, AcceptedInv, IssuedInv,
         OneCommandPerFloor, OneRequestPerResident

LEMMA FrameStepPreserves ==
  ASSUME SystemInv, FrameStep
  PROVE  SystemInv'
<1>0. CoordinatorInv /\ clock \in Nat
  BY TransportAssumption DEF SystemInv, TransportInv, TransportTypeOK
<1>1. CASE FramePresent
  BY <1>0, <1>1, PresentPreserves, QuietVisitPreserves DEF FramePresent
<1>2. CASE FrameEmpty
  BY <1>0, <1>2, EmptyPreserves, QuietVisitPreserves DEF FrameEmpty
<1>3. ASSUME NEW rid \in Residents, NEW floor \in HomeFloors[rid],
             ConfirmSuppressed(rid, floor) \/ ConfirmQueued(rid, floor)
      PROVE  SystemInv'
  <2>1. floor \in Floors
    BY SystemAssumption
  <2>2. CASE ConfirmSuppressed(rid, floor)
    BY <1>0, <2>1, <2>2, SuppressPreserves, QuietVisitPreserves DEF ConfirmSuppressed
  <2>3. CASE ConfirmQueued(rid, floor)
    BY <2>1, <2>3, ConfirmQueuedPreserves
  <2> QED
    BY <1>3, <2>2, <2>3
<1> QED
  BY <1>1, <1>2, <1>3, HandOverPreserves, RefusedPreserves, GiveFloorBackPreserves,
     ShutdownPreserves DEF FrameStep

-----------------------------------------------------------------------------
(* The worker thread and what is outside the program.                       *)

LEMMA DeliverPreserves ==
  ASSUME SystemInv, Deliver
  PROVE  SystemInv'
<1> DEFINE id == Head(reports).id
           state == Head(reports).state
<1>1. /\ TransportInv' /\ accepted' = accepted
      /\ id \in Ids /\ id \in Range(accepted)
      /\ state \in CommandStates /\ state # "rejected"
  BY TakeReportPreserves, SystemAssumption
     DEF SystemInv, Deliver, Fates, CommandStates, TerminalStates, Outcomes
<1>2. /\ OnTransportState(id, state)
      /\ frame' = frame /\ pending' = pending /\ rejected' = rejected /\ issued' = issued
  BY DEF Deliver, frameVars
<1> HIDE DEF id, state
<1>3. CoordinatorInv' /\ AcceptedInv' /\ IssuedInv' /\ OneCommandPerFloor'
        /\ OneRequestPerResident'
  BY <1>1, <1>2, ReportedInv
<1>4. visit'.id = visit.id /\ \A i \in Ids : i # id => visit'.commands[i] = visit.commands[i]
  BY <1>1, <1>2, ReportPreserves DEF SystemInv
<1>5. HistoryTypeOK' /\ HandOverInv'
  BY <1>1, <1>2, <1>4 DEF SystemInv, HistoryTypeOK, HandOverInv
<1> QED
  BY <1>1, <1>3, <1>5 DEF SystemInv

\* The other steps of the worker and the environment leave the coordinator,
\* the frame thread and the accepted requests alone.
LEMMA TransportStepPreserves ==
  ASSUME SystemInv, WorkerStep \/ Environment, UNCHANGED <<coordinatorVars, frameVars>>
  PROVE  SystemInv'
<1>1. TransportInv' /\ accepted' = accepted
  BY WorkerPreserves, EnvironmentPreserves DEF SystemInv
<1> QED
  BY <1>1
     DEF coordinatorVars, frameVars, SystemInv, CoordinatorInv, CoordinatorTypeOK,
         HistoryTypeOK, HandOverInv, AcceptedInv, IssuedInv, OneCommandPerFloor,
         OneRequestPerResident

LEMMA StutterPreserves ==
  ASSUME SystemInv, UNCHANGED vars
  PROVE  SystemInv'
BY DEF vars, coordinatorVars, transportVars, workerVars, networkVars, frameVars,
       SystemInv, CoordinatorInv, CoordinatorTypeOK, ShapeOf, ReservedIn,
       TransportInv, TransportTypeOK, HeadInv, KnownInv, HistoryTypeOK, HandOverInv,
       AcceptedInv, IssuedInv, OneCommandPerFloor, OneRequestPerResident

LEMMA StepPreserves == SystemInv /\ [Next]_vars => SystemInv'
BY FrameStepPreserves, DeliverPreserves, TransportStepPreserves, StutterPreserves
   DEF Next, Worker, Outside, Finished

-----------------------------------------------------------------------------
(* The theorems.                                                            *)

\* In every reachable state the coordinator, the transport and the frame
\* thread agree on the requests as the parts of SystemInv say.
THEOREM SystemInvariant == Spec => []SystemInv
<1> QED
  BY InitInv, StepPreserves, PTL DEF Spec

\* Every variable of the floor-call path keeps its type: no counter, queue
\* entry, record or report leaves its range (CoordinatorTypeOK,
\* TransportTypeOK and the histories).
THEOREM TypeCorrect == Spec => []SystemTypeOK
<1>1. SystemInv => SystemTypeOK
  BY DEF SystemInv, SystemTypeOK, CoordinatorInv, TransportInv, HistoryTypeOK
<1> QED
  BY <1>1, SystemInvariant, PTL

\* The command in flight is the head of the queue whenever one of the three
\* pop_front calls of worker_loop may run (socketio_client.cpp 428, 491, 507).
THEOREM HeadIsInFlight == Spec => []InFlightIsHead
<1>1. SystemInv => InFlightIsHead
  BY DEF SystemInv, TransportInv, HeadInv, InFlightIsHead
<1> QED
  BY <1>1, SystemInvariant, PTL

\* A command of the visit holds its floor in floor_request_ids_ exactly as
\* long as it was not refused, in whatever order rulings, refusals and reports
\* come.
THEOREM FloorStaysReserved == Spec => []FloorReserved
<1>1. SystemInv => FloorReserved
  BY DEF SystemInv, CoordinatorInv, ReservedIn, FloorReserved
<1> QED
  BY <1>1, SystemInvariant, PTL

\* R3.1 and R4.1: at most one accepted request per floor and visit, and one
\* request at all per resident and visit, for a floor of the cabin.
THEOREM RequestsAreUnique == Spec => []OneRequestEach
<1>1. SystemInv => OneRequestEach
  BY DEF SystemInv, OneRequestEach
<1> QED
  BY <1>1, SystemInvariant, PTL

\* A report touches the record of its own request and nothing else of the
\* visit (on_transport_state).
THEOREM ReportTouchesItsCommand == Spec => ReportTouchesOneCommand
<1> DEFINE Touch ==
      Deliver =>
        /\ \A id \in Ids : id # Head(reports).id
             => visit'.commands[id] = visit.commands[id]
        /\ visit'.decided = visit.decided
        /\ visit'.id # VisitOf(Head(reports).id) => visit' = visit
<1>1. SystemInv /\ [Next]_vars => Touch
  <2> SUFFICES ASSUME SystemInv, Deliver PROVE Touch
    OBVIOUS
  <2>1. /\ Head(reports).id \in Ids /\ Head(reports).state \in CommandStates
        /\ OnTransportState(Head(reports).id, Head(reports).state)
    BY TakeReportPreserves, SystemAssumption
       DEF SystemInv, Deliver, Fates, CommandStates, TerminalStates, Outcomes
  <2>2. /\ \A i \in Ids : i # Head(reports).id => visit'.commands[i] = visit.commands[i]
        /\ visit'.decided = visit.decided /\ visit'.id = visit.id
    BY <2>1, ReportPreserves DEF SystemInv
  <2>3. visit.id # Head(reports).id[1] => visit' = visit
    BY <2>1 DEF OnTransportState, Open, SystemInv, CoordinatorInv, ShapeOf
  <2> QED
    BY <2>2, <2>3 DEF VisitOf
<1> QED
  BY <1>1, SystemInvariant, PTL DEF Spec, ReportTouchesOneCommand

(***************************************************************************)
(* The history.  FloorCallSystem implements FloorCallLifecycle; requests   *)
(* are written once, in order and while they are fresh; what a result says *)
(* is so; and the coordinator's records keep step with the worker.         *)
(*                                                                         *)
(* SystemInv says where the command in flight is.  What is missing is how  *)
(* the queue lies in the history: it is the end of what was accepted, no   *)
(* request of it has an end yet, and what was written lies before it       *)
(* (LineInv).  TruthInv follows a success from the service to the history, *)
(* RefusedInv says a refused request stays refused, and StepInv says that  *)
(* a result on its way finds its record open.                              *)
(***************************************************************************)

Distinct(s) == \A i, j \in 1 .. Len(s) : s[i] = s[j] => i = j

\* The accepted requests that left the queue, and the one in flight.
Behind == Len(accepted) - Len(queue) + (IF inFlight = None THEN 0 ELSE 1)

\* The queue is the end of the accepted requests.
QueueIsSuffix ==
  /\ Len(queue) <= Len(accepted)
  /\ \A i \in 1 .. Len(queue) :
       queue[i].id = accepted[Len(accepted) - Len(queue) + i]

\* A request ends when it leaves the queue.
FateInv ==
  /\ \A i \in 1 .. Len(queue) : fate[queue[i].id] = None
  /\ \A id \in Ids : fate[id] # None => id \in Range(accepted)

WrittenInv ==
  \A i \in 1 .. Len(written) : \E m \in 1 .. Behind : accepted[m] = written[i]

LineInv ==
  /\ Distinct(accepted) /\ QueueIsSuffix /\ FateInv
  /\ WrittenInv /\ WrittenOnceInOrder

-----------------------------------------------------------------------------
(* The queue as a line of ids.                                              *)

LEMMA Types ==
  ASSUME TransportInv
  PROVE  /\ queue \in Seq(Queued) /\ accepted \in Seq(Ids) /\ written \in Seq(Ids)
         /\ Len(queue) \in Nat /\ Len(accepted) \in Nat /\ Len(written) \in Nat
         /\ \A i \in 1 .. Len(queue) : queue[i] \in Queued /\ queue[i].id \in Ids
         /\ fate \in [Ids -> Fates \cup {None}]
<1>1. /\ queue \in Seq(Queued) /\ accepted \in Seq(Ids) /\ written \in Seq(Ids)
      /\ fate \in [Ids -> Fates \cup {None}]
  BY SystemAssumption DEF TransportInv, TransportTypeOK
<1>2. \A e \in Queued : e.id \in Ids
  BY SystemAssumption DEF Queued
<1> QED
  BY <1>1, <1>2, LenProperties, ElementOfSeq

LEMMA LineOfQueue ==
  ASSUME NEW q \in Seq(Queued), NEW line, line = [i \in 1 .. Len(q) |-> q[i].id]
  PROVE  /\ line \in Seq(Ids) /\ Len(line) = Len(q)
         /\ \A i \in 1 .. Len(q) : line[i] = q[i].id
         /\ q # <<>> => line # <<>> /\ Head(line) = Head(q).id
<1>1. Len(q) \in Nat /\ \A i \in 1 .. Len(q) : q[i] \in Queued
  BY LenProperties, ElementOfSeq
<1>2. line \in [1 .. Len(q) -> Ids]
  BY <1>1, SystemAssumption DEF Queued
<1>3. line \in Seq(Ids) /\ Len(line) = Len(q)
  BY <1>1, <1>2, TupleInSeq
<1>4. ASSUME q # <<>>
      PROVE  line # <<>> /\ Head(line) = Head(q).id
  <2>1. Head(q) = q[1] /\ 1 \in 1 .. Len(q) /\ Len(q) # 0
    BY <1>4, HeadIsFirst
  <2>2. line # <<>>
    BY <2>1, <1>3, EmptySeq
  <2> QED
    BY <2>1, <2>2, <1>3, HeadIsFirst
<1> QED
  BY <1>1, <1>3, <1>4

\* Ids in the queue are distinct, as the accepted ones are.
LEMMA QueueDistinct ==
  ASSUME TransportInv, LineInv, NEW i \in 1 .. Len(queue), NEW j \in 1 .. Len(queue),
         queue[i].id = queue[j].id
  PROVE  i = j
<1> DEFINE n == Len(accepted) - Len(queue)
<1>1. /\ Len(queue) \in Nat /\ Len(accepted) \in Nat /\ n \in Nat
      /\ n + i \in 1 .. Len(accepted) /\ n + j \in 1 .. Len(accepted)
  BY Types DEF LineInv, QueueIsSuffix
<1>2. accepted[n + i] = accepted[n + j]
  BY DEF LineInv, QueueIsSuffix
<1>3. n + i = n + j
  BY <1>1, <1>2 DEF LineInv, Distinct
<1> QED
  BY <1>1, <1>3

-----------------------------------------------------------------------------
(* The steps that change the line.                                          *)

LEMMA LineInit == SystemInit => LineInv /\ Lifecycle!Init
<1> SUFFICES ASSUME SystemInit PROVE LineInv /\ Lifecycle!Init
  OBVIOUS
<1>1. /\ queue = <<>> /\ accepted = <<>> /\ written = <<>> /\ inFlight = None
      /\ fate = [r \in Ids |-> None]
  BY SystemAssumption DEF SystemInit, TransportInit
<1>2. LineInv
  BY <1>1 DEF LineInv, Distinct, QueueIsSuffix, FateInv, WrittenInv,
              WrittenOnceInOrder, Behind
<1>3. Line = <<>> /\ Status = [r \in Ids |-> "new"]
  BY <1>1 DEF Line, Status, Range
<1> QED
  BY <1>2, <1>3 DEF Lifecycle!Init

Untouched == UNCHANGED <<queue, accepted, written, fate, inFlight>>

\* WrittenOnceInOrder, of two sequences.
OnceInOrder(w, a) ==
  \A i, j \in 1 .. Len(w) :
    i < j => \E m, n \in 1 .. Len(a) : m < n /\ a[m] = w[i] /\ a[n] = w[j]

LEMMA OrderOfWrites ==
  /\ WrittenOnceInOrder <=> OnceInOrder(written, accepted)
  /\ WrittenOnceInOrder' <=> OnceInOrder(written', accepted')
  BY DEF WrittenOnceInOrder, OnceInOrder

LEMMA UntouchedLine ==
  ASSUME LineInv, Untouched
  PROVE  LineInv' /\ UNCHANGED <<Line, Status>>
<1>1. LineInv'
  <2>1. /\ accepted' = accepted /\ queue' = queue /\ written' = written
        /\ fate' = fate /\ Behind' = Behind
    BY DEF Untouched, Behind
  <2>2. Distinct(accepted)' /\ QueueIsSuffix' /\ FateInv'
    BY <2>1 DEF LineInv, Distinct, QueueIsSuffix, FateInv
  <2>3. WrittenInv'
    BY <2>1 DEF LineInv, WrittenInv
  <2>4. WrittenOnceInOrder'
    <3>1. accepted' = accepted /\ written' = written
      BY <2>1
    <3>2. OnceInOrder(written, accepted)
      BY OrderOfWrites DEF LineInv
    <3> QED
      BY <3>1, <3>2, OrderOfWrites
  <2> QED
    BY <2>2, <2>3, <2>4 DEF LineInv
<1>2. Line' = Line /\ Status' = Status
  BY DEF Untouched, Line, Status
<1> QED
  BY <1>1, <1>2

\* What was written stays written, before what it was written before.
LEMMA WrittenKept ==
  ASSUME WrittenInv, WrittenOnceInOrder, written' = written,
         Behind \in Int, Behind' \in Int, Behind <= Behind',
         Len(accepted) \in Nat, Len(accepted') \in Nat,
         Behind <= Len(accepted), Len(accepted) <= Len(accepted'),
         \A m \in 1 .. Len(accepted) : accepted'[m] = accepted[m]
  PROVE  WrittenInv' /\ WrittenOnceInOrder'
<1>1. WrittenInv'
  <2> SUFFICES ASSUME NEW i \in 1 .. Len(written)
               PROVE  \E m \in 1 .. Behind' : accepted'[m] = written[i]
    BY DEF WrittenInv
  <2>1. PICK m \in 1 .. Behind : accepted[m] = written[i]
    BY DEF WrittenInv
  <2>2. m \in 1 .. Behind' /\ m \in 1 .. Len(accepted)
    OBVIOUS
  <2> QED
    BY <2>1, <2>2
<1>2. WrittenOnceInOrder'
  <2> SUFFICES ASSUME NEW i \in 1 .. Len(written), NEW j \in 1 .. Len(written), i < j
               PROVE  \E m, l \in 1 .. Len(accepted') :
                        m < l /\ accepted'[m] = written[i] /\ accepted'[l] = written[j]
    BY DEF WrittenOnceInOrder
  <2>1. PICK m \in 1 .. Len(accepted), l \in 1 .. Len(accepted) :
               m < l /\ accepted[m] = written[i] /\ accepted[l] = written[j]
    BY DEF WrittenOnceInOrder
  <2>2. m \in 1 .. Len(accepted') /\ l \in 1 .. Len(accepted')
    OBVIOUS
  <2> QED
    BY <2>1, <2>2
<1> QED
  BY <1>1, <1>2

\* A request joins the end of the line.
LEMMA HandOverLine ==
  ASSUME SystemInv, LineInv, HandOver
  PROVE  LineInv' /\ Lifecycle!Accept(pending)
<1> DEFINE entry == [id |-> pending, at |-> clock]
           n == Len(accepted)
           k == Len(queue)
<1>1. /\ TransportInv /\ pending \in Ids /\ pending \notin Range(accepted)
      /\ queue' = Append(queue, entry) /\ accepted' = Append(accepted, pending)
      /\ written' = written /\ fate' = fate /\ inFlight' = inFlight
      /\ entry \in Queued /\ entry.id = pending
  BY SystemAssumption DEF SystemInv, HandOverInv, HandOver, Enqueue, workerVars,
     TransportInv, TransportTypeOK, Queued
<1> HIDE DEF entry
<1>2. /\ queue \in Seq(Queued) /\ accepted \in Seq(Ids) /\ written \in Seq(Ids)
      /\ k \in Nat /\ n \in Nat /\ Len(written) \in Nat
      /\ \A i \in 1 .. k : queue[i].id \in Ids
  BY <1>1, Types
<1>3. /\ Len(queue') = k + 1 /\ queue' \in Seq(Queued)
      /\ \A i \in 1 .. k : queue'[i] = queue[i]
      /\ queue'[k + 1].id = pending
  BY <1>1, <1>2, AppendedSeq
<1>4. /\ Len(accepted') = n + 1
      /\ \A i \in 1 .. n : accepted'[i] = accepted[i]
      /\ accepted'[n + 1] = pending
      /\ Range(accepted') = Range(accepted) \cup {pending}
      /\ \A i \in 1 .. n : accepted[i] # pending
  <2>1. \A i \in 1 .. n : accepted[i] \in Range(accepted)
    BY <1>2, LenProperties DEF Range
  <2> QED
    BY <2>1, <1>1, <1>2, AppendedSeq
<1>5. Distinct(accepted')
  BY <1>2, <1>4 DEF LineInv, Distinct
<1>6. QueueIsSuffix'
  <2>1. ASSUME NEW i \in 1 .. k + 1
        PROVE  queue'[i].id = accepted'[n - k + i]
    <3>1. CASE i = k + 1
      BY <3>1, <1>2, <1>3, <1>4
    <3>2. CASE i # k + 1
      <4>1. i \in 1 .. k /\ k <= n /\ n - k + i \in 1 .. n
        BY <3>2, <1>2 DEF LineInv, QueueIsSuffix
      <4>2. queue[i].id = accepted[n - k + i]
        BY <4>1 DEF LineInv, QueueIsSuffix
      <4> QED
        BY <4>1, <4>2, <1>3, <1>4
    <3> QED
      BY <3>1, <3>2
  <2>2. Len(queue') <= Len(accepted') /\ Len(accepted') - Len(queue') = n - k
    BY <1>2, <1>3, <1>4 DEF LineInv, QueueIsSuffix
  <2> QED
    BY <2>1, <2>2, <1>3 DEF QueueIsSuffix
<1>7. fate[pending] = None
  BY <1>1 DEF LineInv, FateInv
<1>8. FateInv'
  BY <1>1, <1>2, <1>3, <1>4, <1>7 DEF LineInv, FateInv
<1>9. Behind' = Behind /\ Behind \in Int /\ Behind <= n
  <2>1. inFlight # None => k # 0
    BY <1>2, EmptySeq DEF SystemInv, TransportInv, HeadInv
  <2> QED
    BY <2>1, <1>1, <1>2, <1>3, <1>4 DEF Behind
<1>10. WrittenInv' /\ WrittenOnceInOrder'
  BY <1>1, <1>2, <1>4, <1>9, WrittenKept DEF LineInv
<1>12. LineInv'
  BY <1>5, <1>6, <1>8, <1>10 DEF LineInv
<1>13. Line' = Append(Line, pending)
  <2>1. /\ Line \in Seq(Ids) /\ Len(Line) = k /\ \A i \in 1 .. k : Line[i] = queue[i].id
        /\ Line' \in Seq(Ids) /\ Len(Line') = k + 1
        /\ \A i \in 1 .. k + 1 : Line'[i] = queue'[i].id
    BY <1>2, <1>3, LineOfQueue DEF Line
  <2>2. /\ Append(Line, pending) \in Seq(Ids) /\ Len(Append(Line, pending)) = k + 1
        /\ \A i \in 1 .. k : Append(Line, pending)[i] = Line[i]
        /\ Append(Line, pending)[k + 1] = pending
    BY <1>1, <2>1, AppendedSeq
  <2>3. \A i \in 1 .. k + 1 : Line'[i] = Append(Line, pending)[i]
    <3> TAKE i \in 1 .. k + 1
    <3>1. i \in 1 .. k \/ i = k + 1
      BY <1>2
    <3> QED
      BY <3>1, <1>3, <2>1, <2>2
  <2> HIDE DEF k
  <2> QED
    BY <2>1, <2>2, <2>3, SeqEqual
<1>14. inFlight # None => inFlight.id # pending
  <2> SUFFICES ASSUME inFlight # None PROVE inFlight.id # pending
    OBVIOUS
  <2>1. queue # <<>> /\ Head(queue).id = inFlight.id
    BY DEF SystemInv, TransportInv, HeadInv
  <2>2. 1 \in 1 .. Len(queue) /\ Head(queue) = queue[1]
    BY <2>1, <1>2, HeadIsFirst
  <2> QED
    BY <2>1, <2>2, <1>1 DEF TransportInv, KnownInv
<1>15. Status[pending] = "new"
  BY <1>1, <1>7, <1>14 DEF Status
<1>16. Status' = [Status EXCEPT ![pending] = "waiting"]
  BY <1>1, <1>4, <1>7, <1>14 DEF Status
<1> QED
  BY <1>12, <1>13, <1>15, <1>16 DEF Lifecycle!Accept

\* Expired commands are dropped from the front of the line.
LEMMA PickLine ==
  ASSUME SystemInv, LineInv, Pick
  PROVE  LineInv' /\ (Lifecycle!Next \/ UNCHANGED <<Line, Status>>)
<1> DEFINE n == Len(accepted)
           q == Len(queue)
<1>1. TransportInv
  BY DEF SystemInv
<1>2. /\ queue \in Seq(Queued) /\ accepted \in Seq(Ids) /\ written \in Seq(Ids)
      /\ q \in Nat /\ n \in Nat /\ q <= n
      /\ \A i \in 1 .. q : queue[i].id \in Ids
      /\ fate \in [Ids -> Fates \cup {None}]
  BY <1>1, Types DEF LineInv, QueueIsSuffix
<1>3. /\ inFlight = None /\ inFlight' = None
      /\ accepted' = accepted /\ written' = written
  BY <1>1 DEF TransportInv, HeadInv, Pick, At
<1>4. PICK k \in 0 .. q :
        /\ queue' = SubSeq(queue, k + 1, q)
        /\ fate' = [r \in Ids |->
                      IF \E i \in 1 .. k : queue[i].id = r THEN "expired" ELSE fate[r]]
  BY SystemAssumption DEF Pick
<1>5. /\ queue' \in Seq(Queued) /\ Len(queue') = q - k
      /\ \A i \in 1 .. q - k : queue'[i] = queue[i + k] /\ i + k \in 1 .. q
  BY <1>2, <1>4, SuffixOfSeq
<1>6. QueueIsSuffix'
  <2>1. ASSUME NEW i \in 1 .. q - k
        PROVE  queue'[i].id = accepted[n - (q - k) + i]
    <3>1. i + k \in 1 .. q /\ n - (q - k) + i = n - q + (i + k)
      BY <1>2, <1>4
    <3>2. queue[i + k].id = accepted[n - q + (i + k)]
      BY <3>1 DEF LineInv, QueueIsSuffix
    <3> QED
      BY <3>1, <3>2, <1>5
  <2>2. q - k <= n
    BY <1>2, <1>4
  <2> QED
    BY <2>1, <2>2, <1>3, <1>5 DEF QueueIsSuffix
<1>7. FateInv'
  <2>1. ASSUME NEW i \in 1 .. q - k
        PROVE  fate'[queue'[i].id] = None
    <3>1. i + k \in 1 .. q /\ queue'[i] = queue[i + k] /\ queue[i + k].id \in Ids
      BY <1>2, <1>4, <1>5
    <3>2. ASSUME NEW j \in 1 .. k, queue[j].id = queue[i + k].id
          PROVE  FALSE
      <4>1. j \in 1 .. q /\ j # i + k
        BY <1>2, <1>4
      <4> QED
        BY <3>1, <3>2, <4>1, <1>1, QueueDistinct
    <3>3. fate[queue[i + k].id] = None
      BY <3>1 DEF LineInv, FateInv
    <3> QED
      BY <3>1, <3>2, <3>3, <1>4
  <2>2. ASSUME NEW id \in Ids, fate'[id] # None
        PROVE  id \in Range(accepted)
    <3>1. CASE fate[id] # None
      BY <3>1 DEF LineInv, FateInv
    <3>2. CASE \E i \in 1 .. k : queue[i].id = id
      <4>1. PICK i \in 1 .. q : queue[i].id = id
        BY <3>2, <1>2, <1>4
      <4> QED
        BY <4>1, <1>1 DEF TransportInv, KnownInv
    <3> QED
      BY <2>2, <3>1, <3>2, <1>4
  <2> QED
    BY <2>1, <2>2, <1>3, <1>5 DEF FateInv
<1>8. WrittenInv' /\ WrittenOnceInOrder'
  <2>1. /\ Behind \in Int /\ Behind' \in Int /\ Behind <= Behind' /\ Behind <= n
    BY <1>2, <1>3, <1>4, <1>5 DEF Behind
  <2> QED
    BY <2>1, <1>2, <1>3, WrittenKept DEF LineInv
<1>9. LineInv'
  BY <1>3, <1>6, <1>7, <1>8 DEF LineInv
<1>10. /\ Line \in Seq(Ids) /\ Len(Line) = q
       /\ \A i \in 1 .. q : Line[i] = queue[i].id
       /\ Line' \in Seq(Ids) /\ Len(Line') = q - k
       /\ \A i \in 1 .. q - k : Line'[i] = queue'[i].id
  <2>1. \A i \in 1 .. Len(queue') : i \in 1 .. q - k
    BY <1>5
  <2> QED
    BY <2>1, <1>2, <1>5, LineOfQueue DEF Line
<1>11. Line' = SubSeq(Line, k + 1, Len(Line))
  <2> DEFINE rest == SubSeq(Line, k + 1, Len(Line))
  <2>1. /\ rest \in Seq(Ids) /\ Len(rest) = q - k
        /\ \A i \in 1 .. q - k : rest[i] = Line[i + k]
    BY <1>4, <1>10, SuffixOfSeq
  <2>2. \A i \in 1 .. q - k : Line'[i] = rest[i]
    BY <2>1, <1>5, <1>10
  <2> HIDE DEF rest
  <2> QED
    BY <2>1, <2>2, <1>10, SeqEqual DEF rest
<1>12. \A i \in 1 .. k : /\ Line[i] \in Ids /\ Line[i] = queue[i].id
                         /\ Status[Line[i]] = "waiting"
  <2> TAKE i \in 1 .. k
  <2>1. i \in 1 .. q
    BY <1>2, <1>4
  <2>2. /\ queue[i].id \in Ids /\ fate[queue[i].id] = None
        /\ queue[i].id \in Range(accepted)
    BY <2>1, <1>1, <1>2 DEF LineInv, FateInv, TransportInv, KnownInv
  <2> QED
    BY <2>1, <2>2, <1>3, <1>10 DEF Status
<1>13. Status' = [r \in Ids |-> IF \E i \in 1 .. k : Line[i] = r THEN "expired"
                                ELSE Status[r]]
  <2>1. "expired" # None
    BY NoneAssumption DEF Fates
  <2>2. \A r \in Ids : (\E i \in 1 .. k : Line[i] = r) <=> (\E i \in 1 .. k : queue[i].id = r)
    BY <1>12
  <2>3. ASSUME NEW r \in Ids
        PROVE  Status'[r] = IF \E i \in 1 .. k : Line[i] = r THEN "expired" ELSE Status[r]
    <3>1. CASE \E i \in 1 .. k : queue[i].id = r
      BY <3>1, <2>1, <2>2, <1>4 DEF Status
    <3>2. CASE ~\E i \in 1 .. k : queue[i].id = r
      BY <3>2, <2>2, <1>3, <1>4 DEF Status
    <3> QED
      BY <3>1, <3>2
  <2>4. \E f : Status' = [r \in Ids |-> f[r]]
    BY DEF Status
  <2> QED
    BY <2>3, <2>4
<1>14. CASE k = 0
  <2>1. Line' = Line
    <3>1. \A i \in 1 .. q : Line'[i] = Line[i]
      <4> TAKE i \in 1 .. q
      <4>1. q - k = q /\ i + k = i /\ i \in 1 .. q - k
        BY <1>2, <1>14
      <4>2. queue'[i] = queue[i]
        BY <4>1, <1>5
      <4> QED
        BY <4>1, <4>2, <1>10
    <3> HIDE DEF q
    <3> QED
      BY <3>1, <1>2, <1>10, <1>14, SeqEqual
  <2>2. Status' = Status
    BY <1>13, <1>14 DEF Status
  <2> QED
    BY <1>9, <2>1, <2>2
<1>15. CASE k # 0
  <2>1. k \in 1 .. Len(Line)
    BY <1>2, <1>4, <1>10, <1>15
  <2>2. Lifecycle!Drop(k)
    BY <1>11, <1>12, <1>13 DEF Lifecycle!Drop
  <2> QED
    BY <1>9, <2>1, <2>2 DEF Lifecycle!Next
<1> QED
  BY <1>14, <1>15

\* The first in line goes out.
LEMMA WriteLine ==
  ASSUME SystemInv, LineInv, WriteCommand
  PROVE  LineInv' /\ Lifecycle!Next
<1> DEFINE n == Len(accepted)
           q == Len(queue)
           id == picked.id
<1>1. TransportInv
  BY DEF SystemInv
<1>2. /\ queue \in Seq(Queued) /\ accepted \in Seq(Ids) /\ written \in Seq(Ids)
      /\ q \in Nat /\ n \in Nat /\ q <= n
  BY <1>1, Types DEF LineInv, QueueIsSuffix
<1>3. /\ inFlight = None /\ picked # None /\ queue # <<>> /\ Head(queue) = picked
  BY <1>1 DEF TransportInv, HeadInv, WriteCommand, At
<1>4. /\ queue' = queue /\ accepted' = accepted /\ fate' = fate
      /\ written' = Append(written, id)
      /\ inFlight' # None /\ inFlight'.id = id
  <2>1. inFlight' \in InFlight
    BY <1>1, SystemAssumption
       DEF TransportInv, TransportTypeOK, WriteCommand, InFlight, Queued
  <2> QED
    BY <2>1, NoneAssumption DEF WriteCommand
<1>5. /\ 1 \in 1 .. q /\ queue[1] = picked /\ id \in Ids
      /\ accepted[n - q + 1] = id /\ fate[id] = None /\ id \in Range(accepted)
  <2>1. 1 \in 1 .. q /\ queue[1] = picked
    BY <1>2, <1>3, HeadIsFirst
  <2> QED
    BY <2>1, <1>1, Types DEF LineInv, QueueIsSuffix, FateInv, TransportInv, KnownInv
<1>6. Behind = n - q /\ Behind' = n - q + 1 /\ n - q + 1 \in 1 .. n
  BY <1>2, <1>3, <1>4, <1>5 DEF Behind
<1>7. /\ Len(written') = Len(written) + 1 /\ Len(written) \in Nat
      /\ \A i \in 1 .. Len(written) : written'[i] = written[i]
      /\ written'[Len(written) + 1] = id
  <2>1. id \in Ids
    BY <1>5
  <2> HIDE DEF id
  <2> QED
    BY <2>1, <1>2, <1>4, AppendedSeq, LenProperties
<1> HIDE DEF id, n, q
<1>8. WrittenInv'
  <2> SUFFICES ASSUME NEW i \in 1 .. Len(written) + 1
               PROVE  \E m \in 1 .. n - q + 1 : accepted[m] = written'[i]
    BY <1>4, <1>6, <1>7 DEF WrittenInv
  <2>1. CASE i = Len(written) + 1
    BY <2>1, <1>2, <1>5, <1>6, <1>7
  <2>2. CASE i # Len(written) + 1
    <3>1. i \in 1 .. Len(written)
      BY <2>2, <1>7
    <3>2. PICK m \in 1 .. n - q : accepted[m] = written[i]
      BY <3>1, <1>6 DEF LineInv, WrittenInv
    <3>3. m \in 1 .. n - q + 1
      BY <1>2
    <3> QED
      BY <3>1, <3>2, <3>3, <1>7
  <2> QED
    BY <2>1, <2>2
<1>9. WrittenOnceInOrder'
  <2> SUFFICES ASSUME NEW i \in 1 .. Len(written) + 1, NEW j \in 1 .. Len(written) + 1,
                      i < j
               PROVE  \E m, l \in 1 .. n :
                        m < l /\ accepted[m] = written'[i] /\ accepted[l] = written'[j]
    <3>1. accepted' = accepted /\ Len(written') = Len(written) + 1
      BY <1>4, <1>7
    <3> QED
      BY <3>1 DEF WrittenOnceInOrder, n
  <2>1. i \in 1 .. Len(written)
    BY <1>7
  <2>2. CASE j = Len(written) + 1
    <3>1. PICK m \in 1 .. n - q : accepted[m] = written[i]
      BY <2>1, <1>6 DEF LineInv, WrittenInv
    <3>2. m \in 1 .. n /\ m < n - q + 1
      BY <1>2, <1>6
    <3> QED
      BY <2>1, <2>2, <3>1, <3>2, <1>5, <1>6, <1>7
  <2>3. CASE j # Len(written) + 1
    <3>1. j \in 1 .. Len(written)
      BY <2>3, <1>7
    <3> QED
      BY <2>1, <3>1, <1>7 DEF LineInv, WrittenOnceInOrder, n
  <2> QED
    BY <2>2, <2>3
<1>10. LineInv'
  BY <1>4, <1>8, <1>9 DEF LineInv, Distinct, QueueIsSuffix, FateInv
<1>11. Line' = Line /\ Line # <<>> /\ Head(Line) = id
  BY <1>2, <1>3, <1>4, LineOfQueue DEF Line, id
<1>12. Status[id] = "waiting"
  BY <1>3, <1>5 DEF Status
<1>13. Status' = [Status EXCEPT ![id] = "out"]
  BY <1>3, <1>4, <1>5 DEF Status
<1>14. Lifecycle!Dispatch
  BY <1>11, <1>12, <1>13 DEF Lifecycle!Dispatch
<1> QED
  BY <1>10, <1>14 DEF Lifecycle!Next

\* The first in line leaves with a result.
LEMMA SettleLine ==
  ASSUME SystemInv, LineInv, inFlight # None,
         NEW result \in Fates \ {"expired"}, Settle(result),
         accepted' = accepted, written' = written
  PROVE  LineInv' /\ Lifecycle!Next
<1> DEFINE n == Len(accepted)
           q == Len(queue)
           id == inFlight.id
<1>1. TransportInv
  BY DEF SystemInv
<1>2. /\ queue \in Seq(Queued) /\ accepted \in Seq(Ids) /\ written \in Seq(Ids)
      /\ q \in Nat /\ n \in Nat /\ q <= n
      /\ \A i \in 1 .. q : queue[i].id \in Ids
      /\ fate \in [Ids -> Fates \cup {None}]
  BY <1>1, Types DEF LineInv, QueueIsSuffix
<1>3. /\ queue # <<>> /\ Head(queue).id = id
      /\ queue' = Tail(queue) /\ inFlight' = None
      /\ fate' = [fate EXCEPT ![id] = result]
  BY <1>1 DEF TransportInv, HeadInv, Settle
<1>4. /\ 1 \in 1 .. q /\ queue[1].id = id /\ id \in Ids
      /\ queue' \in Seq(Queued) /\ Len(queue') = q - 1
      /\ \A i \in 1 .. q - 1 : queue'[i] = queue[i + 1] /\ i + 1 \in 1 .. q
      /\ fate[id] = None /\ id \in Range(accepted)
  <2>1. /\ 1 \in 1 .. q /\ queue[1] = Head(queue)
        /\ queue' \in Seq(Queued) /\ Len(queue') = q - 1
        /\ \A i \in 1 .. Len(queue') : queue'[i] = queue[i + 1]
    BY <1>2, <1>3, HeadIsFirst
  <2> QED
    BY <2>1, <1>1, <1>2, <1>3 DEF LineInv, FateInv, TransportInv, KnownInv
<1> HIDE DEF id
<1>5. QueueIsSuffix'
  <2>1. ASSUME NEW i \in 1 .. q - 1
        PROVE  queue'[i].id = accepted[n - (q - 1) + i]
    <3>1. i + 1 \in 1 .. q /\ n - (q - 1) + i = n - q + (i + 1)
      BY <1>2
    <3>2. queue[i + 1].id = accepted[n - q + (i + 1)]
      BY <3>1 DEF LineInv, QueueIsSuffix
    <3> QED
      BY <3>1, <3>2, <1>4
  <2>2. q - 1 <= n
    BY <1>2
  <2> QED
    BY <2>1, <2>2, <1>4 DEF QueueIsSuffix
<1>6. FateInv'
  <2>1. ASSUME NEW i \in 1 .. q - 1
        PROVE  fate'[queue'[i].id] = None
    <3>1. i + 1 \in 1 .. q /\ i + 1 # 1
      BY <1>2
    <3>2. queue[i + 1].id # id
      BY <3>1, <1>1, <1>4, QueueDistinct
    <3>3. fate[queue[i + 1].id] = None
      BY <3>1 DEF LineInv, FateInv
    <3> QED
      BY <3>1, <3>2, <3>3, <1>2, <1>3, <1>4
  <2>2. ASSUME NEW r \in Ids, fate'[r] # None
        PROVE  r \in Range(accepted)
    BY <2>2, <1>2, <1>3, <1>4 DEF LineInv, FateInv
  <2> QED
    BY <2>1, <2>2, <1>4 DEF FateInv
<1>7. WrittenInv' /\ WrittenOnceInOrder'
  <2>1. /\ Behind \in Int /\ Behind' = Behind /\ Behind <= n
    BY <1>2, <1>3, <1>4 DEF Behind
  <2> QED
    BY <2>1, <1>2, WrittenKept DEF LineInv
<1>8. LineInv'
  BY <1>5, <1>6, <1>7 DEF LineInv
<1>9. /\ Line \in Seq(Ids) /\ Len(Line) = q /\ Line # <<>> /\ Head(Line) = id
      /\ \A i \in 1 .. q : Line[i] = queue[i].id
      /\ Line' \in Seq(Ids) /\ Len(Line') = q - 1
      /\ \A i \in 1 .. q - 1 : Line'[i] = queue'[i].id
  <2>1. \A i \in 1 .. Len(queue') : i \in 1 .. q - 1
    BY <1>4
  <2> QED
    BY <2>1, <1>2, <1>3, <1>4, LineOfQueue DEF Line
<1>10. Line' = Tail(Line)
  <2>1. /\ Tail(Line) \in Seq(Ids) /\ Len(Tail(Line)) = q - 1
        /\ \A i \in 1 .. Len(Tail(Line)) : Tail(Line)[i] = Line[i + 1]
    BY <1>9, HeadIsFirst
  <2>2. \A i \in 1 .. q - 1 : Line'[i] = Tail(Line)[i]
    BY <2>1, <1>4, <1>9
  <2> HIDE DEF q
  <2> QED
    BY <2>1, <2>2, <1>9, SeqEqual
<1>11. Status[id] = "out"
  BY <1>4 DEF Status, id
<1>12. Status' = [Status EXCEPT ![id] = result]
  <2>1. result # None
    BY NoneAssumption
  <2>2. ASSUME NEW r \in Ids
        PROVE  Status'[r] = IF r = id THEN result ELSE Status[r]
    <3>1. CASE r = id
      BY <3>1, <2>1, <1>2, <1>3 DEF Status
    <3>2. CASE r # id
      BY <3>2, <1>2, <1>3 DEF Status, id
    <3> QED
      BY <3>1, <3>2
  <2>3. \E f : Status' = [r \in Ids |-> f[r]]
    BY DEF Status
  <2>4. DOMAIN Status = Ids
    BY DEF Status
  <2> QED
    BY <2>2, <2>3, <2>4, <1>4
<1>13. Lifecycle!Conclude
  BY <1>9, <1>10, <1>11, <1>12 DEF Lifecycle!Conclude, Lifecycle!Ended, Fates
<1> QED
  BY <1>8, <1>13 DEF Lifecycle!Next

-----------------------------------------------------------------------------
(* Every step of the system.                                                *)

LEMMA WorkerLine ==
  ASSUME SystemInv, LineInv, WorkerStep
  PROVE  LineInv' /\ (Lifecycle!Next \/ UNCHANGED <<Line, Status>>)
<1>1. CASE Connect \/ Exit \/ LeaveLoop \/ RecvNothing \/ RecvClose \/ RecvOpen
             \/ RecvNamespace \/ RecvStaleAck \/ ReadClock \/ WriteNothing
             \/ WriteFails \/ PollRead \/ PollFails \/ Disconnect
  <2>1. Untouched
    BY <1>1 DEF Untouched, Connect, Exit, LeaveLoop, RecvNothing, RecvClose, RecvOpen,
       RecvNamespace, RecvStaleAck, ReadClock, WriteNothing, WriteFails, PollRead,
       PollFails, Disconnect
  <2> QED
    BY <2>1, UntouchedLine
<1>2. CASE RecvAck
  <2>1. inFlight # None /\ Verdict(Head(rx)) \in Fates \ {"expired"}
    BY <1>2, TransportAssumption DEF RecvAck, Answers, Verdict, Fates
  <2> QED
    BY <1>2, <2>1, SettleLine DEF RecvAck
<1>3. CASE CheckTimeout
  <2>1. CASE TimedOut
    BY <1>3, <2>1, SettleLine DEF CheckTimeout, TimedOut, Fates
  <2>2. CASE ~TimedOut
    BY <1>3, <2>2, UntouchedLine DEF CheckTimeout, Untouched
  <2> QED
    BY <2>1, <2>2
<1>4. CASE AbandonInFlight
  BY <1>4, SettleLine DEF AbandonInFlight, Fates
<1> QED
  BY <1>1, <1>2, <1>3, <1>4, PickLine, WriteLine DEF WorkerStep

LEMMA FrameLine ==
  ASSUME SystemInv, LineInv, FrameStep
  PROVE  LineInv' /\ (Lifecycle!Next \/ UNCHANGED <<Line, Status>>)
<1>1. CASE HandOver
  <2>1. pending \in Ids
    BY <1>1 DEF HandOver, SystemInv, HandOverInv
  <2> QED
    BY <1>1, <2>1, HandOverLine DEF Lifecycle!Next
<1>2. CASE ~HandOver
  <2>1. Untouched
    BY <1>2 DEF FrameStep, FramePresent, FrameEmpty, ConfirmSuppressed, ConfirmQueued,
       HandOverRefused, Refuse, GiveFloorBack, Shutdown, Close, Untouched,
       transportVars, workerVars
  <2> QED
    BY <2>1, UntouchedLine
<1> QED
  BY <1>1, <1>2

LEMMA StepLine ==
  SystemInv /\ LineInv /\ [Next]_vars =>
    LineInv' /\ (Lifecycle!Next \/ UNCHANGED <<Line, Status>>)
<1> SUFFICES ASSUME SystemInv, LineInv, [Next]_vars
             PROVE  LineInv' /\ (Lifecycle!Next \/ UNCHANGED <<Line, Status>>)
  OBVIOUS
<1>1. CASE Deliver \/ Outside \/ UNCHANGED vars
  <2>1. Untouched
    BY <1>1 DEF Deliver, TakeReport, Outside, Environment, Tick, LinkBreaks,
       ServiceOpensNamespace, ServiceApplies, Untouched, vars, transportVars, workerVars
  <2> QED
    BY <2>1, UntouchedLine
<1> QED
  BY <1>1, WorkerLine, FrameLine DEF Next, Worker, Finished

\* The queue is always the end of what was accepted, with no request of it
\* ended, and what was written lies before it.
THEOREM LineInvariant == Spec => []LineInv
<1>1. SystemInit => LineInv
  BY LineInit
<1> QED
  BY <1>1, StepLine, SystemInvariant, PTL DEF Spec

\* Each request is written at most once and in the order of acceptance, over
\* reconnections, failed writes and timeouts (R5.1, R9.2).
THEOREM WritesAreOnceInOrder == Spec => []WrittenOnceInOrder
<1>1. LineInv => WrittenOnceInOrder
  BY DEF LineInv
<1> QED
  BY <1>1, LineInvariant, PTL

\* The frame thread, the worker, the connections and the queue implement the
\* abstract line: one request at a time, from the front, each to one result.
THEOREM LifecycleIsImplemented == Spec => ImplementsLifecycle
<1>1. SystemInit => Lifecycle!Init
  BY LineInit
<1>2. SystemInv /\ LineInv /\ [Next]_vars => [Lifecycle!Next]_(Lifecycle!lifecycleVars)
  BY StepLine DEF Lifecycle!lifecycleVars
<1> QED
  BY <1>1, <1>2, LineInvariant, SystemInvariant, PTL
     DEF Spec, ImplementsLifecycle, Lifecycle!Spec

-----------------------------------------------------------------------------
(* What the worker writes is fresh.                                         *)

\* A difference of two times that is small in unsigned arithmetic is small
\* and not negative.
LEMMA SmallInWord ==
  ASSUME NEW d \in Int, 0 - MaxClock <= d, d <= MaxClock,
         d % WordSize <= CommandMaxAge
  PROVE  d \in 0 .. CommandMaxAge
<1>1. /\ WordSize \in Nat \ {0} /\ MaxClock \in Nat /\ CommandMaxAge \in Nat
      /\ WordSize > MaxClock + CommandMaxAge
  BY TransportAssumption
<1>2. CASE d >= 0
  <2>1. d \in 0 .. WordSize - 1
    BY <1>1, <1>2
  <2>2. d % WordSize = d
    BY <1>1, <2>1
  <2> QED
    BY <1>2, <2>2
<1>3. CASE d < 0
  <2>1. 0 - d \in 1 .. WordSize - 1
    BY <1>1, <1>3
  <2>2. \A e \in 1 .. WordSize - 1 : (0 - e) % WordSize = WordSize - e
    BY <1>1
  <2>3. d = 0 - (0 - d)
    OBVIOUS
  <2>4. d % WordSize = WordSize - (0 - d)
    BY <2>1, <2>2, <2>3
  <2> QED
    BY <1>1, <1>3, <2>4
<1> QED
  BY <1>2, <1>3

LEMMA FreshKept ==
  ASSUME SystemInv, NoStaleWrite, [Next]_vars
  PROVE  NoStaleWrite'
<1>0. TransportInv
  BY DEF SystemInv
<1>1. CASE Pick
  <2>1. PICK k \in 0 .. Len(queue) :
          /\ k < Len(queue) => ~Expired(queue[k + 1])
          /\ picked' = IF k < Len(queue) THEN queue[k + 1] ELSE None
    BY <1>1 DEF Pick
  <2>2. CASE k < Len(queue)
    <3>1. /\ k + 1 \in 1 .. Len(queue) /\ picked' = queue[k + 1] /\ readNow' = readNow
      BY <1>0, <1>1, <2>1, <2>2, Types DEF Pick
    <3>2. /\ queue[k + 1].at \in 0 .. MaxClock /\ readNow \in 0 .. MaxClock
          /\ MaxClock \in Nat /\ CommandMaxAge \in Nat /\ WordSize \in Nat \ {0}
      <4>1. queue[k + 1] \in Queued
        BY <1>0, <3>1, Types
      <4>2. readNow \in 0 .. MaxClock
        BY <1>0 DEF TransportInv, TransportTypeOK
      <4> QED
        BY <4>1, <4>2, TransportAssumption DEF Queued
    <3> DEFINE d == readNow - queue[k + 1].at
    <3>3. d \in Int /\ 0 - MaxClock <= d /\ d <= MaxClock
      BY <3>2
    <3>4. d % WordSize <= CommandMaxAge
      <4>1. ~(d % WordSize > CommandMaxAge)
        BY <2>1, <2>2 DEF Expired
      <4> HIDE DEF d
      <4>2. d % WordSize \in Int
        BY <3>2, <3>3
      <4> QED
        BY <3>2, <4>1, <4>2
    <3>5. d \in 0 .. CommandMaxAge
      <4> HIDE DEF d
      <4> QED
        BY <3>3, <3>4, SmallInWord
    <3> QED
      BY <3>1, <3>5 DEF NoStaleWrite
  <2>3. CASE ~(k < Len(queue))
    BY <2>1, <2>3 DEF NoStaleWrite
  <2> QED
    BY <2>2, <2>3
<1>2. CASE ReadClock
  <2>1. picked = None /\ picked' = picked
    BY <1>0, <1>2 DEF ReadClock, At, TransportInv, HeadInv
  <2> QED
    BY <2>1 DEF NoStaleWrite
<1>3. CASE WorkerStep /\ ~Pick /\ ~ReadClock
  <2>1. picked' = None \/ (picked' = picked /\ readNow' = readNow)
    BY <1>3 DEF WorkerStep, Connect, Exit, LeaveLoop, RecvNothing, RecvClose, RecvOpen,
       RecvNamespace, RecvAck, RecvStaleAck, WriteNothing, WriteCommand, WriteFails,
       CheckTimeout, PollRead, PollFails, AbandonInFlight, Disconnect
  <2> QED
    BY <2>1 DEF NoStaleWrite
<1>4. CASE FrameStep \/ Deliver \/ Outside \/ UNCHANGED vars
  <2>1. picked' = picked /\ readNow' = readNow
    BY <1>4 DEF FrameStep, FramePresent, FrameEmpty, ConfirmSuppressed, ConfirmQueued,
       HandOver, Enqueue, HandOverRefused, Refuse, GiveFloorBack, Shutdown, Close,
       Deliver, TakeReport, Outside, Environment, Tick, LinkBreaks,
       ServiceOpensNamespace, ServiceApplies, vars, transportVars, workerVars
  <2> QED
    BY <2>1 DEF NoStaleWrite
<1> QED
  BY <1>1, <1>2, <1>3, <1>4 DEF Next, Worker, Finished

\* R9.1: nothing is written that was older than the maximum age when the
\* worker read the clock, although ages are computed in unsigned arithmetic.
THEOREM WritesAreFresh == Spec => []NoStaleWrite
<1>1. SystemInit => NoStaleWrite
  BY DEF SystemInit, TransportInit, NoStaleWrite
<1> QED
  BY <1>1, FreshKept, SystemInvariant, PTL DEF Spec

-----------------------------------------------------------------------------
(* What a result says is so.                                                *)

\* An answer that reports a selected floor is on its way only when the
\* service has selected it.
Truthful(m) == m.kind \in {"success", "duplicate"} => m.id \in applied
AllTruthful(messages) == \A i \in 1 .. Len(messages) : Truthful(messages[i])

\* What is on the way to the service was written.
AllWritten(packets) ==
  \A i \in 1 .. Len(packets) :
    packets[i].kind = "write" => packets[i].id \in Range(written)

TruthInv ==
  /\ AllTruthful(inbox) /\ AllTruthful(rx) /\ AllWritten(wire)
  /\ applied \subseteq Range(written)
  /\ \A id \in Ids :
       /\ fate[id] \in {"success", "duplicate"} => id \in applied
       /\ fate[id] = "expired" => id \notin Range(written)

\* A refused request is not accepted later, and stays refused in its visit.
RefusedInv ==
  /\ \A id \in Ids : issued[id] # Absent /\ id[1] = visit.id
       => visit.commands[id] # Absent
  /\ \A id \in rejected :
       /\ id \notin Range(accepted) /\ issued[id] # Absent
       /\ id[1] = visit.id => visit.commands[id].state = "rejected"

LEMMA TruthfulParts ==
  ASSUME NEW s \in Seq(Message), NEW t \in Seq(Message),
         AllTruthful(s), AllTruthful(t)
  PROVE  /\ AllTruthful(<<>>) /\ AllTruthful(s \o t)
         /\ s # <<>> => Truthful(Head(s)) /\ AllTruthful(Tail(s))
         /\ \A m \in Message : Truthful(m) => AllTruthful(Append(s, m))
<1>1. AllTruthful(<<>>)
  BY DEF AllTruthful
<1>2. AllTruthful(s \o t)
  <2>1. /\ Len(s) \in Nat /\ Len(t) \in Nat /\ Len(s \o t) = Len(s) + Len(t)
        /\ \A i \in 1 .. Len(s) + Len(t) :
             (s \o t)[i] = IF i <= Len(s) THEN s[i] ELSE t[i - Len(s)]
    BY ConcatProperties, LenProperties
  <2>2. ASSUME NEW i \in 1 .. Len(s \o t)
        PROVE  Truthful((s \o t)[i])
    <3>1. CASE i <= Len(s)
      BY <2>1, <3>1 DEF AllTruthful
    <3>2. CASE ~(i <= Len(s))
      <4>1. i - Len(s) \in 1 .. Len(t)
        BY <2>1, <3>2
      <4> QED
        BY <2>1, <3>2, <4>1 DEF AllTruthful
    <3> QED
      BY <3>1, <3>2
  <2> QED
    BY <2>2 DEF AllTruthful
<1>3. ASSUME s # <<>>
      PROVE  Truthful(Head(s)) /\ AllTruthful(Tail(s))
  <2>1. /\ Head(s) = s[1] /\ 1 \in 1 .. Len(s) /\ Len(s) \in Nat
        /\ Len(Tail(s)) = Len(s) - 1
        /\ \A i \in 1 .. Len(Tail(s)) : Tail(s)[i] = s[i + 1]
    BY <1>3, HeadIsFirst
  <2>2. \A i \in 1 .. Len(Tail(s)) : i + 1 \in 1 .. Len(s)
    BY <2>1
  <2> QED
    BY <2>1, <2>2 DEF AllTruthful
<1>4. ASSUME NEW m \in Message, Truthful(m)
      PROVE  AllTruthful(Append(s, m))
  <2>1. /\ Len(Append(s, m)) = Len(s) + 1 /\ Len(s) \in Nat
        /\ \A i \in 1 .. Len(s) : Append(s, m)[i] = s[i]
        /\ Append(s, m)[Len(s) + 1] = m
    BY AppendedSeq, LenProperties
  <2>2. \A i \in 1 .. Len(Append(s, m)) : i \in 1 .. Len(s) \/ i = Len(s) + 1
    BY <2>1
  <2> QED
    BY <1>4, <2>1, <2>2 DEF AllTruthful
<1> QED
  BY <1>1, <1>2, <1>3, <1>4

LEMMA WrittenParts ==
  ASSUME NEW s \in Seq(Packet), AllWritten(s)
  PROVE  /\ AllWritten(<<>>)
         /\ s # <<>> => /\ AllWritten(Tail(s))
                        /\ Head(s).kind = "write" => Head(s).id \in Range(written)
         /\ \A m \in Packet : (m.kind = "write" => m.id \in Range(written))
              => AllWritten(Append(s, m))
<1>1. AllWritten(<<>>)
  BY DEF AllWritten
<1>2. ASSUME s # <<>>
      PROVE  /\ AllWritten(Tail(s))
             /\ Head(s).kind = "write" => Head(s).id \in Range(written)
  <2>1. /\ Head(s) = s[1] /\ 1 \in 1 .. Len(s) /\ Len(s) \in Nat
        /\ Len(Tail(s)) = Len(s) - 1
        /\ \A i \in 1 .. Len(Tail(s)) : Tail(s)[i] = s[i + 1]
    BY <1>2, HeadIsFirst
  <2>2. \A i \in 1 .. Len(Tail(s)) : i + 1 \in 1 .. Len(s)
    BY <2>1
  <2> QED
    BY <2>1, <2>2 DEF AllWritten
<1>3. ASSUME NEW m \in Packet, m.kind = "write" => m.id \in Range(written)
      PROVE  AllWritten(Append(s, m))
  <2>1. /\ Len(Append(s, m)) = Len(s) + 1 /\ Len(s) \in Nat
        /\ \A i \in 1 .. Len(s) : Append(s, m)[i] = s[i]
        /\ Append(s, m)[Len(s) + 1] = m
    BY AppendedSeq, LenProperties
  <2>2. \A i \in 1 .. Len(Append(s, m)) : i \in 1 .. Len(s) \/ i = Len(s) + 1
    BY <2>1
  <2> QED
    BY <1>3, <2>1, <2>2 DEF AllWritten
<1> QED
  BY <1>1, <1>2, <1>3

\* The channels under a step that neither writes nor selects a floor.
LEMMA ChannelsKept ==
  ASSUME applied' = applied, written' = written,
         AllTruthful(inbox'), AllTruthful(rx'), AllWritten(wire')
  PROVE  AllTruthful(inbox)' /\ AllTruthful(rx)' /\ AllWritten(wire)'
BY DEF AllTruthful, Truthful, AllWritten

\* The worker's steps that give no result and write nothing.
LEMMA QuietTruth ==
  ASSUME SystemInv, TruthInv,
         Connect \/ Exit \/ LeaveLoop \/ RecvNothing \/ RecvClose \/ RecvOpen
           \/ RecvNamespace \/ RecvStaleAck \/ ReadClock \/ WriteNothing
           \/ WriteFails \/ PollRead \/ PollFails \/ Disconnect
  PROVE  TruthInv'
<1>1. /\ rx \in Seq(Message) /\ inbox \in Seq(Message) /\ wire \in Seq(Packet)
      /\ [kind |-> "open"] \in Message /\ [kind |-> "connect"] \in Packet
  BY DEF SystemInv, TransportInv, TransportTypeOK, Message, Packet
<1>2. /\ AllTruthful(rx) /\ AllTruthful(inbox) /\ AllWritten(wire)
      /\ AllTruthful(<<>>) /\ AllTruthful(rx \o inbox) /\ AllWritten(<<>>)
      /\ rx # <<>> => AllTruthful(Tail(rx))
      /\ AllWritten(Append(wire, [kind |-> "connect"]))
  BY <1>1, TruthfulParts, WrittenParts DEF TruthInv
<1>3. AllTruthful(<<[kind |-> "open"]>>)
  BY DEF AllTruthful, Truthful
<1>4. /\ applied' = applied /\ written' = written /\ fate' = fate
      /\ inbox' \in {inbox, <<>>, <<[kind |-> "open"]>>}
      /\ rx' \in {rx, <<>>, rx \o inbox} \/ (rx # <<>> /\ rx' = Tail(rx))
      /\ wire' \in {wire, <<>>, Append(wire, [kind |-> "connect"])}
  BY DEF Connect, Exit, LeaveLoop, RecvNothing, RecvClose, RecvOpen, RecvNamespace,
     RecvStaleAck, ReadClock, WriteNothing, WriteFails, PollRead, PollFails,
     Disconnect, networkVars
<1>5. AllTruthful(inbox)' /\ AllTruthful(rx)' /\ AllWritten(wire)'
  <2>1. AllTruthful(inbox') /\ AllTruthful(rx') /\ AllWritten(wire')
    BY <1>2, <1>3, <1>4
  <2> QED
    BY <2>1, <1>4, ChannelsKept
<1> QED
  BY <1>4, <1>5 DEF TruthInv

\* A result that ends the command in flight.
LEMMA SettleTruth ==
  ASSUME SystemInv, TruthInv, inFlight # None, NEW result \in Fates \ {"expired"},
         Settle(result),
         result \in {"success", "duplicate"} => inFlight.id \in applied,
         UNCHANGED <<inbox, wire, applied, written>>,
         rx' = rx \/ (rx # <<>> /\ rx' = Tail(rx))
  PROVE  TruthInv'
<1>1. /\ rx \in Seq(Message) /\ inbox \in Seq(Message)
      /\ fate \in [Ids -> Fates \cup {None}] /\ inFlight.id \in Ids
  BY SystemAssumption DEF SystemInv, TransportInv, TransportTypeOK, InFlight
<1>2. AllTruthful(inbox)' /\ AllTruthful(rx)' /\ AllWritten(wire)'
  <2>1. rx # <<>> => AllTruthful(Tail(rx))
    BY <1>1, TruthfulParts DEF TruthInv
  <2>2. AllTruthful(inbox') /\ AllTruthful(rx') /\ AllWritten(wire')
    BY <2>1 DEF TruthInv
  <2> QED
    BY <2>2, ChannelsKept
<1>3. ASSUME NEW id \in Ids
      PROVE  /\ fate'[id] \in {"success", "duplicate"} => id \in applied
             /\ fate'[id] = "expired" => id \notin Range(written)
  <2>1. fate'[id] = IF id = inFlight.id THEN result ELSE fate[id]
    BY <1>1 DEF Settle
  <2> QED
    BY <2>1 DEF TruthInv
<1> QED
  BY <1>2, <1>3 DEF TruthInv

\* What expires was never written: it was still in the queue, with nothing in
\* flight.
LEMMA PickTruth ==
  ASSUME SystemInv, LineInv, TruthInv, Pick
  PROVE  TruthInv'
<1>1. TransportInv
  BY DEF SystemInv
<1>2. PICK k \in 0 .. Len(queue) :
        fate' = [r \in Request |->
                   IF \E i \in 1 .. k : queue[i].id = r THEN "expired" ELSE fate[r]]
  BY DEF Pick
<1>3. inFlight = None /\ Len(queue) \in Nat /\ Len(accepted) \in Nat
      /\ Len(queue) <= Len(accepted) /\ Behind = Len(accepted) - Len(queue)
      /\ written \in Seq(Ids)
  BY <1>1, Types DEF Pick, At, TransportInv, HeadInv, Behind, LineInv, QueueIsSuffix
<1>4. ASSUME NEW i \in 1 .. Len(queue)
      PROVE  queue[i].id \notin Range(written)
  <2> SUFFICES ASSUME NEW j \in 1 .. Len(written), written[j] = queue[i].id
               PROVE  FALSE
    BY <1>3, LenProperties DEF Range
  <2>1. PICK m \in 1 .. Behind : accepted[m] = written[j]
    BY DEF LineInv, WrittenInv
  <2>2. queue[i].id = accepted[Len(accepted) - Len(queue) + i]
    BY DEF LineInv, QueueIsSuffix
  <2>3. /\ m \in 1 .. Len(accepted)
        /\ Len(accepted) - Len(queue) + i \in 1 .. Len(accepted)
        /\ m # Len(accepted) - Len(queue) + i
    BY <1>3
  <2> QED
    BY <2>1, <2>2, <2>3 DEF LineInv, Distinct
<1>5. /\ UNCHANGED <<inbox, rx, wire, applied, written>>
  BY DEF Pick, networkVars
<1>6. ASSUME NEW id \in Ids
      PROVE  /\ fate'[id] \in {"success", "duplicate"} => id \in applied
             /\ fate'[id] = "expired" => id \notin Range(written)
  <2>1. CASE \E i \in 1 .. k : queue[i].id = id
    <3>1. PICK i \in 1 .. k : queue[i].id = id
      BY <2>1
    <3>2. i \in 1 .. Len(queue)
      BY <1>3
    <3>3. fate'[id] = "expired"
      BY <2>1, <1>2, SystemAssumption
    <3> QED
      BY <3>1, <3>2, <3>3, <1>4
  <2>2. CASE ~\E i \in 1 .. k : queue[i].id = id
    BY <2>2, <1>2, SystemAssumption DEF TruthInv
  <2> QED
    BY <2>1, <2>2
<1>7. AllTruthful(inbox)' /\ AllTruthful(rx)' /\ AllWritten(wire)'
  BY <1>5 DEF TruthInv, AllTruthful, Truthful, AllWritten
<1> QED
  BY <1>5, <1>6, <1>7 DEF TruthInv

\* What is written has no result yet.
LEMMA WriteTruth ==
  ASSUME SystemInv, LineInv, TruthInv, WriteCommand
  PROVE  TruthInv'
<1> DEFINE packet == [kind |-> "write", id |-> picked.id, ack |-> nextAck]
<1>1. /\ picked \in Queued /\ picked.id \in Ids /\ written \in Seq(Ids)
      /\ wire \in Seq(Packet) /\ packet \in Packet /\ packet.id = picked.id
      /\ queue # <<>> /\ Head(queue) = picked /\ queue \in Seq(Queued)
  BY SystemAssumption
     DEF WriteCommand, SystemInv, TransportInv, TransportTypeOK, HeadInv, Packet, Queued
<1>2. /\ written' = Append(written, picked.id)
      /\ wire' \in {wire, Append(wire, packet)}
      /\ UNCHANGED <<inbox, rx, applied, fate>>
  BY DEF WriteCommand
<1> HIDE DEF packet
<1>3. Range(written') = Range(written) \cup {picked.id}
  BY <1>1, <1>2, AppendedSeq
<1>4. fate[picked.id] = None
  BY <1>1, HeadIsFirst DEF LineInv, FateInv
<1>5. AllWritten(wire)'
  <2>1. ASSUME NEW i \in 1 .. Len(wire'), wire'[i].kind = "write"
        PROVE  wire'[i].id \in Range(written')
    <3>1. CASE wire' = wire
      BY <2>1, <3>1, <1>3 DEF TruthInv, AllWritten
    <3>2. CASE wire' = Append(wire, packet)
      <4>1. /\ Len(wire') = Len(wire) + 1 /\ Len(wire) \in Nat
            /\ \A j \in 1 .. Len(wire) : wire'[j] = wire[j]
            /\ wire'[Len(wire) + 1] = packet
        BY <3>2, <1>1, AppendedSeq, LenProperties
      <4>2. i \in 1 .. Len(wire) \/ i = Len(wire) + 1
        BY <4>1
      <4> QED
        BY <2>1, <4>1, <4>2, <1>1, <1>3 DEF TruthInv, AllWritten
    <3> QED
      BY <3>1, <3>2, <1>2
  <2> QED
    BY <2>1 DEF AllWritten
<1>6. AllTruthful(inbox)' /\ AllTruthful(rx)'
  BY <1>2 DEF TruthInv, AllTruthful, Truthful
<1>7. \A id \in Ids : /\ fate'[id] \in {"success", "duplicate"} => id \in applied'
                      /\ fate'[id] = "expired" => id \notin Range(written')
  BY <1>2, <1>3, <1>4, NoneAssumption DEF TruthInv, Fates
<1> QED
  BY <1>2, <1>3, <1>5, <1>6, <1>7 DEF TruthInv

\* The service selects a floor only for what was written, and says so only
\* then.
LEMMA ServiceTruth ==
  ASSUME SystemInv, TruthInv, ServiceApplies
  PROVE  TruthInv'
<1>1. /\ wire \in Seq(Packet) /\ wire # <<>> /\ Head(wire).kind = "write"
      /\ wire' = Tail(wire) /\ UNCHANGED <<rx, written, fate>>
      /\ inbox \in Seq(Message) /\ rx \in Seq(Message)
  BY DEF ServiceApplies, SystemInv, TransportInv, TransportTypeOK, workerVars
<1>2. AllWritten(wire)' /\ Head(wire).id \in Range(written)
  <2>1. AllWritten(Tail(wire)) /\ Head(wire).id \in Range(written)
    BY <1>1, WrittenParts DEF TruthInv
  <2> QED
    BY <2>1, <1>1 DEF AllWritten
<1>3. PICK done \in BOOLEAN, answer \in SUBSET Replies :
        /\ \A kind \in answer : kind \in {"success", "duplicate"} => done
        /\ applied' = IF done THEN applied \cup {Head(wire).id} ELSE applied
        /\ inbox' = IF ~linkUp \/ answer = {} THEN inbox
                    ELSE Append(inbox, [id |-> Head(wire).id, ack |-> Head(wire).ack,
                                        kind |-> CHOOSE kind \in answer : TRUE])
  BY DEF ServiceApplies
<1>4. /\ applied \subseteq applied' /\ applied' \subseteq Range(written')
  BY <1>1, <1>2, <1>3 DEF TruthInv
<1>5. AllTruthful(rx)'
  BY <1>1, <1>4 DEF TruthInv, AllTruthful, Truthful
<1>6. AllTruthful(inbox)'
  <2>1. CASE ~linkUp \/ answer = {}
    BY <2>1, <1>3, <1>4 DEF TruthInv, AllTruthful, Truthful
  <2>2. CASE linkUp /\ answer # {}
    <3> DEFINE kind == CHOOSE x \in answer : TRUE
               m == [id |-> Head(wire).id, ack |-> Head(wire).ack, kind |-> kind]
    <3>1. inbox' = Append(inbox, m) /\ kind \in answer
      BY <2>2, <1>3
    <3>2. m.kind \in {"success", "duplicate"} => m.id \in applied'
      <4> HIDE DEF kind
      <4> QED
        BY <3>1, <1>3
    <3> HIDE DEF m
    <3>3. /\ Len(inbox') = Len(inbox) + 1 /\ Len(inbox) \in Nat
          /\ \A i \in 1 .. Len(inbox) : inbox'[i] = inbox[i]
          /\ inbox'[Len(inbox) + 1] = m
      <4>1. /\ Len(inbox) \in Nat
            /\ \A x : /\ Len(Append(inbox, x)) = Len(inbox) + 1
                      /\ \A i \in 1 .. Len(inbox) : Append(inbox, x)[i] = inbox[i]
                      /\ Append(inbox, x)[Len(inbox) + 1] = x
        BY <1>1
      <4> QED
        BY <4>1, <3>1
    <3>4. \A i \in 1 .. Len(inbox') : i \in 1 .. Len(inbox) \/ i = Len(inbox) + 1
      BY <3>3
    <3> QED
      BY <3>2, <3>3, <3>4, <1>4 DEF TruthInv, AllTruthful, Truthful
  <2> QED
    BY <2>1, <2>2
<1> QED
  BY <1>1, <1>2, <1>4, <1>5, <1>6 DEF TruthInv

LEMMA TruthKept ==
  ASSUME SystemInv, LineInv, TruthInv, [Next]_vars
  PROVE  TruthInv'
<1>1. CASE RecvAck
  <2>1. /\ inFlight # None /\ Verdict(Head(rx)) \in Fates \ {"expired"}
        /\ Settle(Verdict(Head(rx))) /\ rx # <<>> /\ rx' = Tail(rx)
        /\ UNCHANGED <<inbox, wire, applied, written>>
    BY <1>1, TransportAssumption DEF RecvAck, Answers, Verdict, Fates, networkVars
  <2>2. Truthful(Head(rx))
    BY <2>1, TruthfulParts DEF SystemInv, TransportInv, TransportTypeOK, TruthInv
  <2>3. Verdict(Head(rx)) \in {"success", "duplicate"} => inFlight.id \in applied
    BY <2>2 DEF Verdict, Truthful
  <2> QED
    BY <2>1, <2>3, SettleTruth
<1>2. CASE CheckTimeout
  <2>1. UNCHANGED <<inbox, rx, wire, applied, written>>
    BY <1>2 DEF CheckTimeout, networkVars
  <2>2. CASE TimedOut
    BY <1>2, <2>1, <2>2, SettleTruth DEF CheckTimeout, TimedOut, Fates
  <2>3. CASE ~TimedOut
    BY <1>2, <2>1, <2>3, ChannelsKept DEF CheckTimeout, TruthInv
  <2> QED
    BY <2>2, <2>3
<1>3. CASE AbandonInFlight
  BY <1>3, SettleTruth DEF AbandonInFlight, Fates, networkVars
<1>4. CASE ServiceOpensNamespace
  <2>1. /\ wire # <<>> /\ wire' = Tail(wire)
        /\ inbox' \in {inbox, Append(inbox, [kind |-> "namespace"])}
        /\ UNCHANGED <<rx, applied, written, fate>>
    BY <1>4 DEF ServiceOpensNamespace, workerVars
  <2>2. /\ [kind |-> "namespace"] \in Message /\ Truthful([kind |-> "namespace"])
        /\ rx \in Seq(Message) /\ inbox \in Seq(Message) /\ wire \in Seq(Packet)
    BY DEF Message, Truthful, SystemInv, TransportInv, TransportTypeOK
  <2>3. /\ AllTruthful(Append(inbox, [kind |-> "namespace"])) /\ AllWritten(Tail(wire))
    BY <2>1, <2>2, TruthfulParts, WrittenParts DEF TruthInv
  <2>4. AllTruthful(inbox') /\ AllTruthful(rx') /\ AllWritten(wire')
    BY <2>1, <2>3 DEF TruthInv
  <2> QED
    BY <2>1, <2>4, ChannelsKept DEF TruthInv
<1>5. CASE FrameStep \/ Deliver \/ Tick \/ LinkBreaks \/ UNCHANGED vars
  <2>1. UNCHANGED <<inbox, rx, wire, applied, written, fate>>
    BY <1>5 DEF FrameStep, FramePresent, FrameEmpty, ConfirmSuppressed, ConfirmQueued,
       HandOver, Enqueue, HandOverRefused, Refuse, GiveFloorBack, Shutdown, Close,
       Deliver, TakeReport, Tick, LinkBreaks, vars, transportVars, workerVars, networkVars
  <2> QED
    BY <2>1, ChannelsKept DEF TruthInv
<1> QED
  BY <1>1, <1>2, <1>3, <1>4, <1>5, QuietTruth, PickTruth, WriteTruth, ServiceTruth
     DEF Next, Worker, WorkerStep, Outside, Environment, Finished

\* The requests of the coordinator under a step of the frame thread that
\* makes none.
LEMMA QuietRefused ==
  ASSUME SystemInv, RefusedInv, QuietVisit, UNCHANGED <<accepted, issued, rejected>>
  PROVE  RefusedInv'
<1>1. \A id \in Ids : issued[id] # Absent => id[1] < nextVisit /\ id[1] \in Int /\ id[1] >= 1
  BY CoordinatorAssumption DEF SystemInv, IssuedInv, Ids
<1>2. rejected \subseteq Ids /\ nextVisit \in Int
  BY DEF SystemInv, HistoryTypeOK, CoordinatorInv, CoordinatorTypeOK
<1>3. \A id \in Ids : issued[id] # Absent /\ id[1] = visit'.id =>
        visit'.id = visit.id /\ visit'.commands = visit.commands
  BY <1>1, <1>2 DEF QuietVisit
<1> QED
  BY <1>2, <1>3 DEF RefusedInv

LEMMA RefusedKept ==
  ASSUME SystemInv, RefusedInv, [Next]_vars
  PROVE  RefusedInv'
<1>0. CoordinatorInv /\ clock \in Nat /\ rejected \subseteq Ids
  BY TransportAssumption
     DEF SystemInv, TransportInv, TransportTypeOK, HistoryTypeOK
<1>1. CASE FramePresent
  BY <1>0, <1>1, PresentPreserves, QuietRefused DEF FramePresent, transportVars, frameVars
<1>2. CASE FrameEmpty
  BY <1>0, <1>2, EmptyPreserves, QuietRefused DEF FrameEmpty, transportVars, frameVars
<1>3. ASSUME NEW rid \in Residents, NEW floor \in HomeFloors[rid],
             ConfirmSuppressed(rid, floor)
      PROVE  RefusedInv'
  BY <1>0, <1>3, SystemAssumption, SuppressPreserves, QuietRefused
     DEF ConfirmSuppressed, transportVars, frameVars
<1>4. ASSUME NEW rid \in Residents, NEW floor \in HomeFloors[rid],
             ConfirmQueued(rid, floor)
      PROVE  RefusedInv'
  <2> DEFINE record == [rid |-> rid, floor |-> floor, state |-> "queued"]
             new == NextId
  <2>1. /\ new \in Ids /\ new[1] = visit'.id /\ Started.commands[new] = Absent
        /\ visit'.commands = [Started.commands EXCEPT ![new] = record]
        /\ \/ visit'.id = visit.id /\ visit.commands = Started.commands
           \/ visit'.id = nextVisit /\ Started.commands = [i \in Ids |-> Absent]
    BY <1>0, <1>4, SystemAssumption, ReservePreserves DEF ConfirmQueued
  <2>2. /\ accepted' = accepted /\ rejected' = rejected
        /\ \A id \in Ids : id # new => issued'[id] = issued[id]
        /\ issued'[new] # Absent
    <3>1. /\ issued' = [issued EXCEPT ![new] = [rid |-> rid, floor |-> floor]]
          /\ accepted' = accepted /\ rejected' = rejected
      BY <1>4 DEF ConfirmQueued, transportVars
    <3>2. [rid |-> rid, floor |-> floor] # Absent /\ DOMAIN issued = Ids
      BY SystemAssumption DEF SystemInv, HistoryTypeOK
    <3> QED
      BY <2>1, <3>1, <3>2
  <2>3. record # Absent /\ DOMAIN Started.commands = Ids
    <3>1. record \in Entry
      BY SystemAssumption DEF Entry, CommandStates
    <3>2. DOMAIN Started.commands = Ids
      BY <1>0, <1>4, StartedShape DEF ConfirmQueued, Reserve, Visit
    <3> QED
      BY <3>1, <3>2, AbsentAssumption
  <2> HIDE DEF new, record
  <2>4. /\ visit'.commands[new] # Absent
        /\ \A id \in Ids : id # new => visit'.commands[id] = Started.commands[id]
    BY <2>1, <2>3
  <2>5. \A id \in Ids : issued[id] # Absent => id[1] < nextVisit
    BY DEF SystemInv, IssuedInv
  <2>6. nextVisit \in Int /\ \A id \in Ids : id[1] \in Int
    BY <1>0, CoordinatorAssumption DEF CoordinatorInv, CoordinatorTypeOK, Ids
  <2>7. ASSUME NEW id \in Ids, issued[id] # Absent, id[1] = visit'.id
        PROVE  /\ visit.commands = Started.commands /\ id[1] = visit.id
               /\ visit.commands[id] # Absent /\ id # new
               /\ visit'.commands[id] = visit.commands[id]
    <3>1. visit.commands = Started.commands /\ visit'.id = visit.id
      BY <2>1, <2>5, <2>6, <2>7
    <3>2. visit.commands[id] # Absent
      BY <2>7, <3>1 DEF RefusedInv
    <3> QED
      BY <2>1, <2>4, <2>7, <3>1, <3>2
  <2> QED
    BY <1>0, <2>2, <2>4, <2>7 DEF RefusedInv
<1>5. CASE HandOver
  <2>1. /\ visit' = visit /\ issued' = issued /\ rejected' = rejected
        /\ pending \in Ids /\ pending[1] = visit.id
        /\ visit.commands[pending].state = "queued"
    BY <1>5 DEF HandOver, coordinatorVars, SystemInv, HandOverInv
  <2>2. Range(accepted') = Range(accepted) \cup {pending}
    BY <1>5, <2>1, EnqueuePreserves, SystemAssumption DEF SystemInv, HandOver
  <2>3. pending \notin rejected
    BY <2>1 DEF RefusedInv
  <2> QED
    BY <2>1, <2>2, <2>3 DEF RefusedInv
<1>6. CASE GiveFloorBack
  <2>1. /\ pending \in Ids /\ pending[1] = visit.id /\ pending \notin Range(accepted)
        /\ visit.commands[pending] # Absent /\ visit.commands[pending].state = "queued"
        /\ OnTransportState(pending, "rejected") /\ "rejected" \in CommandStates
        /\ rejected' = rejected \cup {pending} /\ issued' = issued /\ accepted' = accepted
    BY <1>6 DEF GiveFloorBack, SystemInv, HandOverInv, transportVars, CommandStates,
       TerminalStates
  <2>2. /\ visit'.id = visit.id
        /\ \A i \in Ids : i # pending => visit'.commands[i] = visit.commands[i]
        /\ visit'.commands[pending] # Absent
    BY <1>0, <2>1, ReportPreserves
  <2>3. visit'.commands[pending].state = "rejected"
    BY <1>0, <2>1
       DEF OnTransportState, Open, TerminalStates, Outcomes, CoordinatorInv,
           CoordinatorTypeOK, Visit, Entry
  <2>4. issued[pending] # Absent
    BY <2>1 DEF SystemInv, IssuedInv
  <2> QED
    BY <1>0, <2>1, <2>2, <2>3, <2>4 DEF RefusedInv
<1>7. CASE Deliver
  <2> DEFINE id == Head(reports).id
  <2>1. /\ id \in Ids /\ id \in Range(accepted) /\ accepted' = accepted
        /\ Head(reports).state \in CommandStates
        /\ OnTransportState(id, Head(reports).state)
        /\ rejected' = rejected /\ issued' = issued
    BY <1>7, TakeReportPreserves, SystemAssumption
       DEF SystemInv, Deliver, Fates, CommandStates, TerminalStates, Outcomes, frameVars
  <2> HIDE DEF id
  <2>2. /\ visit'.id = visit.id
        /\ \A i \in Ids : i # id => visit'.commands[i] = visit.commands[i]
        /\ visit'.commands[id] # Absent <=> visit.commands[id] # Absent
    BY <1>0, <2>1, ReportPreserves
  <2> QED
    BY <1>0, <2>1, <2>2 DEF RefusedInv
<1>8. CASE \/ HandOverRefused \/ Shutdown \/ Outside \/ UNCHANGED vars
           \/ WorkerStep /\ UNCHANGED <<coordinatorVars, frameVars>>
  <2>1. /\ visit' = visit /\ issued' = issued /\ rejected' = rejected
    BY <1>8 DEF HandOverRefused, Shutdown, Outside, vars, coordinatorVars, frameVars
  <2>2. accepted' = accepted
    BY <1>8, WorkerPreserves, EnvironmentPreserves
       DEF SystemInv, HandOverRefused, Refuse, Shutdown, Close, Outside, vars,
           transportVars
  <2> QED
    BY <2>1, <2>2 DEF RefusedInv
<1>9. CASE FrameStep
  <2>1. CASE \E rid \in Residents : \E floor \in HomeFloors[rid] :
               ConfirmSuppressed(rid, floor) \/ ConfirmQueued(rid, floor)
    BY <2>1, <1>3, <1>4
  <2>2. CASE HandOverRefused \/ Shutdown
    BY <2>2, <1>8
  <2> QED
    BY <1>9, <2>1, <2>2, <1>1, <1>2, <1>5, <1>6 DEF FrameStep
<1>10. CASE Worker
  BY <1>10, <1>8 DEF Worker
<1>11. CASE Outside \/ Finished \/ UNCHANGED vars
  BY <1>11, <1>8 DEF Finished
<1> QED
  BY <1>7, <1>9, <1>10, <1>11 DEF Next

(***************************************************************************)
(* At the start nothing has been issued, accepted or written.              *)
(***************************************************************************)
LEMMA TruthInit == SystemInit => TruthInv /\ RefusedInv
<1> SUFFICES ASSUME SystemInit
             PROVE  TruthInv /\ RefusedInv
  OBVIOUS
<1>1. /\ inbox = <<>> /\ rx = <<>> /\ wire = <<>> /\ applied = {} /\ rejected = {}
      /\ fate = [i \in Ids |-> None] /\ issued = [i \in Ids |-> Absent]
  BY SystemAssumption DEF SystemInit, TransportInit
<1>2. AllTruthful(inbox) /\ AllTruthful(rx) /\ AllWritten(wire)
  BY <1>1 DEF AllTruthful, AllWritten
<1>3. {"success", "duplicate", "expired"} \subseteq Fates
  BY DEF Fates
<1>4. \A id \in Ids : fate[id] \notin {"success", "duplicate", "expired"}
  BY <1>1, <1>3, NoneAssumption
<1> QED
  BY <1>1, <1>2, <1>4 DEF TruthInv, RefusedInv

(***************************************************************************)
(* A result is never attributed to the wrong request: success means that   *)
(* the service selected the floor, and an expired or refused request never *)
(* left the program.                                                       *)
(***************************************************************************)
THEOREM ResultsAreTruthful == Spec => []ResultTruthful
<1>1. SystemInv /\ LineInv /\ TruthInv /\ RefusedInv => ResultTruthful
  <2> SUFFICES ASSUME SystemInv, LineInv, TruthInv, RefusedInv
               PROVE  ResultTruthful
    OBVIOUS
  <2>1. Range(written) \subseteq Range(accepted)
    <3>1. ASSUME NEW i \in 1 .. Len(written)
          PROVE  \E m \in 1 .. Len(accepted) : accepted[m] = written[i]
      <4>1. PICK m \in 1 .. Behind : accepted[m] = written[i]
        BY DEF LineInv, WrittenInv
      <4>2. Behind <= Len(accepted) /\ Behind \in Int /\ Len(accepted) \in Nat
        BY Types DEF SystemInv, TransportInv, HeadInv, LineInv,
                     QueueIsSuffix, Behind
      <4> QED
        BY <4>1, <4>2
    <3>2. DOMAIN written = 1 .. Len(written) /\ DOMAIN accepted = 1 .. Len(accepted)
      BY Types, LenProperties DEF SystemInv
    <3> QED
      BY <3>1, <3>2 DEF Range
  <2>2. \A id \in rejected : id \notin Range(written) /\ id \notin applied
    BY <2>1 DEF RefusedInv, TruthInv
  <2>3. \A id \in Ids : fate[id] = "expired" =>
          id \notin Range(written) /\ id \notin applied
    BY DEF TruthInv
  <2> QED
    BY <2>2, <2>3 DEF ResultTruthful, TruthInv
<1> QED
  BY <1>1, TruthInit, TruthKept, RefusedKept, LineInvariant, SystemInvariant, PTL DEF Spec

-----------------------------------------------------------------------------
(* The coordinator keeps step with the worker.                              *)

\* What a record says once every result has been passed on.
ExpectedIn(fates, flight, id) ==
  IF fates[id] # None THEN fates[id]
  ELSE IF flight # None /\ flight.id = id THEN "sent" ELSE "queued"

Expected(id) == ExpectedIn(fate, inFlight, id)
ExpectedNext(id) == ExpectedIn(fate', inFlight', id)

Reporting == {reports[i].id : i \in 1 .. Len(reports)}

\* One result at a time is on its way for a request, it is the last one, and
\* the record is still open to it.
ReportsInv ==
  /\ \A i, j \in 1 .. Len(reports) : reports[i].id = reports[j].id => i = j
  /\ \A i \in 1 .. Len(reports) :
       /\ reports[i].state = Expected(reports[i].id)
       /\ visit.commands[reports[i].id] # Absent
            => visit.commands[reports[i].id].state \notin TerminalStates

StepInv ==
  /\ ReportsInv
  /\ \A id \in Range(accepted) :
       visit.commands[id] # Absent /\ id \notin Reporting
         => visit.commands[id].state = Expected(id)

LEMMA StepIsInStep == StepInv => CoordinatorInStep
  BY DEF StepInv, Reporting, Expected, ExpectedNext, ExpectedIn, CoordinatorInStep

LEMMA StepInit == SystemInit => StepInv
  BY DEF SystemInit, TransportInit, StepInv, ReportsInv, Range

\* A worker step that makes results of requests that had none.
LEMMA ReportedStep ==
  ASSUME SystemInv, StepInv, reports = <<>>, UNCHANGED <<visit, accepted>>,
         \A i, j \in 1 .. Len(reports') : reports'[i].id = reports'[j].id => i = j,
         \A i \in 1 .. Len(reports') :
           /\ reports'[i].id \in Range(accepted) /\ fate[reports'[i].id] = None
           /\ reports'[i].state = ExpectedNext(reports'[i].id),
         \A id \in Ids : ExpectedNext(id) # Expected(id) =>
           \E i \in 1 .. Len(reports') : reports'[i].id = id
  PROVE  StepInv'
<1>1. /\ Reporting = {} /\ visit' = visit /\ accepted' = accepted
      /\ Range(accepted) \subseteq Ids
  BY AcceptedAreIds DEF Reporting, SystemInv
<1>2. ASSUME NEW id \in Range(accepted), visit.commands[id] # Absent, fate[id] = None
      PROVE  visit.commands[id].state \in {"sent", "queued"}
  BY <1>1, <1>2 DEF StepInv, Expected, ExpectedNext, ExpectedIn
<1>3. ReportsInv'
  BY <1>1, <1>2 DEF ReportsInv, Expected, ExpectedNext, TerminalStates, Outcomes
<1>4. ASSUME NEW id \in Range(accepted), visit.commands[id] # Absent, id \notin Reporting'
      PROVE  visit.commands[id].state = ExpectedNext(id)
  <2>1. ExpectedNext(id) = Expected(id)
    BY <1>1, <1>4 DEF Reporting
  <2> QED
    BY <1>1, <1>4, <2>1 DEF StepInv
<1> QED
  BY <1>1, <1>3, <1>4 DEF StepInv, Expected, ExpectedNext

LEMMA SettleStep ==
  ASSUME SystemInv, LineInv, StepInv, reports = <<>>, inFlight # None,
         NEW result \in Fates, Settle(result), UNCHANGED <<visit, accepted>>
  PROVE  StepInv'
<1> DEFINE id == inFlight.id
<1>1. /\ id \in Ids /\ id \in Range(accepted) /\ fate[id] = None
      /\ fate \in [Ids -> Fates \cup {None}]
  <2>1. TransportInv
    BY DEF SystemInv
  <2>2. /\ queue # <<>> /\ Head(queue).id = id /\ queue \in Seq(Queued)
        /\ fate \in [Ids -> Fates \cup {None}]
    BY <2>1, Types DEF TransportInv, HeadInv
  <2>3. 1 \in 1 .. Len(queue) /\ queue[1] = Head(queue)
    BY <2>2, HeadIsFirst
  <2> QED
    BY <2>1, <2>2, <2>3, Types DEF LineInv, FateInv, TransportInv, KnownInv
<1>2. /\ fate' = [fate EXCEPT ![id] = result] /\ inFlight' = None
      /\ reports' = <<[id |-> id, state |-> result]>> /\ result # None
  BY NoneAssumption DEF Settle
<1> HIDE DEF id
<1>3. /\ Len(reports') = 1 /\ reports'[1].id = id /\ reports'[1].state = result
  BY <1>2
<1>4. ExpectedNext(id) = result
  BY <1>1, <1>2 DEF Expected, ExpectedNext, ExpectedIn
<1>5. ASSUME NEW i \in Ids, i # id
      PROVE  ExpectedNext(i) = Expected(i)
  BY <1>1, <1>2, <1>5 DEF Expected, ExpectedNext, ExpectedIn, id
<1> QED
  BY <1>1, <1>3, <1>4, <1>5, ReportedStep

LEMMA WriteStep ==
  ASSUME SystemInv, LineInv, StepInv, WriteCommand, visit' = visit
  PROVE  StepInv'
<1> DEFINE id == picked.id
<1>1. TransportInv /\ reports = <<>> /\ picked # None /\ accepted' = accepted
      /\ fate' = fate
  BY DEF SystemInv, WriteCommand, At
<1>2. /\ inFlight = None /\ queue # <<>> /\ Head(queue) = picked
      /\ queue \in Seq(Queued)
  BY <1>1, Types DEF TransportInv, HeadInv, WriteCommand, At
<1>3. 1 \in 1 .. Len(queue) /\ queue[1] = picked
  BY <1>2, HeadIsFirst
<1>4. id \in Ids /\ id \in Range(accepted) /\ fate[id] = None
  BY <1>1, <1>3, Types DEF LineInv, FateInv, TransportInv, KnownInv
<1>5. /\ inFlight' # None /\ inFlight'.id = id
      /\ reports' = <<[id |-> id, state |-> "sent"]>>
  <2>1. inFlight' \in InFlight
    BY <1>1, SystemAssumption
       DEF TransportInv, TransportTypeOK, WriteCommand, InFlight, Queued
  <2> QED
    BY <2>1, NoneAssumption DEF WriteCommand
<1> HIDE DEF id
<1>6. Len(reports') = 1 /\ reports'[1].id = id /\ reports'[1].state = "sent"
  BY <1>5
<1>7. ExpectedNext(id) = "sent"
  BY <1>1, <1>4, <1>5 DEF Expected, ExpectedNext, ExpectedIn
<1>8. ASSUME NEW i \in Ids, i # id
      PROVE  ExpectedNext(i) = Expected(i)
  BY <1>1, <1>2, <1>5, <1>8 DEF Expected, ExpectedNext, ExpectedIn
<1> QED
  BY <1>1, <1>4, <1>6, <1>7, <1>8, ReportedStep

LEMMA PickStep ==
  ASSUME SystemInv, LineInv, StepInv, Pick, visit' = visit
  PROVE  StepInv'
<1>1. /\ TransportInv /\ reports = <<>> /\ accepted' = accepted /\ inFlight' = inFlight
      /\ Len(queue) \in Nat
  BY Types DEF SystemInv, Pick, At
<1>2. PICK k \in 0 .. Len(queue) :
        /\ reports' = [i \in 1 .. k |-> [id |-> queue[i].id, state |-> "expired"]]
        /\ fate' = [r \in Ids |->
                      IF \E i \in 1 .. k : queue[i].id = r THEN "expired" ELSE fate[r]]
  BY SystemAssumption DEF Pick
<1>3. \A i \in 1 .. k : i \in 1 .. Len(queue)
  BY <1>1, <1>2
<1>4. /\ Len(reports') = k
      /\ \A i \in 1 .. k : reports'[i].id = queue[i].id /\ reports'[i].state = "expired"
  <2>1. DOMAIN reports' = 1 .. k /\ reports' \in Seq(Report)
    <3>1. TransportInv'
      BY <1>1, WorkerPreserves DEF WorkerStep
    <3> QED
      BY <1>2, <3>1 DEF TransportInv, TransportTypeOK
  <2>2. Len(reports') = k
    BY <1>1, <1>2, <2>1
  <2> QED
    BY <1>2, <2>2
<1>5. ASSUME NEW i \in 1 .. k, NEW j \in 1 .. k, reports'[i].id = reports'[j].id
      PROVE  i = j
  BY <1>1, <1>3, <1>4, <1>5, QueueDistinct
<1>6. ASSUME NEW i \in 1 .. k
      PROVE  /\ reports'[i].id \in Range(accepted) /\ fate[reports'[i].id] = None
             /\ reports'[i].state = ExpectedNext(reports'[i].id)
  <2>1. /\ queue[i].id \in Ids /\ queue[i].id \in Range(accepted)
        /\ fate[queue[i].id] = None
    BY <1>1, <1>3, <1>6, Types DEF LineInv, FateInv, TransportInv, KnownInv
  <2>2. fate'[queue[i].id] = "expired" /\ "expired" # None
    BY <1>2, <2>1, NoneAssumption DEF Fates
  <2> QED
    BY <1>4, <2>1, <2>2 DEF Expected, ExpectedNext, ExpectedIn
<1>7. ASSUME NEW id \in Ids, ExpectedNext(id) # Expected(id)
      PROVE  \E i \in 1 .. k : reports'[i].id = id
  <2>1. fate'[id] # fate[id]
    BY <1>1, <1>7 DEF Expected, ExpectedNext, ExpectedIn
  <2> QED
    BY <1>2, <1>4, <2>1
<1> QED
  BY <1>1, <1>4, <1>5, <1>6, <1>7, ReportedStep

\* The steps of the transport that make no result.
LEMMA SilentStep ==
  ASSUME StepInv, UNCHANGED <<visit, accepted, reports, fate, inFlight>>
  PROVE  StepInv'
  BY DEF StepInv, ReportsInv, Reporting, Expected, ExpectedNext, ExpectedIn

LEMMA WorkerKeepsStep ==
  ASSUME SystemInv, LineInv, StepInv, WorkerStep, visit' = visit
  PROVE  StepInv'
<1>1. CASE RecvAck
  <2>1. /\ inFlight # None /\ Verdict(Head(rx)) \in Fates
        /\ Settle(Verdict(Head(rx))) /\ reports = <<>> /\ accepted' = accepted
    BY <1>1, TransportAssumption DEF RecvAck, Answers, Verdict, Fates, At
  <2> QED
    BY <2>1, SettleStep
<1>2. CASE CheckTimeout
  <2>1. reports = <<>> /\ accepted' = accepted
    BY <1>2 DEF CheckTimeout, At
  <2>2. CASE TimedOut
    BY <1>2, <2>1, <2>2, SettleStep DEF CheckTimeout, TimedOut, Fates
  <2>3. CASE ~TimedOut
    BY <1>2, <2>1, <2>3, SilentStep DEF CheckTimeout
  <2> QED
    BY <2>2, <2>3
<1>3. CASE AbandonInFlight
  BY <1>3, SettleStep DEF AbandonInFlight, Fates, At
<1>4. CASE Pick
  BY <1>4, PickStep
<1>5. CASE WriteCommand
  BY <1>5, WriteStep
<1>6. CASE \/ Connect \/ Exit \/ LeaveLoop \/ RecvNothing \/ RecvClose \/ RecvOpen
           \/ RecvNamespace \/ RecvStaleAck \/ ReadClock \/ WriteNothing \/ WriteFails
           \/ PollRead \/ PollFails \/ Disconnect
  <2>1. UNCHANGED <<accepted, reports, fate, inFlight>>
    BY <1>6 DEF Connect, Exit, LeaveLoop, RecvNothing, RecvClose, RecvOpen,
       RecvNamespace, RecvStaleAck, ReadClock, WriteNothing, WriteFails, PollRead,
       PollFails, Disconnect
  <2> QED
    BY <2>1, SilentStep
<1> QED
  BY <1>1, <1>2, <1>3, <1>4, <1>5, <1>6 DEF WorkerStep

\* Records that are kept, or cleared with their visit.
LEMMA KeptRecords ==
  ASSUME SystemInv, StepInv, UNCHANGED <<accepted, reports, fate, inFlight>>,
         \A id \in Range(accepted) :
           visit'.commands[id] # Absent => visit'.commands[id] = visit.commands[id]
  PROVE  StepInv'
<1>1. \A i \in 1 .. Len(reports) : reports[i].id \in Range(accepted)
  BY DEF SystemInv, TransportInv, KnownInv
<1> QED
  BY <1>1 DEF StepInv, ReportsInv, Reporting, Expected, ExpectedNext, ExpectedIn

LEMMA QuietStep ==
  ASSUME SystemInv, StepInv, QuietVisit, UNCHANGED <<accepted, reports, fate, inFlight>>
  PROVE  StepInv'
<1>1. Range(accepted) \subseteq Ids
  BY AcceptedAreIds DEF SystemInv
<1> QED
  BY <1>1, KeptRecords DEF QuietVisit

LEMMA ReserveStep ==
  ASSUME SystemInv, StepInv, NEW rid \in Residents, NEW floor \in Floors,
         ConfirmQueued(rid, floor)
  PROVE  StepInv'
<1> DEFINE record == [rid |-> rid, floor |-> floor, state |-> "queued"]
           new == NextId
<1>1. CoordinatorInv /\ Range(accepted) \subseteq Ids
      /\ UNCHANGED <<accepted, reports, fate, inFlight>>
  BY AcceptedAreIds DEF SystemInv, ConfirmQueued, transportVars, workerVars
<1>2. /\ new \in Ids /\ new[1] = visit'.id /\ Started.commands[new] = Absent
      /\ visit'.commands = [Started.commands EXCEPT ![new] = record]
      /\ \/ visit'.id = visit.id /\ visit.commands = Started.commands
         \/ visit'.id = nextVisit /\ Started.commands = [i \in Ids |-> Absent]
  BY <1>1, ReservePreserves DEF ConfirmQueued
<1> HIDE DEF new, record
<1>3. new \notin Range(accepted)
  <2>1. \A a \in Range(accepted) :
          /\ a[1] < nextVisit /\ a[1] \in Int
          /\ a[1] = visit.id => visit.commands[a] # Absent
    BY <1>1, CoordinatorAssumption DEF SystemInv, AcceptedInv, IssuedInv, Ids
  <2>2. nextVisit \in Int
    BY <1>1, CoordinatorAssumption DEF CoordinatorInv, CoordinatorTypeOK
  <2> QED
    BY <1>2, <2>1, <2>2
<1>4. ASSUME NEW id \in Range(accepted), visit'.commands[id] # Absent
      PROVE  visit'.commands[id] = visit.commands[id]
  <2>1. visit'.commands[id] = Started.commands[id]
    BY <1>1, <1>2, <1>3
  <2> QED
    BY <1>1, <1>2, <1>4, <2>1
<1> QED
  BY <1>1, <1>4, KeptRecords

LEMMA HandOverStep ==
  ASSUME SystemInv, LineInv, StepInv, HandOver
  PROVE  StepInv'
<1>1. /\ visit' = visit /\ UNCHANGED <<reports, fate, inFlight>>
      /\ pending \in Ids /\ pending \notin Range(accepted)
      /\ visit.commands[pending].state = "queued"
  BY DEF HandOver, Enqueue, coordinatorVars, workerVars, SystemInv, HandOverInv
<1>2. Range(accepted') = Range(accepted) \cup {pending}
  BY <1>1, EnqueuePreserves, SystemAssumption DEF SystemInv, HandOver
<1>3. Expected(pending) = "queued"
  <2>1. inFlight # None => inFlight.id \in Range(accepted)
    <3>1. TransportInv
      BY DEF SystemInv
    <3>2. ASSUME inFlight # None
          PROVE  inFlight.id \in Range(accepted)
      <4>1. queue # <<>> /\ Head(queue).id = inFlight.id /\ queue \in Seq(Queued)
        BY <3>1, <3>2, Types DEF TransportInv, HeadInv
      <4>2. 1 \in 1 .. Len(queue) /\ queue[1] = Head(queue)
        BY <4>1, HeadIsFirst
      <4> QED
        BY <3>1, <4>1, <4>2 DEF TransportInv, KnownInv
    <3> QED
      BY <3>2
  <2>2. fate[pending] = None
    BY <1>1 DEF LineInv, FateInv
  <2> QED
    BY <1>1, <2>1, <2>2 DEF Expected, ExpectedNext, ExpectedIn
<1> QED
  BY <1>1, <1>2, <1>3
     DEF StepInv, ReportsInv, Reporting, Expected, ExpectedNext, ExpectedIn

LEMMA GiveBackStep ==
  ASSUME SystemInv, StepInv, GiveFloorBack
  PROVE  StepInv'
<1>1. /\ pending \in Ids /\ pending \notin Range(accepted)
      /\ OnTransportState(pending, "rejected") /\ "rejected" \in CommandStates
      /\ UNCHANGED <<accepted, reports, fate, inFlight>>
  BY DEF GiveFloorBack, SystemInv, HandOverInv, transportVars, workerVars, CommandStates,
     TerminalStates
<1>2. \A i \in Ids : i # pending => visit'.commands[i] = visit.commands[i]
  BY <1>1, ReportPreserves DEF SystemInv
<1>3. Range(accepted) \subseteq Ids
  BY AcceptedAreIds DEF SystemInv
<1> QED
  BY <1>1, <1>2, <1>3, KeptRecords

LEMMA DeliverStep ==
  ASSUME SystemInv, StepInv, Deliver
  PROVE  StepInv'
<1> DEFINE id == Head(reports).id
           state == Head(reports).state
<1>1. /\ id \in Ids /\ accepted' = accepted /\ state \in CommandStates
      /\ OnTransportState(id, state) /\ reports' = Tail(reports)
      /\ UNCHANGED <<fate, inFlight>> /\ Range(accepted) \subseteq Ids
  BY TakeReportPreserves, SystemAssumption, AcceptedAreIds
     DEF SystemInv, Deliver, TakeReport, Fates, CommandStates, TerminalStates, Outcomes
<1>2. /\ Head(reports) = reports[1] /\ 1 \in 1 .. Len(reports) /\ Len(reports) \in Nat
      /\ Len(reports') = Len(reports) - 1
      /\ \A i \in 1 .. Len(reports') : reports'[i] = reports[i + 1]
  <2>1. reports \in Seq(Report) /\ reports # <<>>
    BY DEF SystemInv, TransportInv, TransportTypeOK, Deliver, TakeReport
  <2> QED
    BY <1>1, <2>1, HeadIsFirst
<1>3. /\ \A i \in 1 .. Len(reports') : i + 1 \in 1 .. Len(reports) /\ i + 1 # 1
      /\ \A i \in 1 .. Len(reports) : i = 1 \/ (i - 1 \in 1 .. Len(reports')
                                                 /\ (i - 1) + 1 = i)
  BY <1>2
<1>4. state = Expected(id)
      /\ (visit.commands[id] # Absent => Open(id))
  BY <1>2 DEF StepInv, ReportsInv, Open
<1>5. \A i \in 1 .. Len(reports') : reports'[i].id # id
  BY <1>2, <1>3 DEF StepInv, ReportsInv
<1> HIDE DEF id, state
<1>6. /\ \A i \in Ids : i # id => visit'.commands[i] = visit.commands[i]
      /\ visit'.commands[id] # Absent <=> visit.commands[id] # Absent
  BY <1>1, ReportPreserves DEF SystemInv
<1>7. visit'.commands[id] # Absent => visit'.commands[id].state = state
  BY <1>1, <1>4, <1>6 DEF OnTransportState, SystemInv, CoordinatorInv,
     CoordinatorTypeOK, Visit, Entry
<1>8. \A i \in Ids : ExpectedNext(i) = Expected(i)
  BY <1>1 DEF Expected, ExpectedNext, ExpectedIn
<1>9. \A i \in 1 .. Len(reports') : reports'[i].id \in Ids
  BY <1>1, <1>2, <1>3 DEF SystemInv, TransportInv, KnownInv
<1>10. ReportsInv'
  <2>1. ASSUME NEW i \in 1 .. Len(reports'), NEW j \in 1 .. Len(reports'),
               reports'[i].id = reports'[j].id
        PROVE  i = j
    <3>1. /\ i + 1 \in 1 .. Len(reports) /\ j + 1 \in 1 .. Len(reports)
          /\ reports[i + 1].id = reports[j + 1].id
      BY <1>2, <1>3, <2>1
    <3>2. \A a, b \in 1 .. Len(reports) : reports[a].id = reports[b].id => a = b
      BY DEF StepInv, ReportsInv
    <3>3. i + 1 = j + 1
      BY <3>1, <3>2
    <3> QED
      BY <3>3
  <2>2. ASSUME NEW i \in 1 .. Len(reports')
        PROVE  /\ reports'[i].state = ExpectedNext(reports'[i].id)
               /\ visit.commands[reports'[i].id] # Absent
                    => visit.commands[reports'[i].id].state \notin TerminalStates
    BY <1>1, <1>2, <1>3, <1>8, <1>9 DEF StepInv, ReportsInv
  <2> QED
    BY <2>1, <2>2, <1>5, <1>6, <1>8, <1>9 DEF ReportsInv, Expected, ExpectedNext
<1>11. ASSUME NEW i \in Range(accepted), visit'.commands[i] # Absent, i \notin Reporting'
       PROVE  visit'.commands[i].state = Expected(i)
  <2>1. CASE i = id
    BY <2>1, <1>4, <1>7, <1>11
  <2>2. CASE i # id
    <3>1. i \notin Reporting
      <4> SUFFICES ASSUME NEW j \in 1 .. Len(reports), reports[j].id = i
                   PROVE  FALSE
        BY DEF Reporting
      <4>1. j # 1
        BY <1>2, <2>2 DEF id
      <4>2. j - 1 \in 1 .. Len(reports') /\ reports'[j - 1] = reports[j]
        BY <1>2, <1>3, <4>1
      <4> QED
        BY <1>11, <4>2 DEF Reporting
    <3> QED
      BY <1>1, <1>6, <1>11, <2>2, <3>1 DEF StepInv
  <2> QED
    BY <2>1, <2>2
<1> QED
  BY <1>1, <1>8, <1>10, <1>11 DEF StepInv, Expected, ExpectedNext

LEMMA FrameKeepsStep ==
  ASSUME SystemInv, LineInv, StepInv, FrameStep
  PROVE  StepInv'
<1>0. CoordinatorInv /\ clock \in Nat
  BY TransportAssumption DEF SystemInv, TransportInv, TransportTypeOK
<1>1. CASE FramePresent
  BY <1>0, <1>1, PresentPreserves, QuietStep DEF FramePresent, transportVars, workerVars
<1>2. CASE FrameEmpty
  BY <1>0, <1>2, EmptyPreserves, QuietStep DEF FrameEmpty, transportVars, workerVars
<1>3. CASE \E rid \in Residents : \E floor \in HomeFloors[rid] :
             ConfirmSuppressed(rid, floor) \/ ConfirmQueued(rid, floor)
  <2>1. PICK rid \in Residents :
          \E floor \in HomeFloors[rid] :
            ConfirmSuppressed(rid, floor) \/ ConfirmQueued(rid, floor)
    BY <1>3
  <2>2. PICK floor \in Floors : ConfirmSuppressed(rid, floor) \/ ConfirmQueued(rid, floor)
    BY <2>1, SystemAssumption
  <2>3. CASE ConfirmSuppressed(rid, floor)
    BY <1>0, <2>3, SuppressPreserves, QuietStep
       DEF ConfirmSuppressed, transportVars, workerVars
  <2>4. CASE ConfirmQueued(rid, floor)
    BY <2>4, ReserveStep
  <2> QED
    BY <2>2, <2>3, <2>4
<1>4. CASE HandOver
  BY <1>4, HandOverStep
<1>5. CASE GiveFloorBack
  BY <1>5, GiveBackStep
<1>6. CASE HandOverRefused \/ Shutdown
  BY <1>6, SilentStep
     DEF HandOverRefused, Shutdown, Refuse, Close, coordinatorVars, transportVars, workerVars
<1> QED
  BY <1>1, <1>2, <1>3, <1>4, <1>5, <1>6 DEF FrameStep

LEMMA StepKept ==
  ASSUME SystemInv, LineInv, StepInv, [Next]_vars
  PROVE  StepInv'
<1>1. CASE Worker
  BY <1>1, WorkerKeepsStep DEF Worker, coordinatorVars
<1>2. CASE Outside
  BY <1>2, SilentStep
     DEF Outside, Environment, Tick, LinkBreaks, ServiceOpensNamespace, ServiceApplies,
         coordinatorVars, workerVars
<1>3. CASE Finished \/ UNCHANGED vars
  BY <1>3, SilentStep DEF Finished, vars, coordinatorVars, transportVars, workerVars
<1> QED
  BY <1>1, <1>2, <1>3, FrameKeepsStep, DeliverStep DEF Next

(***************************************************************************)
(* When the worker holds no result of a request of the visit, the          *)
(* coordinator's record of it is the truth: no report was lost because it  *)
(* came before the record existed, or overwritten by a later one.          *)
(***************************************************************************)
THEOREM CoordinatorStaysInStep == Spec => []CoordinatorInStep
  BY StepInit, StepKept, StepIsInStep, LineInvariant, SystemInvariant, PTL DEF Spec
=============================================================================
