--------------------------- MODULE TrackingProofs ---------------------------
(***************************************************************************)
(* Theorems about GreedyTracker, for every set of residents and names,     *)
(* every number of tracks and every threshold, and about FaceTrackAssoc,   *)
(* for every cost matrix.                                                  *)
(*                                                                         *)
(* What goes wrong with this tracker would go wrong through the residents' *)
(* ids that the adapter keeps beside it, by track id: they outlive the     *)
(* track, and the ids of tracks that are gone come back from ghosts in the *)
(* middle of a frame.  So the inductive invariant says, besides what a     *)
(* track shows and has been tried against, that ids are below the next one *)
(* to be given out, that no two tracks or ghosts share one, and that the   *)
(* adapter has no resident for the id of a ghost (GoodGhost): a track that *)
(* takes over an id does not take over somebody's resident with it.        *)
(*                                                                         *)
(* That the assignment costs least is shown the way the Hungarian          *)
(* algorithm is meant to work. Its invariant, AssocInv, says what the      *)
(* potentials are: no pair's slack is negative, and the pairs taken have   *)
(* none. A search for a column knows the smallest slack of every column it *)
(* has not reached, and the columns it came through form a tree, whose     *)
(* depth the ranks of the invariant stand for: so the path back ends at    *)
(* the new row and leaves every row with one column. In the end the        *)
(* potentials bound the cost of any matching from below, and the result's  *)
(* is no more.                                                             *)
(***************************************************************************)
EXTENDS GreedyTracker, FaceTrackAssoc, FiniteSetTheorems, SequenceTheorems,
        WellFoundedInduction, TLAPS

(***************************************************************************)
(* The greedy tracker.                                                     *)
(***************************************************************************)

-----------------------------------------------------------------------------
(* Tracks by their fields.                                                  *)

TrackOf(id, state, hits, missed, name, since, who, current, triedAll) ==
  [id |-> id, state |-> state, hits |-> hits, missed |-> missed,
   name |-> name, since |-> since, who |-> who, current |-> current,
   triedAll |-> triedAll]

TracksOf(A, B, C, D, E, F, G, H) ==
  [id : A, state : B, hits : C, missed : D, name : E, since : F, who : G,
   current : H, triedAll : H]

LEMMA RecordByFields ==
  ASSUME NEW A, NEW B, NEW C, NEW D, NEW E, NEW F, NEW G, NEW H,
         NEW t \in TracksOf(A, B, C, D, E, F, G, H)
  PROVE  /\ t = TrackOf(t.id, t.state, t.hits, t.missed, t.name, t.since, t.who,
                        t.current, t.triedAll)
         /\ t.id \in A /\ t.state \in B /\ t.hits \in C /\ t.missed \in D
         /\ t.name \in E /\ t.since \in F /\ t.who \in G
         /\ t.current \in H /\ t.triedAll \in H
  BY DEF TrackOf, TracksOf

LEMMA RecordTyped ==
  ASSUME NEW A, NEW B, NEW C, NEW D, NEW E, NEW F, NEW G, NEW H,
         NEW a \in A, NEW b \in B, NEW c \in C, NEW d \in D, NEW e \in E,
         NEW f \in F, NEW g \in G, NEW h \in H, NEW i \in H
  PROVE  TrackOf(a, b, c, d, e, f, g, h, i) \in TracksOf(A, B, C, D, E, F, G, H)
  BY DEF TrackOf, TracksOf

LEMMA TracksAre ==
  Track = TracksOf(Ids, {"NEW", "CONFIRMED", "LOST"}, 0 .. ConfirmHits,
                   0 .. LostMissed + MaxMissed, Names \cup {"", "unknown"},
                   0 .. LongestRetry, Residents \cup {Nobody}, BOOLEAN)
  BY Zenon DEF Track, TracksOf

LEMMA TrackByFields ==
  ASSUME NEW t \in Track
  PROVE  /\ t = TrackOf(t.id, t.state, t.hits, t.missed, t.name, t.since, t.who,
                        t.current, t.triedAll)
         /\ t.id \in Ids /\ t.state \in {"NEW", "CONFIRMED", "LOST"}
         /\ t.hits \in 0 .. ConfirmHits
         /\ t.missed \in 0 .. LostMissed + MaxMissed
         /\ t.name \in Names \cup {"", "unknown"}
         /\ t.since \in 0 .. LongestRetry
         /\ t.who \in Residents \cup {Nobody}
         /\ t.current \in BOOLEAN /\ t.triedAll \in BOOLEAN
<1> DEFINE A == Ids
           B == {"NEW", "CONFIRMED", "LOST"}
           C == 0 .. ConfirmHits
           D == 0 .. LostMissed + MaxMissed
           E == Names \cup {"", "unknown"}
           F == 0 .. LongestRetry
           G == Residents \cup {Nobody}
           H == BOOLEAN
<1>1. t \in TracksOf(A, B, C, D, E, F, G, H)
  BY TracksAre, Zenon
<1> HIDE DEF A, B, C, D, E, F, G, H
<1>2. /\ t = TrackOf(t.id, t.state, t.hits, t.missed, t.name, t.since, t.who,
                     t.current, t.triedAll)
      /\ t.id \in A /\ t.state \in B /\ t.hits \in C /\ t.missed \in D
      /\ t.name \in E /\ t.since \in F /\ t.who \in G
      /\ t.current \in H /\ t.triedAll \in H
  BY <1>1, RecordByFields
<1> QED
  BY <1>2, Zenon DEF A, B, C, D, E, F, G, H

LEMMA FieldsOf ==
  ASSUME NEW a, NEW b, NEW c, NEW d, NEW e, NEW f, NEW g, NEW h, NEW i
  PROVE  LET t == TrackOf(a, b, c, d, e, f, g, h, i)
         IN /\ t.id = a /\ t.state = b /\ t.hits = c /\ t.missed = d
            /\ t.name = e /\ t.since = f /\ t.who = g /\ t.current = h
            /\ t.triedAll = i
  BY DEF TrackOf

LEMMA SetField ==
  \A a, b, c, d, e, f, g, h, i, x :
    LET t == TrackOf(a, b, c, d, e, f, g, h, i)
    IN /\ [t EXCEPT !.id = x] = TrackOf(x, b, c, d, e, f, g, h, i)
       /\ [t EXCEPT !.state = x] = TrackOf(a, x, c, d, e, f, g, h, i)
       /\ [t EXCEPT !.hits = x] = TrackOf(a, b, x, d, e, f, g, h, i)
       /\ [t EXCEPT !.missed = x] = TrackOf(a, b, c, x, e, f, g, h, i)
       /\ [t EXCEPT !.name = x] = TrackOf(a, b, c, d, x, f, g, h, i)
       /\ [t EXCEPT !.since = x] = TrackOf(a, b, c, d, e, x, g, h, i)
       /\ [t EXCEPT !.who = x] = TrackOf(a, b, c, d, e, f, x, h, i)
       /\ [t EXCEPT !.current = x] = TrackOf(a, b, c, d, e, f, g, x, i)
       /\ [t EXCEPT !.triedAll = x] = TrackOf(a, b, c, d, e, f, g, h, x)
<1>1. \A a, b, c, d, e, f, g, h, i, x :
      LET t == TrackOf(a, b, c, d, e, f, g, h, i)
      IN /\ [t EXCEPT !.id = x] = TrackOf(x, b, c, d, e, f, g, h, i)
         /\ [t EXCEPT !.state = x] = TrackOf(a, x, c, d, e, f, g, h, i)
         /\ [t EXCEPT !.hits = x] = TrackOf(a, b, x, d, e, f, g, h, i)
  BY DEF TrackOf
<1>2. \A a, b, c, d, e, f, g, h, i, x :
      LET t == TrackOf(a, b, c, d, e, f, g, h, i)
      IN /\ [t EXCEPT !.missed = x] = TrackOf(a, b, c, x, e, f, g, h, i)
         /\ [t EXCEPT !.name = x] = TrackOf(a, b, c, d, x, f, g, h, i)
         /\ [t EXCEPT !.since = x] = TrackOf(a, b, c, d, e, x, g, h, i)
  BY DEF TrackOf
<1>3. \A a, b, c, d, e, f, g, h, i, x :
      LET t == TrackOf(a, b, c, d, e, f, g, h, i)
      IN /\ [t EXCEPT !.who = x] = TrackOf(a, b, c, d, e, f, x, h, i)
         /\ [t EXCEPT !.current = x] = TrackOf(a, b, c, d, e, f, g, x, i)
         /\ [t EXCEPT !.triedAll = x] = TrackOf(a, b, c, d, e, f, g, h, x)
  BY DEF TrackOf
<1> QED
  BY <1>1, <1>2, <1>3

LEMMA TypedByFields ==
  ASSUME NEW a \in Ids, NEW b \in {"NEW", "CONFIRMED", "LOST"},
         NEW c \in 0 .. ConfirmHits, NEW d \in 0 .. LostMissed + MaxMissed,
         NEW e \in Names \cup {"", "unknown"}, NEW f \in 0 .. LongestRetry,
         NEW g \in Residents \cup {Nobody}, NEW h \in BOOLEAN, NEW i \in BOOLEAN
  PROVE  TrackOf(a, b, c, d, e, f, g, h, i) \in Track
  BY TracksAre, RecordTyped, Zenon

LEMMA RetypedByFields ==
  ASSUME NEW t \in Track, NEW c \in BOOLEAN, NEW d \in BOOLEAN
  PROVE  TrackOf(t.id, t.state, t.hits, t.missed, t.name, t.since, t.who, c, d) \in Track
<1>1. ASSUME NEW A, NEW B, NEW C, NEW D, NEW E, NEW F, NEW G, NEW H,
             t \in TracksOf(A, B, C, D, E, F, G, H), NEW y \in H, NEW z \in H
      PROVE  TrackOf(t.id, t.state, t.hits, t.missed, t.name, t.since, t.who, y, z)
             \in TracksOf(A, B, C, D, E, F, G, H)
  BY <1>1 DEF TrackOf, TracksOf
<1> QED
  BY <1>1, TracksAre, Zenon

LEMMA AgedFields ==
  ASSUME NEW t \in Track
  PROVE  Aged(t) = TrackOf(t.id, t.state, t.hits, t.missed, t.name,
                           AtMost(t.since + 1, LongestRetry), t.who, t.current,
                           t.triedAll)
<1> DEFINE t0 == TrackOf(t.id, t.state, t.hits, t.missed, t.name, t.since,
                         t.who, t.current, t.triedAll)
           n == AtMost(t.since + 1, LongestRetry)
<1>1. t = t0
  BY TrackByFields, Zenon
<1>2. Aged(t) = [t EXCEPT !.since = n]
  BY DEF Aged
<1> HIDE DEF n
<1>3. [t0 EXCEPT !.since = n]
      = TrackOf(t.id, t.state, t.hits, t.missed, t.name, n, t.who, t.current,
                t.triedAll)
  BY SetField
<1> HIDE DEF t0
<1> QED
  BY <1>1, <1>2, <1>3 DEF n

\* What a hit and a miss set.
LEMMA CountedFields ==
  ASSUME NEW t \in Track, NEW h, NEW m
  PROVE  [t EXCEPT !.missed = m, !.hits = h]
         = TrackOf(t.id, t.state, h, m, t.name, t.since, t.who, t.current,
                   t.triedAll)
<1> DEFINE t0 == TrackOf(t.id, t.state, t.hits, t.missed, t.name, t.since,
                         t.who, t.current, t.triedAll)
           t1 == TrackOf(t.id, t.state, t.hits, m, t.name, t.since,
                         t.who, t.current, t.triedAll)
           s == TrackOf(t.id, t.state, h, m, t.name, t.since, t.who,
                        t.current, t.triedAll)
<1>1. t = t0
  BY TrackByFields, Zenon
<1>2. [t0 EXCEPT !.missed = m] = t1 /\ [t1 EXCEPT !.hits = h] = s
  BY SetField
<1> HIDE DEF t0, t1, s
<1>4. [t EXCEPT !.missed = m, !.hits = h] = [[t EXCEPT !.missed = m] EXCEPT !.hits = h]
  BY Zenon
<1>5. @ = s
  BY <1>1, <1>2, Zenon
<1> QED
  BY <1>4, <1>5, Zenon DEF s

LEMMA RecognisedFields ==
  ASSUME NEW t \in Track, NEW rid
  PROVE  Recognised(t, rid)
         = TrackOf(t.id, t.state, t.hits, t.missed,
                   IF rid = Nobody THEN "unknown" ELSE catalog[rid], 0, rid,
                   TRUE, TRUE)
<1> DEFINE t0 == TrackOf(t.id, t.state, t.hits, t.missed, t.name, t.since,
                         t.who, t.current, t.triedAll)
           n == IF rid = Nobody THEN "unknown" ELSE catalog[rid]
           yes == TRUE
           t1 == TrackOf(t.id, t.state, t.hits, t.missed, n, t.since,
                         t.who, t.current, t.triedAll)
           t2 == TrackOf(t.id, t.state, t.hits, t.missed, n, 0,
                         t.who, t.current, t.triedAll)
           t3 == TrackOf(t.id, t.state, t.hits, t.missed, n, 0,
                         rid, t.current, t.triedAll)
           t4 == TrackOf(t.id, t.state, t.hits, t.missed, n, 0,
                         rid, yes, t.triedAll)
           t5 == TrackOf(t.id, t.state, t.hits, t.missed, n, 0, rid, yes, yes)
<1>1. t = t0
  BY TrackByFields, Zenon
<1>2. Recognised(t, rid) = [t EXCEPT !.name = n, !.since = 0, !.who = rid,
                                     !.current = yes, !.triedAll = yes]
  BY DEF Recognised
<1> HIDE DEF n, yes
<1>3. /\ [t0 EXCEPT !.name = n] = t1 /\ [t1 EXCEPT !.since = 0] = t2
      /\ [t2 EXCEPT !.who = rid] = t3 /\ [t3 EXCEPT !.current = yes] = t4
      /\ [t4 EXCEPT !.triedAll = yes] = t5
  BY SetField
<1> HIDE DEF t0, t1, t2, t3, t4, t5
<1>4. [t EXCEPT !.name = n, !.since = 0, !.who = rid, !.current = yes,
                !.triedAll = yes]
      = [[[[[t EXCEPT !.name = n] EXCEPT !.since = 0] EXCEPT !.who = rid]
          EXCEPT !.current = yes] EXCEPT !.triedAll = yes]
  BY Zenon
<1>5. @ = t5
  BY <1>1, <1>3, Zenon
<1> QED
  BY <1>2, <1>4, <1>5, Zenon DEF n, yes, t5

\* What a new catalog does to a track that it leaves and to one it hits.
LEMMA LeftFields ==
  ASSUME NEW t \in Track, NEW c, NEW d
  PROVE  [t EXCEPT !.current = c, !.triedAll = d]
         = TrackOf(t.id, t.state, t.hits, t.missed, t.name, t.since, t.who, c, d)
<1> DEFINE t0 == TrackOf(t.id, t.state, t.hits, t.missed, t.name, t.since,
                         t.who, t.current, t.triedAll)
           t1 == TrackOf(t.id, t.state, t.hits, t.missed, t.name, t.since,
                         t.who, c, t.triedAll)
           s == TrackOf(t.id, t.state, t.hits, t.missed, t.name, t.since,
                        t.who, c, d)
<1>1. t = t0
  BY TrackByFields, Zenon
<1>2. [t0 EXCEPT !.current = c] = t1 /\ [t1 EXCEPT !.triedAll = d] = s
  BY SetField
<1> HIDE DEF t0, t1, s
<1>3. [t EXCEPT !.current = c, !.triedAll = d]
      = [[t EXCEPT !.current = c] EXCEPT !.triedAll = d]
  BY Zenon
<1>4. @ = s
  BY <1>1, <1>2, Zenon
<1> QED
  BY <1>3, <1>4, Zenon DEF s

LEMMA ForgottenFields ==
  ASSUME NEW a, NEW b, NEW c, NEW d, NEW e, NEW f, NEW g, NEW h, NEW i
  PROVE  Forgotten(TrackOf(a, b, c, d, e, f, g, h, i))
         = TrackOf(a, b, c, d, "", 0, Nobody, TRUE, i)
<1> DEFINE yes == TRUE
           none == ""
           s == TrackOf(a, b, c, d, e, f, g, h, i)
           s1 == TrackOf(a, b, c, d, none, f, g, h, i)
           s2 == TrackOf(a, b, c, d, none, 0, g, h, i)
           s3 == TrackOf(a, b, c, d, none, 0, Nobody, h, i)
           s4 == TrackOf(a, b, c, d, none, 0, Nobody, yes, i)
<1> HIDE DEF yes, none
<1>1. /\ [s EXCEPT !.name = none] = s1 /\ [s1 EXCEPT !.since = 0] = s2
      /\ [s2 EXCEPT !.who = Nobody] = s3 /\ [s3 EXCEPT !.current = yes] = s4
  BY SetField
<1> HIDE DEF s, s1, s2, s3, s4
<1>0. Forgotten(s)
      = [s EXCEPT !.name = none, !.since = 0, !.who = Nobody, !.current = yes]
  BY Zenon DEF Forgotten, none, yes
<1>2. [s EXCEPT !.name = none, !.since = 0, !.who = Nobody, !.current = yes]
      = [[[[s EXCEPT !.name = none] EXCEPT !.since = 0] EXCEPT !.who = Nobody]
         EXCEPT !.current = yes]
  BY Zenon
<1>3. @ = s4
  BY <1>1, Zenon
<1> QED
  BY <1>0, <1>2, <1>3, Zenon DEF yes, none, s, s4

-----------------------------------------------------------------------------
(* Sequences: those at some places, and two joined.                         *)

\* A set of numbers that is not empty has a least one.
LEMMA LeastOf ==
  ASSUME NEW T \in SUBSET Nat, T # {}
  PROVE  \E m \in T : \A k \in T : m <= k
<1> DEFINE R == {q \in Nat \X Nat : q[1] < q[2]}
<1>1. IsWellFoundedOn(R, Nat)
  BY NatLessThanWellFounded DEF OpToRel
<1>2. \A a, b \in Nat : a < b => <<a, b>> \in R
  OBVIOUS
<1> HIDE DEF R
<1>3. PICK m \in T : \A y \in T : ~(<<y, m>> \in R)
  BY <1>1, WFMin
<1>4. \A k \in T : k \in Nat /\ m \in Nat /\ ~(k < m)
  BY <1>2, <1>3
<1>5. \A k \in T : m <= k
  BY <1>4
<1> QED BY <1>5

Increasing(f, n) == \A i, j \in 1 .. n : i < j => f[i] < f[j]

\* A set of places can be listed in order.
LEMMA Listed ==
  \A m \in Nat : \A P \in SUBSET (1 .. m) :
    /\ IsFiniteSet(P) /\ Cardinality(P) \in Nat
    /\ \E f \in [1 .. Cardinality(P) -> P] : Increasing(f, Cardinality(P))
<1> DEFINE Can(m) == \A P \in SUBSET (1 .. m) :
                       \E f \in [1 .. Cardinality(P) -> P] : Increasing(f, Cardinality(P))
           Bad == {m \in Nat : ~Can(m)}
<1>1. ASSUME NEW m \in Nat, NEW P \in SUBSET (1 .. m)
      PROVE  IsFiniteSet(P) /\ Cardinality(P) \in Nat
  <2>1. IsFiniteSet(1 .. m)
    BY FS_Interval
  <2>2. IsFiniteSet(P)
    BY <2>1, FS_Subset
  <2> QED
    BY <2>2, FS_CardinalityType
<1>2. Can(0)
  <2>1. SUFFICES ASSUME NEW P \in SUBSET (1 .. 0)
                 PROVE  \E f \in [1 .. Cardinality(P) -> P] : Increasing(f, Cardinality(P))
    OBVIOUS
  <2>2. P = {} /\ Cardinality(P) = 0
    <3>1. P = {}
      OBVIOUS
    <3> QED
      BY <3>1, FS_EmptySet
  <2>3. [i \in 1 .. 0 |-> i] \in [1 .. 0 -> P] /\ Increasing([i \in 1 .. 0 |-> i], 0)
    BY DEF Increasing
  <2> QED
    BY <2>2, <2>3
<1>3. ASSUME NEW m \in Nat, Can(m)
      PROVE  Can(m + 1)
  <2>1. SUFFICES ASSUME NEW P \in SUBSET (1 .. m + 1)
                 PROVE  \E f \in [1 .. Cardinality(P) -> P] : Increasing(f, Cardinality(P))
    OBVIOUS
  <2>2. CASE m + 1 \notin P
    <3>1. P \in SUBSET (1 .. m)
      BY <2>2
    <3> QED
      BY <3>1, <1>3
  <2>3. CASE m + 1 \in P
    <3> DEFINE Q == P \ {m + 1}
               n == Cardinality(Q)
    <3>1. Q \in SUBSET (1 .. m)
      OBVIOUS
    <3>2. n \in Nat /\ Cardinality(P) = n + 1
      <4>1. IsFiniteSet(P) /\ Cardinality(P) \in Nat
        <5>1. m + 1 \in Nat
          OBVIOUS
        <5> QED
          BY <5>1, <1>1
      <4>2. n = Cardinality(P) - 1
        BY <4>1, <2>3, FS_RemoveElement
      <4>3. n \in Nat
        BY <3>1, <1>1
      <4> QED
        BY <4>1, <4>2, <4>3
    <3>3. PICK g \in [1 .. n -> Q] : Increasing(g, n)
      BY <3>1, <1>3
    <3> HIDE DEF n
    <3> DEFINE f == [i \in 1 .. n + 1 |-> IF i = n + 1 THEN m + 1 ELSE g[i]]
    <3>4. \A i \in 1 .. n : f[i] = g[i] /\ g[i] \in Q /\ g[i] \in Nat /\ g[i] < m + 1
      <4>1. \A i \in 1 .. n : i \in 1 .. n + 1 /\ i # n + 1
        BY <3>2
      <4>2. \A i \in 1 .. n : g[i] \in Q
        OBVIOUS
      <4>3. \A q \in Q : q \in Nat /\ q < m + 1
        BY <3>1
      <4> QED
        BY <4>1, <4>2, <4>3
    <3>5. f[n + 1] = m + 1
      BY <3>2
    <3>6. \A i \in 1 .. n + 1 : i \in 1 .. n \/ i = n + 1
      BY <3>2
    <3>7. f \in [1 .. n + 1 -> P]
      BY <2>3, <3>4, <3>6, <3>2
    <3> HIDE DEF f
    <3>8. ASSUME NEW i \in 1 .. n + 1, NEW j \in 1 .. n + 1, i < j
          PROVE  f[i] < f[j]
      <4>1. i \in 1 .. n
        BY <3>8, <3>2
      <4>2. CASE j \in 1 .. n
        BY <4>1, <4>2, <3>4, <3>3, <3>8 DEF Increasing
      <4>3. CASE j = n + 1
        BY <4>1, <4>3, <3>4, <3>5
      <4> QED
        BY <4>2, <4>3, <3>6
    <3> QED
      BY <3>2, <3>7, <3>8 DEF Increasing
  <2> QED
    BY <2>2, <2>3
<1> HIDE DEF Can
<1>4. ASSUME NEW m \in Bad
      PROVE  m - 1 \in Bad
  <2>1. m \in Nat /\ ~Can(m) /\ m # 0
    BY <1>2
  <2>2. m - 1 \in Nat /\ (m - 1) + 1 = m
    BY <2>1
  <2> QED
    BY <2>1, <2>2, <1>3
<1>5. Bad = {}
  <2>1. SUFFICES ASSUME Bad # {}
                 PROVE  FALSE
    OBVIOUS
  <2>2. Bad \subseteq Nat
    OBVIOUS
  <2> HIDE DEF Bad
  <2>3. PICK m \in Bad : \A k \in Bad : m <= k
    BY <2>1, <2>2, LeastOf
  <2>4. m - 1 \in Bad /\ m \in Nat /\ m - 1 \in Nat
    BY <1>4, <2>2
  <2> QED
    BY <2>3, <2>4
<1> QED
  BY <1>1, <1>5 DEF Can

IdsApart(s) == \A i, j \in DOMAIN s : s[i].id = s[j].id => i = j
IdsOf(s) == {s[i].id : i \in DOMAIN s}

LEMMA AtIs ==
  ASSUME NEW m \in Nat, NEW s, DOMAIN s = 1 .. m, NEW P \in SUBSET (1 .. m)
  PROVE  LET n == Cardinality(P)
         IN /\ n \in Nat
            /\ \E f \in [1 .. n -> P] : /\ Increasing(f, n)
                                       /\ At(s, P) = [k \in 1 .. n |-> s[f[k]]]
<1> DEFINE n == Cardinality(P)
           f == CHOOSE g \in [1 .. n -> P] : \A i, j \in 1 .. n : i < j => g[i] < g[j]
<1>1. n \in Nat /\ \E g \in [1 .. n -> P] : Increasing(g, n)
  BY Listed
<1>2. f \in [1 .. n -> P] /\ Increasing(f, n)
  BY <1>1 DEF Increasing
<1>3. At(s, P) = [k \in 1 .. n |-> s[f[k]]]
  BY DEF At
<1> QED
  BY <1>1, <1>2, <1>3

\* What is at some places is what was there, each place once.
LEMMA AtFacts ==
  ASSUME NEW m \in Nat, NEW s, DOMAIN s = 1 .. m, NEW P \in SUBSET (1 .. m)
  PROVE  /\ At(s, P) = [k \in DOMAIN At(s, P) |-> At(s, P)[k]]
         /\ Cardinality(P) \in Nat /\ DOMAIN At(s, P) = 1 .. Cardinality(P)
         /\ \A k \in DOMAIN At(s, P) : \E i \in P : At(s, P)[k] = s[i]
         /\ (\A i, j \in P : s[i].id = s[j].id => i = j) => IdsApart(At(s, P))
<1> DEFINE n == Cardinality(P)
<1>0. n \in Nat
  BY AtIs
<1>1. PICK f \in [1 .. n -> P] :
             Increasing(f, n) /\ At(s, P) = [k \in 1 .. n |-> s[f[k]]]
  BY AtIs
<1>2. \A k \in 1 .. n : f[k] \in P /\ f[k] \in Nat
  <2>1. \A k \in 1 .. n : f[k] \in P
    OBVIOUS
  <2>2. \A i \in P : i \in Nat
    OBVIOUS
  <2> QED
    BY <2>1, <2>2
<1>3. \A i, j \in 1 .. n : f[i] = f[j] => i = j
  <2>1. SUFFICES ASSUME NEW i \in 1 .. n, NEW j \in 1 .. n, i # j
                 PROVE  f[i] # f[j]
    OBVIOUS
  <2>2. i < j \/ j < i
    BY <2>1
  <2> QED
    BY <2>2, <1>1, <1>2 DEF Increasing
<1>4. DOMAIN At(s, P) = 1 .. n /\ \A k \in 1 .. n : At(s, P)[k] = s[f[k]]
  BY <1>1
<1>5. ASSUME \A i, j \in P : s[i].id = s[j].id => i = j
      PROVE  IdsApart(At(s, P))
  BY <1>5, <1>2, <1>3, <1>4 DEF IdsApart
<1> QED
  BY <1>0, <1>1, <1>2, <1>4, <1>5

LEMMA AtSeq ==
  ASSUME NEW S, NEW m \in Nat, NEW s, DOMAIN s = 1 .. m, NEW P \in SUBSET (1 .. m),
         \A i \in P : s[i] \in S
  PROVE  At(s, P) \in Seq(S)
<1> DEFINE a == At(s, P)
           n == Cardinality(P)
<1>1. /\ a = [k \in DOMAIN a |-> a[k]] /\ n \in Nat /\ DOMAIN a = 1 .. n
      /\ \A k \in DOMAIN a : \E i \in P : a[k] = s[i]
  BY AtFacts
<1> HIDE DEF a, n
<1>2. a \in [1 .. n -> S]
  BY <1>1
<1> QED
  BY <1>1, <1>2 DEF a

LEMMA JoinFacts ==
  ASSUME NEW S, NEW s \in Seq(S), NEW t \in Seq(S)
  PROVE  /\ s \o t \in Seq(S) /\ DOMAIN (s \o t) = 1 .. Len(s) + Len(t)
         /\ Len(s) + Len(t) \in Nat
         /\ \A k \in DOMAIN (s \o t) :
              \/ k \in DOMAIN s /\ (s \o t)[k] = s[k]
              \/ k - Len(s) \in DOMAIN t /\ (s \o t)[k] = t[k - Len(s)]
         /\ IdsApart(s) /\ IdsApart(t) /\ IdsOf(s) \cap IdsOf(t) = {}
              => IdsApart(s \o t)
<1>1. /\ s \o t \in Seq(S) /\ DOMAIN (s \o t) = 1 .. Len(s) + Len(t)
      /\ Len(s) \in Nat /\ Len(t) \in Nat
      /\ DOMAIN s = 1 .. Len(s) /\ DOMAIN t = 1 .. Len(t)
  OBVIOUS
<1>2. \A k \in DOMAIN (s \o t) :
        \/ k \in DOMAIN s /\ (s \o t)[k] = s[k]
        \/ k \notin DOMAIN s /\ k - Len(s) \in DOMAIN t /\ (s \o t)[k] = t[k - Len(s)]
  BY <1>1
<1>3. ASSUME IdsApart(s), IdsApart(t), IdsOf(s) \cap IdsOf(t) = {},
             NEW i \in DOMAIN (s \o t), NEW j \in DOMAIN (s \o t),
             (s \o t)[i].id = (s \o t)[j].id
      PROVE  i = j
  <2> DEFINE c == s \o t
  <2>1. \A k \in DOMAIN s, l \in DOMAIN t : s[k].id # t[l].id
    BY <1>3 DEF IdsOf
  <2>2. CASE i \in DOMAIN s /\ j \in DOMAIN s
    BY <1>2, <1>3, <2>2 DEF IdsApart
  <2>3. CASE i \notin DOMAIN s /\ j \notin DOMAIN s
    <3>1. t[i - Len(s)].id = t[j - Len(s)].id /\ i - Len(s) \in DOMAIN t
          /\ j - Len(s) \in DOMAIN t
      BY <1>2, <1>3, <2>3
    <3>2. i - Len(s) = j - Len(s)
      BY <3>1, <1>3 DEF IdsApart
    <3> QED
      BY <3>2, <1>1
  <2>4. CASE i \in DOMAIN s /\ j \notin DOMAIN s
    BY <1>2, <1>3, <2>1, <2>4
  <2>5. CASE i \notin DOMAIN s /\ j \in DOMAIN s
    BY <1>2, <1>3, <2>1, <2>5
  <2> QED
    BY <2>2, <2>3, <2>4, <2>5
<1> QED
  BY <1>1, <1>2, <1>3 DEF IdsApart

-----------------------------------------------------------------------------
(* The invariant, track by track and ghost by ghost.                        *)

Fine(t, nx) ==
  /\ t \in Track /\ t.id < nx
  /\ t.name # "" => Active(t)
  /\ t.state = "CONFIRMED" => t.missed < LostMissed
  /\ t.state = "LOST" => t.missed >= LostMissed

\* Who is shown with a known name is who was recognised, and still the same.
Shown(t, ri, cat) ==
  t.id \in DOMAIN ri /\ Known(t.name) =>
    /\ t.current = TRUE /\ ri[t.id] = t.who
    /\ ri[t.id] \in DOMAIN cat /\ cat[ri[t.id]] = t.name

\* Who was compared and shows nobody was compared with everybody.
Tried(t, ri) == t.name # "" /\ t.id \notin DOMAIN ri => t.triedAll = TRUE

GoodTrack(t, nx, ri, cat) == Fine(t, nx) /\ Shown(t, ri, cat) /\ Tried(t, ri)

\* The adapter has forgotten the resident of a ghost's id.
GoodGhost(g, nx, ri) == g \in Ghost /\ g.id < nx /\ g.id \notin DOMAIN ri

ResidentIdMaps == UNION {[S -> Residents] : S \in SUBSET Ids}

Sound(ts, gs, nx, ri, cat) ==
  /\ ts \in Seq(Track) /\ Len(ts) <= MaxLive
  /\ gs \in Seq(Ghost)
  /\ nx \in 1 .. MaxIds + 1
  /\ ri \in ResidentIdMaps
  /\ cat \in Catalog
  /\ \A k \in DOMAIN ts : GoodTrack(ts[k], nx, ri, cat)
  /\ \A g \in DOMAIN gs : GoodGhost(gs[g], nx, ri)
  /\ IdsApart(ts) /\ IdsApart(gs) /\ IdsOf(ts) \cap IdsOf(gs) = {}

TrackerInv == /\ Sound(tracks, ghosts, nextId, residentIds, catalog)
              /\ phase \in {"boundary", "detected"}

SameIdentity(s, t) ==
  /\ s.id = t.id /\ s.name = t.name /\ s.who = t.who
  /\ s.current = t.current /\ s.triedAll = t.triedAll

LEMMA IdentityKeeps ==
  ASSUME NEW t, NEW s, NEW nx, NEW ri, NEW cat, GoodTrack(t, nx, ri, cat),
         Fine(s, nx), SameIdentity(s, t)
  PROVE  GoodTrack(s, nx, ri, cat)
<1>1. Fine(s, nx) /\ Shown(t, ri, cat) /\ Tried(t, ri)
  BY DEF GoodTrack
<1>2. Shown(s, ri, cat)
  BY <1>1, Zenon DEF Shown, SameIdentity
<1>3. Tried(s, ri)
  BY <1>1, Zenon DEF Tried, SameIdentity
<1> QED
  BY <1>1, <1>2, <1>3 DEF GoodTrack

LEMMA AtMostIs ==
  ASSUME NEW n \in Nat, NEW limit \in Nat
  PROVE  AtMost(n, limit) \in 0 .. limit
  BY DEF AtMost

LEMMA Limits ==
  /\ MaxIds \in Nat /\ MaxLive \in Nat
  /\ ConfirmHits \in Nat /\ ConfirmHits # 0
  /\ LostMissed \in Nat /\ LostMissed # 0 /\ MaxMissed \in Nat
  /\ RecogRetry \in Nat /\ UnknownRetry \in Nat /\ GhostMaxAge \in Nat
  BY GreedyAssumption, Zenon

LEMMA RetryIsNat == LongestRetry \in Nat
  BY Limits DEF LongestRetry

\* The clock of a track.
LEMMA AgedFine ==
  ASSUME NEW t, NEW nx, Fine(t, nx)
  PROVE  /\ Fine(Aged(t), nx) /\ SameIdentity(Aged(t), t)
         /\ Aged(t).state = t.state /\ Aged(t).hits = t.hits
         /\ Aged(t).missed = t.missed
<1> DEFINE n == AtMost(t.since + 1, LongestRetry)
           s == TrackOf(t.id, t.state, t.hits, t.missed, t.name, n, t.who,
                        t.current, t.triedAll)
<1>1. t \in Track
  BY Zenon DEF Fine
<1>2. Aged(t) = s
  BY <1>1, AgedFields
<1>3. n \in 0 .. LongestRetry
  <2>1. t.since \in 0 .. LongestRetry
    BY <1>1, TrackByFields, Zenon
  <2>2. t.since + 1 \in Nat
    BY <2>1, RetryIsNat
  <2> QED
    BY <2>2, RetryIsNat, AtMostIs
<1> HIDE DEF n
<1>4. s \in Track
  BY <1>1, <1>3, TrackByFields, TypedByFields, Zenon
<1>5. /\ s.id = t.id /\ s.state = t.state /\ s.hits = t.hits
      /\ s.missed = t.missed /\ s.name = t.name /\ s.who = t.who
      /\ s.current = t.current /\ s.triedAll = t.triedAll
  BY FieldsOf
<1> HIDE DEF s
<1>6. Fine(s, nx)
  BY <1>4, <1>5, Zenon DEF Fine, Active
<1> QED
  BY <1>2, <1>5, <1>6, Zenon DEF SameIdentity

LEMMA HitFine ==
  ASSUME NEW t, NEW nx, Fine(t, nx)
  PROVE  Fine(Hit(t), nx) /\ SameIdentity(Hit(t), t)
<1> DEFINE n == AtMost(t.hits + 1, ConfirmHits)
           F(x) == TrackOf(t.id, x, n, 0, t.name, t.since, t.who, t.current,
                           t.triedAll)
           h == [t EXCEPT !.missed = 0, !.hits = n]
<1>1. t \in Track
  BY Zenon DEF Fine
<1>3. n \in 0 .. ConfirmHits /\ 0 \in 0 .. LostMissed + MaxMissed
  <2>1. t.hits \in 0 .. ConfirmHits
    BY <1>1, TrackByFields, Zenon
  <2>2. t.hits + 1 \in Nat /\ ConfirmHits \in Nat
    BY <2>1, Limits
  <2>3. n \in 0 .. ConfirmHits
    BY <2>2, AtMostIs
  <2> QED
    BY <2>3, Limits
<1> HIDE DEF n
<1>2. h = F(t.state) /\ [h EXCEPT !.state = "CONFIRMED"] = F("CONFIRMED")
  <2>1. h = F(t.state)
    BY <1>1, CountedFields, Zenon
  <2>2. [F(t.state) EXCEPT !.state = "CONFIRMED"] = F("CONFIRMED")
    BY SetField
  <2> QED
    BY <2>1, <2>2, Zenon
<1>4. \/ Hit(t) = F("CONFIRMED")
      \/ Hit(t) = F(t.state) /\ t.state # "LOST"
  BY <1>2, Zenon DEF Hit, n
<1>5. \A x \in {"NEW", "CONFIRMED", "LOST"} : F(x) \in Track
  BY <1>1, <1>3, TrackByFields, TypedByFields, Zenon
<1>6. \A x : /\ F(x).id = t.id /\ F(x).state = x /\ F(x).missed = 0
             /\ F(x).name = t.name /\ F(x).who = t.who
             /\ F(x).current = t.current /\ F(x).triedAll = t.triedAll
  BY FieldsOf
<1> HIDE DEF F
<1>7. 0 < LostMissed
  BY Limits
<1>8. t.state \in {"NEW", "CONFIRMED", "LOST"}
  BY <1>1, TrackByFields, Zenon
<1>9. Fine(F("CONFIRMED"), nx)
  BY <1>5, <1>6, <1>7, Zenon DEF Fine, Active
<1>10. ASSUME t.state # "LOST" PROVE Fine(F(t.state), nx)
  BY <1>5, <1>6, <1>7, <1>8, <1>10, Zenon DEF Fine, Active
<1> QED
  BY <1>4, <1>6, <1>9, <1>10, Zenon DEF SameIdentity

LEMMA MissFine ==
  ASSUME NEW t, NEW nx, Fine(t, nx), ~Killed(t)
  PROVE  Fine(Missed(t), nx) /\ SameIdentity(Missed(t), t)
<1> DEFINE m == t.missed + 1
           F(x) == TrackOf(t.id, x, 0, m, t.name, t.since, t.who, t.current,
                           t.triedAll)
           h == [t EXCEPT !.missed = m, !.hits = 0]
<1>1. t \in Track
  BY Zenon DEF Fine
<1>2. t.state \in {"CONFIRMED", "LOST"}
  BY <1>1, TrackByFields, Zenon DEF Killed
<1>3. t.missed \in 0 .. LostMissed + MaxMissed
  BY <1>1, TrackByFields, Zenon
<1>4. m \in 0 .. LostMissed + MaxMissed /\ 0 \in 0 .. ConfirmHits
  <2>1. CASE t.state = "CONFIRMED"
    <3>1. t.missed < LostMissed
      BY <2>1, Zenon DEF Fine
    <3> QED
      BY <3>1, <1>3, Limits
  <2>2. CASE t.state = "LOST"
    <3>1. ~(t.missed + 1 >= MaxMissed)
      BY <2>2, Zenon DEF Killed
    <3> QED
      BY <3>1, <1>3, Limits
  <2> QED
    BY <1>2, <2>1, <2>2
<1>5. t.missed >= LostMissed => m >= LostMissed
  BY <1>3, Limits
<1>6. ~(m >= LostMissed) => m < LostMissed
  BY <1>3, Limits
<1> HIDE DEF m
<1>7. h = F(t.state) /\ [h EXCEPT !.state = "LOST"] = F("LOST")
  <2>1. h = F(t.state)
    BY <1>1, CountedFields, Zenon
  <2>2. [F(t.state) EXCEPT !.state = "LOST"] = F("LOST")
    BY SetField
  <2> QED
    BY <2>1, <2>2, Zenon
<1>8. \A x : /\ F(x).id = t.id /\ F(x).state = x /\ F(x).missed = m
             /\ F(x).name = t.name /\ F(x).who = t.who
             /\ F(x).current = t.current /\ F(x).triedAll = t.triedAll
  BY FieldsOf
<1>9. \A x \in {"NEW", "CONFIRMED", "LOST"} : F(x) \in Track
  BY <1>1, <1>4, TrackByFields, TypedByFields, Zenon
<1>10. Missed(t) = IF t.state = "CONFIRMED" /\ h.missed >= LostMissed
                   THEN [h EXCEPT !.state = "LOST"] ELSE h
  BY Zenon DEF Missed, m
<1> HIDE DEF F
<1>11. \/ Missed(t) = F("LOST") /\ m >= LostMissed
       \/ Missed(t) = F(t.state) /\ (t.state = "CONFIRMED" => m < LostMissed)
  <2>1. h.missed = m
    BY <1>7, <1>8, Zenon
  <2> HIDE DEF h
  <2>2. CASE t.state = "CONFIRMED" /\ m >= LostMissed
    BY <2>1, <2>2, <1>7, <1>10, Zenon
  <2>3. CASE ~(t.state = "CONFIRMED" /\ m >= LostMissed)
    BY <2>1, <2>3, <1>6, <1>7, <1>10, Zenon
  <2> QED
    BY <2>2, <2>3
<1>12. ASSUME m >= LostMissed PROVE Fine(F("LOST"), nx)
  BY <1>8, <1>9, <1>12, Zenon DEF Fine, Active
<1>13. ASSUME t.state = "CONFIRMED" => m < LostMissed PROVE Fine(F(t.state), nx)
  BY <1>2, <1>5, <1>8, <1>9, <1>13, Zenon DEF Fine, Active
<1> QED
  BY <1>8, <1>11, <1>12, <1>13, Zenon DEF SameIdentity

-----------------------------------------------------------------------------
(* What a step does with the residents' ids and the ghosts.                 *)

LEMMA ViewIs ==
  ASSUME NEW t, residentIds \in ResidentIdMaps
  PROVE  ViewOf(t) = Nobody <=> t.id \notin DOMAIN residentIds
<1>1. Nobody \notin Residents
  BY GreedyAssumption, Zenon
<1>2. PICK S \in SUBSET Ids : residentIds \in [S -> Residents]
  BY DEF ResidentIdMaps
<1>3. \A i \in DOMAIN residentIds : residentIds[i] # Nobody
  BY <1>1, <1>2
<1> QED
  BY <1>3 DEF ViewOf

\* Forgetting the residents of tracks that are not active harms no track that is.
LEMMA LiveKeeps ==
  ASSUME NEW ts, NEW nx, NEW cat, residentIds \in ResidentIdMaps,
         \A k \in DOMAIN ts : GoodTrack(ts[k], nx, residentIds, cat)
  PROVE  LET ri == LiveResidents(ts)
         IN /\ ri \in ResidentIdMaps
            /\ \A i \in DOMAIN ri : i \in DOMAIN residentIds /\ i \in IdsOf(ts)
            /\ \A k \in DOMAIN ts : GoodTrack(ts[k], nx, ri, cat)
<1> DEFINE live == {ts[k].id : k \in {j \in DOMAIN ts : Active(ts[j])}}
           ri == LiveResidents(ts)
<1>1. ri = [i \in DOMAIN residentIds \cap live |-> residentIds[i]]
  BY DEF LiveResidents
<1>2. /\ DOMAIN ri = DOMAIN residentIds \cap live
      /\ \A i \in DOMAIN ri : ri[i] = residentIds[i]
  BY <1>1
<1>3. ri \in ResidentIdMaps
  <2>1. PICK S \in SUBSET Ids : residentIds \in [S -> Residents]
    BY DEF ResidentIdMaps
  <2>2. ri \in [S \cap live -> Residents]
    BY <1>1, <2>1
  <2> QED
    BY <2>2 DEF ResidentIdMaps
<1>4. \A i \in DOMAIN ri : i \in DOMAIN residentIds /\ i \in IdsOf(ts)
  BY <1>2 DEF IdsOf
<1>5. \A k \in DOMAIN ts : Active(ts[k]) => ts[k].id \in live
  OBVIOUS
<1> HIDE DEF live, ri
<1>6. ASSUME NEW k \in DOMAIN ts
      PROVE  GoodTrack(ts[k], nx, ri, cat)
  <2>1. /\ Fine(ts[k], nx) /\ Shown(ts[k], residentIds, cat)
        /\ Tried(ts[k], residentIds)
    BY Zenon DEF GoodTrack
  <2>2. ts[k].name # "" => Active(ts[k])
    BY <2>1, Zenon DEF Fine
  <2>3. Shown(ts[k], ri, cat)
    <3>1. SUFFICES ASSUME ts[k].id \in DOMAIN ri, Known(ts[k].name)
                   PROVE  /\ ts[k].current = TRUE /\ ri[ts[k].id] = ts[k].who
                          /\ ri[ts[k].id] \in DOMAIN cat
                          /\ cat[ri[ts[k].id]] = ts[k].name
      BY Zenon DEF Shown
    <3>2. ts[k].id \in DOMAIN residentIds /\ ri[ts[k].id] = residentIds[ts[k].id]
      BY <1>2, <3>1, Zenon
    <3> QED
      BY <2>1, <3>1, <3>2, Zenon DEF Shown
  <2>4. Tried(ts[k], ri)
    <3>1. SUFFICES ASSUME ts[k].name # "", ts[k].id \notin DOMAIN ri
                   PROVE  ts[k].triedAll = TRUE
      BY Zenon DEF Tried
    <3>2. ts[k].id \notin DOMAIN residentIds
      BY <1>2, <1>5, <2>2, <3>1, Zenon
    <3> QED
      BY <2>1, <3>1, <3>2, Zenon DEF Tried
  <2> QED
    BY <2>1, <2>3, <2>4, Zenon DEF GoodTrack
<1> QED
  BY <1>3, <1>4, <1>6 DEF ri

GhostSet(A, B, C, D) == [id : A, name : B, age : C, current : D]

LEMMA GhostAged ==
  ASSUME NEW A, NEW B, NEW C, NEW D, NEW g \in GhostSet(A, B, C, D), NEW n \in C
  PROVE  /\ [g EXCEPT !.age = n] \in GhostSet(A, B, C, D)
         /\ [g EXCEPT !.age = n].id = g.id /\ g.age \in C
  BY DEF GhostSet

LEMMA GhostMade ==
  ASSUME NEW A, NEW B, NEW C, NEW D
  PROVE  \A a \in A, b \in B, c \in C, d \in D :
           [id |-> a, name |-> b, age |-> c, current |-> d] \in GhostSet(A, B, C, D)
  BY DEF GhostSet

LEMMA GhostsAre ==
  Ghost = GhostSet(Ids, Names, 0 .. GhostMaxAge + 1, BOOLEAN)
  BY Zenon DEF Ghost, GhostSet

LEMMA OlderFacts ==
  ASSUME ghosts \in Seq(Ghost)
  PROVE  /\ Older \in Seq(Ghost) /\ DOMAIN Older = DOMAIN ghosts
         /\ \A k \in DOMAIN ghosts : Older[k].id = ghosts[k].id
<1> DEFINE C == 0 .. GhostMaxAge + 1
           H == BOOLEAN
<1>1. ASSUME NEW g \in Ghost, NEW n \in C
      PROVE  /\ [g EXCEPT !.age = n] \in Ghost /\ [g EXCEPT !.age = n].id = g.id
             /\ g.age \in C
  <2>1. Ghost = GhostSet(Ids, Names, C, H)
    BY GhostsAre, Zenon
  <2> HIDE DEF C, H
  <2>2. g \in GhostSet(Ids, Names, C, H)
    BY <2>1, Zenon
  <2>3. /\ [g EXCEPT !.age = n] \in GhostSet(Ids, Names, C, H)
        /\ [g EXCEPT !.age = n].id = g.id /\ g.age \in C
    BY <2>2, GhostAged
  <2> QED
    BY <2>1, <2>3, Zenon
<1> DEFINE Old(g) == [g EXCEPT !.age = AtMost(g.age + 1, GhostMaxAge + 1)]
<1>2. ASSUME NEW g \in Ghost
      PROVE  Old(g) \in Ghost /\ Old(g).id = g.id
  <2> DEFINE n == AtMost(g.age + 1, GhostMaxAge + 1)
  <2>1. g.age \in C
    <3>1. 0 \in C
      BY Limits
    <3> QED
      BY <1>1, <3>1
  <2>2. n \in C
    <3>1. g.age + 1 \in Nat /\ GhostMaxAge + 1 \in Nat
      BY <2>1, Limits
    <3> QED
      BY <3>1, AtMostIs
  <2> HIDE DEF n, C
  <2>3. [g EXCEPT !.age = n] \in Ghost /\ [g EXCEPT !.age = n].id = g.id
    BY <1>1, <2>2
  <2> QED
    BY <2>3 DEF n
<1>3. Older = [k \in DOMAIN ghosts |-> Old(ghosts[k])]
  BY DEF Older
<1> HIDE DEF Old
<1>4. /\ DOMAIN ghosts = 1 .. Len(ghosts) /\ Len(ghosts) \in Nat
      /\ \A k \in DOMAIN ghosts : ghosts[k] \in Ghost
  OBVIOUS
<1>5. Older \in [1 .. Len(ghosts) -> Ghost]
  BY <1>2, <1>3, <1>4
<1>6. Older \in Seq(Ghost)
  BY <1>4, <1>5
<1> QED
  BY <1>2, <1>3, <1>4, <1>6

\* The ghosts after an update: some of those there were, and the known ones of
\* the dead.
LEMMA GhostsAfterFacts ==
  ASSUME NEW aged \in Seq(Ghost), NEW dead \in Seq(Track),
         IdsApart(aged), IdsApart(dead), IdsOf(aged) \cap IdsOf(dead) = {}
  PROVE  LET gs == GhostsAfter(aged, dead)
         IN /\ gs \in Seq(Ghost) /\ IdsApart(gs)
            /\ IdsOf(gs) \subseteq IdsOf(aged) \cup IdsOf(dead)
<1> DEFINE Q == {k \in DOMAIN dead : Known(dead[k].name)}
           known == At(dead, Q)
           new == [k \in DOMAIN known |-> GhostOf(known[k])]
           all == aged \o new
           R == {k \in DOMAIN all : all[k].age <= GhostMaxAge}
           gs == At(all, R)
<1>1. GhostsAfter(aged, dead) = gs
  BY DEF GhostsAfter
<1>2. DOMAIN dead = 1 .. Len(dead) /\ Len(dead) \in Nat /\ Q \subseteq 1 .. Len(dead)
  OBVIOUS
<1>3. /\ Cardinality(Q) \in Nat /\ DOMAIN known = 1 .. Cardinality(Q)
      /\ \A k \in DOMAIN known : \E i \in Q : known[k] = dead[i]
      /\ IdsApart(known)
  <2>1. \A i, j \in Q : dead[i].id = dead[j].id => i = j
    BY DEF IdsApart
  <2> HIDE DEF Q
  <2>2. \A k \in DOMAIN known : \E i \in Q : known[k] = dead[i]
    BY <1>2, AtFacts
  <2>3. IdsApart(known)
    BY <1>2, <2>1, AtFacts
  <2>4. Cardinality(Q) \in Nat /\ DOMAIN known = 1 .. Cardinality(Q)
    BY <1>2, AtFacts
  <2> QED
    BY <2>2, <2>3, <2>4
<1>4. \A i \in Q : dead[i] \in Track /\ Known(dead[i].name) /\ i \in DOMAIN dead
  BY <1>2
<1> HIDE DEF Q, known
<1>5. \A k \in DOMAIN known : /\ known[k] \in Track /\ Known(known[k].name)
                              /\ known[k].id \in IdsOf(dead)
  BY <1>3, <1>4 DEF IdsOf
<1>6. \A k \in DOMAIN known : GhostOf(known[k]) \in Ghost /\ GhostOf(known[k]).id = known[k].id
  <2>1. ASSUME NEW t \in Track, Known(t.name)
        PROVE  GhostOf(t) \in Ghost /\ GhostOf(t).id = t.id
    <3> DEFINE C == 0 .. GhostMaxAge + 1
               H == BOOLEAN
    <3>1. t.id \in Ids /\ t.name \in Names /\ t.current \in H
      BY <2>1, TrackByFields, Zenon DEF Known
    <3>2. 0 \in C
      BY Limits
    <3>3. Ghost = GhostSet(Ids, Names, C, H)
      BY GhostsAre, Zenon
    <3> HIDE DEF C, H
    <3>4. GhostOf(t) \in Ghost
      BY <3>1, <3>2, <3>3, GhostMade DEF GhostOf
    <3>5. GhostOf(t).id = t.id
      BY DEF GhostOf
    <3> QED
      BY <3>4, <3>5
  <2> QED
    BY <1>5, <2>1
<1>7. new \in Seq(Ghost) /\ DOMAIN new = DOMAIN known /\ \A k \in DOMAIN new : new[k].id = known[k].id
  <2>1. new \in [1 .. Cardinality(Q) -> Ghost]
    BY <1>3, <1>6
  <2>2. DOMAIN new = DOMAIN known /\ \A k \in DOMAIN new : new[k].id = known[k].id
    BY <1>6
  <2> HIDE DEF new
  <2> QED
    BY <1>3, <2>1, <2>2
<1> HIDE DEF new
<1>8. IdsApart(new) /\ IdsOf(new) \subseteq IdsOf(dead)
  <2>1. IdsApart(new)
    BY <1>3, <1>7 DEF IdsApart
  <2>2. \A k \in DOMAIN new : new[k].id \in IdsOf(dead)
    BY <1>5, <1>7
  <2> QED
    BY <2>1, <2>2 DEF IdsOf
<1>9. IdsOf(aged) \cap IdsOf(new) = {}
  BY <1>8
<1>10. /\ all \in Seq(Ghost) /\ DOMAIN all = 1 .. Len(aged) + Len(new)
       /\ Len(aged) + Len(new) \in Nat
       /\ \A k \in DOMAIN all : \/ k \in DOMAIN aged /\ all[k] = aged[k]
                                \/ k - Len(aged) \in DOMAIN new /\ all[k] = new[k - Len(aged)]
       /\ IdsApart(all)
  BY <1>7, <1>8, <1>9, JoinFacts
<1>11. IdsOf(all) \subseteq IdsOf(aged) \cup IdsOf(dead)
  BY <1>8, <1>10 DEF IdsOf
<1>12. R \subseteq 1 .. Len(aged) + Len(new) /\ \A i \in R : all[i] \in Ghost /\ i \in DOMAIN all
  BY <1>10
<1> HIDE DEF all, R
<1>13. gs \in Seq(Ghost)
  BY <1>10, <1>12, AtSeq
<1>14. IdsApart(gs) /\ \A k \in DOMAIN gs : \E i \in R : gs[k] = all[i]
  <2>1. \A i, j \in R : all[i].id = all[j].id => i = j
    BY <1>10, <1>12 DEF IdsApart
  <2> QED
    BY <1>10, <1>12, <2>1, AtFacts
<1>15. IdsOf(gs) \subseteq IdsOf(all)
  BY <1>12, <1>14 DEF IdsOf
<1> QED
  BY <1>1, <1>11, <1>13, <1>14, <1>15

-----------------------------------------------------------------------------
(* The steps.                                                               *)

\* The invariant taken apart, for the steps.
Parts ==
  /\ tracks \in Seq(Track) /\ Len(tracks) <= MaxLive
  /\ DOMAIN tracks = 1 .. Len(tracks) /\ Len(tracks) \in Nat
  /\ ghosts \in Seq(Ghost)
  /\ DOMAIN ghosts = 1 .. Len(ghosts) /\ Len(ghosts) \in Nat
  /\ nextId \in 1 .. MaxIds + 1
  /\ residentIds \in ResidentIdMaps
  /\ catalog \in Catalog
  /\ \A k \in DOMAIN tracks : GoodTrack(tracks[k], nextId, residentIds, catalog)
  /\ \A g \in DOMAIN ghosts : GoodGhost(ghosts[g], nextId, residentIds)
  /\ IdsApart(tracks) /\ IdsApart(ghosts) /\ IdsOf(tracks) \cap IdsOf(ghosts) = {}

LEMMA TakenApart ==
  ASSUME TrackerInv
  PROVE  Parts
<1>1. Sound(tracks, ghosts, nextId, residentIds, catalog)
  BY Zenon DEF TrackerInv
<1>2. tracks \in Seq(Track) /\ ghosts \in Seq(Ghost)
  BY <1>1, Zenon DEF Sound
<1>3. /\ DOMAIN tracks = 1 .. Len(tracks) /\ Len(tracks) \in Nat
      /\ DOMAIN ghosts = 1 .. Len(ghosts) /\ Len(ghosts) \in Nat
  BY <1>2
<1> QED
  BY <1>1, <1>2, <1>3, Zenon DEF Sound, Parts

LEMMA InitSound ==
  ASSUME Init
  PROVE  TrackerInv
<1>1. /\ tracks = <<>> /\ ghosts = <<>> /\ nextId = 1 /\ residentIds = <<>>
      /\ catalog \in Catalog /\ phase = "boundary"
  BY Zenon DEF Init
<1>2. /\ tracks \in Seq(Track) /\ ghosts \in Seq(Ghost)
      /\ DOMAIN tracks = {} /\ DOMAIN ghosts = {} /\ Len(tracks) = 0
  BY <1>1
<1>3. 0 <= MaxLive /\ nextId \in 1 .. MaxIds + 1
  BY <1>1, Limits
<1>4. residentIds \in ResidentIdMaps
  <2>1. residentIds \in [{} -> Residents] /\ {} \in SUBSET Ids
    BY <1>1
  <2> QED
    BY <2>1 DEF ResidentIdMaps
<1>5. IdsApart(tracks) /\ IdsApart(ghosts) /\ IdsOf(tracks) \cap IdsOf(ghosts) = {}
  BY <1>2 DEF IdsApart, IdsOf
<1> QED
  BY <1>1, <1>2, <1>3, <1>4, <1>5, Zenon DEF TrackerInv, Sound

\* Tracks that keep their places and identities.
LEMMA SkipKeeps ==
  ASSUME TrackerInv, Skip
  PROVE  TrackerInv'
<1>1. /\ tracks' = [k \in DOMAIN tracks |-> Aged(tracks[k])]
      /\ ghosts' = Older /\ phase' = "detected"
      /\ nextId' = nextId /\ residentIds' = residentIds /\ catalog' = catalog
  BY Zenon DEF Skip
<1>2. Parts
  BY TakenApart
<1>3. /\ DOMAIN tracks = 1 .. Len(tracks) /\ Len(tracks) \in Nat
      /\ Len(tracks) <= MaxLive
  BY <1>2, Zenon DEF Parts
<1>4. ASSUME NEW k \in DOMAIN tracks
      PROVE  /\ tracks'[k] = Aged(tracks[k]) /\ Aged(tracks[k]).id = tracks[k].id
             /\ Aged(tracks[k]) \in Track
             /\ GoodTrack(Aged(tracks[k]), nextId, residentIds, catalog)
  <2>1. tracks'[k] = Aged(tracks[k])
    BY <1>1
  <2>2. /\ GoodTrack(tracks[k], nextId, residentIds, catalog)
        /\ Fine(tracks[k], nextId)
    BY <1>2, Zenon DEF Parts, GoodTrack
  <2>3. Fine(Aged(tracks[k]), nextId) /\ SameIdentity(Aged(tracks[k]), tracks[k])
    BY <2>2, AgedFine, Zenon
  <2>4. GoodTrack(Aged(tracks[k]), nextId, residentIds, catalog)
    BY <2>2, <2>3, IdentityKeeps
  <2> QED
    BY <2>1, <2>3, <2>4, Zenon DEF Fine, SameIdentity
<1>5. DOMAIN tracks' = DOMAIN tracks
  BY <1>1
<1>6. tracks' \in Seq(Track) /\ Len(tracks') <= MaxLive
  <2>1. tracks' \in [1 .. Len(tracks) -> Track]
    BY <1>1, <1>3, <1>4
  <2> QED
    BY <2>1, <1>3
<1>7. IdsApart(tracks') /\ IdsOf(tracks') = IdsOf(tracks)
  <2>1. IdsApart(tracks)
    BY <1>2, Zenon DEF Parts
  <2>2. \A k \in DOMAIN tracks : tracks'[k].id = tracks[k].id
    BY <1>4, Zenon
  <2> QED
    BY <2>1, <2>2, <1>5 DEF IdsApart, IdsOf
<1>8. /\ ghosts' \in Seq(Ghost) /\ DOMAIN ghosts' = DOMAIN ghosts
      /\ \A k \in DOMAIN ghosts : ghosts'[k].id = ghosts[k].id
  <2>1. ghosts \in Seq(Ghost)
    BY <1>2, Zenon DEF Parts
  <2> QED
    BY <2>1, <1>1, OlderFacts, Zenon
<1>9. IdsApart(ghosts') /\ IdsOf(ghosts') = IdsOf(ghosts)
  <2>1. IdsApart(ghosts)
    BY <1>2, Zenon DEF Parts
  <2> QED
    BY <2>1, <1>8 DEF IdsApart, IdsOf
<1>10. ASSUME NEW g \in DOMAIN ghosts'
       PROVE  GoodGhost(ghosts'[g], nextId, residentIds)
  <2>1. ghosts'[g] \in Ghost
    BY <1>8
  <2>2. ghosts[g].id < nextId /\ ghosts[g].id \notin DOMAIN residentIds
    BY <1>2, <1>8, Zenon DEF Parts, GoodGhost
  <2> QED
    BY <2>1, <2>2, <1>8, Zenon DEF GoodGhost
<1>11. \A k \in DOMAIN tracks' : GoodTrack(tracks'[k], nextId, residentIds, catalog)
  BY <1>4, <1>5, Zenon
<1>12. Sound(tracks', ghosts', nextId, residentIds, catalog)
  BY <1>2, <1>6, <1>7, <1>8, <1>9, <1>10, <1>11, Zenon DEF Sound, Parts
<1> QED
  BY <1>1, <1>12, Zenon DEF TrackerInv

\* The tracks of a frame: those that are not killed, and the new ones.
NowTracks(matched, made) ==
  LET aged == [k \in DOMAIN tracks |-> Aged(tracks[k])]
      dying == {k \in DOMAIN tracks \ matched : Killed(tracks[k])}
      after == [k \in DOMAIN tracks |->
                  IF k \in matched THEN Hit(aged[k]) ELSE Missed(aged[k])]
  IN At(after, DOMAIN tracks \ dying) \o [n \in 1 .. made |-> NewTrack(nextId + n - 1)]

LEMMA NewTrackFine ==
  ASSUME NEW id \in Ids, NEW nx, id < nx
  PROVE  /\ Fine(NewTrack(id), nx) /\ NewTrack(id).id = id
         /\ NewTrack(id).name = "" /\ NewTrack(id) \in Track
<1> DEFINE yes == TRUE
           no == FALSE
           s == TrackOf(id, "NEW", 1, 0, "", 0, Nobody, yes, no)
<1>1. NewTrack(id) = s
  BY Zenon DEF NewTrack, TrackOf
<1>2. 1 \in 0 .. ConfirmHits /\ 0 \in 0 .. LostMissed + MaxMissed /\ 0 \in 0 .. LongestRetry
  BY Limits, RetryIsNat
<1>3. s \in Track
  BY <1>2, TypedByFields, Zenon
<1> HIDE DEF yes, no
<1>4. s.id = id /\ s.state = "NEW" /\ s.name = ""
  BY Zenon DEF TrackOf
<1> HIDE DEF s
<1>5. Fine(s, nx)
  BY <1>3, <1>4, Zenon DEF Fine
<1> QED
  BY <1>1, <1>3, <1>4, <1>5, Zenon

LEMMA NowSound ==
  ASSUME Parts, NEW matched \in SUBSET DOMAIN tracks, NEW made \in Nat,
         nextId + made <= MaxIds + 1
  PROVE  LET now == NowTracks(matched, made)
             dying == {k \in DOMAIN tracks \ matched : Killed(tracks[k])}
         IN /\ now \in Seq(Track) /\ IdsApart(now)
            /\ \A k \in DOMAIN now : GoodTrack(now[k], nextId + made, residentIds, catalog)
            /\ \A k \in DOMAIN now : \/ \E i \in DOMAIN tracks \ dying : now[k].id = tracks[i].id
                                     \/ now[k].id >= nextId
<1> DEFINE aged == [k \in DOMAIN tracks |-> Aged(tracks[k])]
           dying == {k \in DOMAIN tracks \ matched : Killed(tracks[k])}
           after == [k \in DOMAIN tracks |->
                       IF k \in matched THEN Hit(aged[k]) ELSE Missed(aged[k])]
           alive == DOMAIN tracks \ dying
           kept == At(after, alive)
           new == [n \in 1 .. made |-> NewTrack(nextId + n - 1)]
           now == kept \o new
<1>1. NowTracks(matched, made) = now
  BY DEF NowTracks
<1>2. DOMAIN tracks = 1 .. Len(tracks) /\ Len(tracks) \in Nat /\ nextId \in Nat
      /\ nextId >= 1
  <2>1. DOMAIN tracks = 1 .. Len(tracks) /\ Len(tracks) \in Nat /\ nextId \in 1 .. MaxIds + 1
    BY Zenon DEF Parts
  <2> QED
    BY <2>1, Limits
<1>3. ASSUME NEW k \in alive
      PROVE  /\ Fine(after[k], nextId) /\ SameIdentity(after[k], tracks[k])
             /\ GoodTrack(after[k], nextId, residentIds, catalog)
             /\ k \in DOMAIN tracks
  <2> DEFINE a == Aged(tracks[k])
  <2>0. k \in DOMAIN tracks /\ (k \in matched \/ ~Killed(tracks[k]))
    OBVIOUS
  <2>1. GoodTrack(tracks[k], nextId, residentIds, catalog)
    BY <2>0, Zenon DEF Parts
  <2>2. /\ Fine(a, nextId) /\ SameIdentity(a, tracks[k])
        /\ a.state = tracks[k].state /\ a.missed = tracks[k].missed
    BY <2>1, AgedFine, Zenon DEF GoodTrack
  <2>3. after[k] = IF k \in matched THEN Hit(a) ELSE Missed(a)
    BY <2>0
  <2> HIDE DEF a, after
  <2>4. Fine(Hit(a), nextId) /\ SameIdentity(Hit(a), a)
    BY <2>2, HitFine, Zenon
  <2>5. ASSUME ~Killed(tracks[k])
        PROVE  Fine(Missed(a), nextId) /\ SameIdentity(Missed(a), a)
    <3>1. ~Killed(a)
      BY <2>2, <2>5, Zenon DEF Killed
    <3> QED
      BY <2>2, <3>1, MissFine, Zenon
  <2>6. Fine(after[k], nextId) /\ SameIdentity(after[k], a)
    BY <2>0, <2>3, <2>4, <2>5, Zenon
  <2>7. SameIdentity(after[k], tracks[k])
    BY <2>2, <2>6, Zenon DEF SameIdentity
  <2>8. GoodTrack(after[k], nextId, residentIds, catalog)
    BY <2>1, <2>6, <2>7, IdentityKeeps
  <2> QED
    BY <2>0, <2>6, <2>7, <2>8
<1>4. \A k \in alive : after[k].id = tracks[k].id /\ after[k] \in Track
  BY <1>3, Zenon DEF SameIdentity, Fine
<1>5. DOMAIN after = 1 .. Len(tracks) /\ alive \in SUBSET (1 .. Len(tracks))
  BY <1>2
<1>6. \A i, j \in alive : tracks[i].id = tracks[j].id => i = j
  BY <1>2 DEF Parts, IdsApart
<1> HIDE DEF after, alive
<1>7. kept \in Seq(Track)
  BY <1>2, <1>4, <1>5, AtSeq
<1>8. /\ \A k \in DOMAIN kept : \E i \in alive : kept[k] = after[i]
      /\ IdsApart(kept)
  <2>1. \A i, j \in alive : after[i].id = after[j].id => i = j
    BY <1>4, <1>6
  <2> QED
    BY <1>2, <1>5, <2>1, AtFacts
<1>9. ASSUME NEW k \in DOMAIN kept
      PROVE  /\ GoodTrack(kept[k], nextId, residentIds, catalog)
             /\ \E i \in alive : kept[k].id = tracks[i].id
  BY <1>3, <1>4, <1>8
<1>10. ASSUME NEW n \in 1 .. made
       PROVE  LET t == NewTrack(nextId + n - 1)
              IN /\ t \in Track /\ t.id = nextId + n - 1 /\ t.id >= nextId
                 /\ GoodTrack(t, nextId + made, residentIds, catalog)
  <2> DEFINE id == nextId + n - 1
             t == NewTrack(id)
  <2>1. id \in Ids /\ id < nextId + made /\ id >= nextId
    BY <1>2, Limits DEF Ids
  <2> HIDE DEF id
  <2>2. Fine(t, nextId + made) /\ t.id = id /\ t.name = "" /\ t \in Track
    BY <2>1, NewTrackFine, Zenon
  <2>3. Shown(t, residentIds, catalog) /\ Tried(t, residentIds)
    BY <2>2, Zenon DEF Shown, Tried, Known
  <2>4. GoodTrack(t, nextId + made, residentIds, catalog)
    BY <2>2, <2>3, Zenon DEF GoodTrack
  <2>5. t \in Track /\ t.id = id /\ t.id >= nextId /\ GoodTrack(t, nextId + made, residentIds, catalog)
    BY <2>1, <2>2, <2>4, Zenon
  <2> QED
    BY <2>5, Zenon DEF id
<1>11. /\ new \in Seq(Track) /\ DOMAIN new = 1 .. made
       /\ \A n \in DOMAIN new : /\ new[n].id = nextId + n - 1 /\ new[n].id >= nextId
                               /\ GoodTrack(new[n], nextId + made, residentIds, catalog)
  <2>1. new \in [1 .. made -> Track]
    BY <1>10
  <2> QED
    BY <1>10, <2>1
<1> HIDE DEF new, kept
<1>12. IdsApart(new)
  <2>1. ASSUME NEW i \in 1 .. made, NEW j \in 1 .. made, new[i].id = new[j].id
        PROVE  i = j
    <3>1. new[i].id = nextId + i - 1 /\ new[j].id = nextId + j - 1
      BY <1>11
    <3> QED
      BY <3>1, <2>1, <1>2
  <2> QED
    BY <2>1, <1>11 DEF IdsApart
<1>13. \A k \in DOMAIN kept : kept[k].id < nextId
  BY <1>9, Zenon DEF GoodTrack, Fine
<1>14. IdsOf(kept) \cap IdsOf(new) = {}
  <2>1. \A k \in DOMAIN kept, n \in DOMAIN new : kept[k].id # new[n].id
    <3>1. ASSUME NEW k \in DOMAIN kept, NEW n \in DOMAIN new
          PROVE  kept[k].id # new[n].id
      <4>1. new[n].id >= nextId /\ kept[k].id < nextId
        BY <1>11, <1>13
      <4>2. kept[k].id \in Nat /\ new[n].id \in Nat
        <5>1. kept[k] \in Track /\ new[n] \in Track
          BY <1>7, <1>11
        <5>2. kept[k].id \in Ids /\ new[n].id \in Ids
          BY <5>1, TrackByFields, Zenon
        <5> QED
          BY <5>2, Limits DEF Ids
      <4> QED
        BY <4>1, <4>2, <1>2
    <3> QED
      BY <3>1
  <2> QED
    BY <2>1 DEF IdsOf
<1>15. /\ now \in Seq(Track) /\ IdsApart(now)
       /\ \A k \in DOMAIN now :
            \/ k \in DOMAIN kept /\ now[k] = kept[k]
            \/ k - Len(kept) \in DOMAIN new /\ now[k] = new[k - Len(kept)]
  BY <1>7, <1>8, <1>11, <1>12, <1>14, JoinFacts
<1>16. ASSUME NEW t, GoodTrack(t, nextId, residentIds, catalog)
       PROVE  GoodTrack(t, nextId + made, residentIds, catalog)
  <2>1. t \in Track /\ t.id < nextId
    BY <1>16, Zenon DEF GoodTrack, Fine
  <2>2. t.id \in Nat
    <3>1. t.id \in Ids
      BY <2>1, TrackByFields, Zenon
    <3> QED
      BY <3>1, Limits DEF Ids
  <2>3. t.id < nextId + made
    BY <2>1, <2>2, <1>2
  <2> QED
    BY <1>16, <2>3, Zenon DEF GoodTrack, Fine
<1> HIDE DEF now
<1>17. \A k \in DOMAIN now : GoodTrack(now[k], nextId + made, residentIds, catalog)
  BY <1>9, <1>11, <1>15, <1>16, Zenon
<1>18. \A k \in DOMAIN now : \/ \E i \in alive : now[k].id = tracks[i].id
                             \/ now[k].id >= nextId
  BY <1>9, <1>11, <1>15, Zenon
<1> QED
  BY <1>1, <1>15, <1>17, <1>18 DEF alive

LEMMA UpdateKeeps ==
  ASSUME TrackerInv, NEW matched \in SUBSET DOMAIN tracks, NEW made \in 0 .. MaxLive,
         Update(matched, made)
  PROVE  TrackerInv'
<1> DEFINE aged == [k \in DOMAIN tracks |-> Aged(tracks[k])]
           dying == {k \in DOMAIN tracks \ matched : Killed(tracks[k])}
           now == NowTracks(matched, made)
           dead == At(aged, dying)
           nx == nextId + made
           ri == LiveResidents(now)
           gs == GhostsAfter(Older, dead)
<1>1. /\ nx <= MaxIds + 1 /\ Len(now) <= MaxLive
      /\ tracks' = now /\ ghosts' = gs /\ nextId' = nx
      /\ residentIds' = ri /\ phase' = "detected" /\ catalog' = catalog
  BY Zenon DEF Update, NowTracks
<1>2. Parts
  BY TakenApart
<1>3. /\ DOMAIN tracks = 1 .. Len(tracks) /\ Len(tracks) \in Nat
      /\ nextId \in 1 .. MaxIds + 1 /\ residentIds \in ResidentIdMaps
      /\ ghosts \in Seq(Ghost) /\ IdsApart(tracks) /\ IdsApart(ghosts)
      /\ IdsOf(tracks) \cap IdsOf(ghosts) = {} /\ catalog \in Catalog
  BY <1>2, Zenon DEF Parts
<1>4. made \in Nat
  OBVIOUS
<1>5. /\ now \in Seq(Track) /\ IdsApart(now)
      /\ \A k \in DOMAIN now : GoodTrack(now[k], nx, residentIds, catalog)
      /\ \A k \in DOMAIN now : \/ \E i \in DOMAIN tracks \ dying : now[k].id = tracks[i].id
                               \/ now[k].id >= nextId
  BY <1>1, <1>2, <1>4, NowSound
<1> HIDE DEF now
<1>6. /\ ri \in ResidentIdMaps
      /\ \A i \in DOMAIN ri : i \in DOMAIN residentIds /\ i \in IdsOf(now)
      /\ \A k \in DOMAIN now : GoodTrack(now[k], nx, ri, catalog)
  BY <1>3, <1>5, LiveKeeps, Zenon
<1>7. nx \in 1 .. MaxIds + 1
  BY <1>1, <1>3, <1>4, Limits
<1>8. \A k \in DOMAIN tracks : /\ aged[k] \in Track /\ aged[k].id = tracks[k].id
                               /\ tracks[k].id < nextId
  <2>1. ASSUME NEW k \in DOMAIN tracks
        PROVE  /\ Aged(tracks[k]) \in Track /\ Aged(tracks[k]).id = tracks[k].id
               /\ tracks[k].id < nextId
    <3>1. Fine(tracks[k], nextId)
      BY <1>2, Zenon DEF Parts, GoodTrack
    <3> QED
      BY <3>1, AgedFine, Zenon DEF Fine, SameIdentity
  <2> QED
    BY <2>1
<1>9. DOMAIN aged = 1 .. Len(tracks) /\ dying \in SUBSET (1 .. Len(tracks))
  BY <1>3
<1>10. /\ dead \in Seq(Track) /\ IdsApart(dead)
       /\ \A k \in DOMAIN dead : \E i \in dying : dead[k].id = tracks[i].id
  <2>0. \A i \in dying : i \in DOMAIN tracks
    OBVIOUS
  <2> HIDE DEF aged, dying
  <2>1. dead \in Seq(Track)
    BY <1>3, <1>8, <1>9, <2>0, AtSeq
  <2>2. \A i, j \in dying : aged[i].id = aged[j].id => i = j
    BY <1>3, <1>8, <2>0 DEF IdsApart
  <2>3. IdsApart(dead)
    BY <1>3, <1>9, <2>2, AtFacts
  <2>4. \A k \in DOMAIN dead : \E i \in dying : dead[k] = aged[i]
    BY <1>3, <1>9, AtFacts
  <2> QED
    BY <1>8, <2>0, <2>1, <2>3, <2>4
<1> HIDE DEF aged, dead, dying
<1>11. \A k \in dying : k \in DOMAIN tracks
  BY DEF dying
<1>12. IdsOf(dead) \subseteq IdsOf(tracks)
  BY <1>10, <1>11 DEF IdsOf
<1>13. /\ Older \in Seq(Ghost) /\ IdsApart(Older) /\ IdsOf(Older) = IdsOf(ghosts)
  <2>1. /\ Older \in Seq(Ghost) /\ DOMAIN Older = DOMAIN ghosts
        /\ \A k \in DOMAIN ghosts : Older[k].id = ghosts[k].id
    BY <1>3, OlderFacts, Zenon
  <2> QED
    BY <1>3, <2>1 DEF IdsApart, IdsOf
<1>14. /\ gs \in Seq(Ghost) /\ IdsApart(gs)
       /\ IdsOf(gs) \subseteq IdsOf(ghosts) \cup IdsOf(dead)
  <2>1. IdsOf(Older) \cap IdsOf(dead) = {}
    BY <1>3, <1>12, <1>13
  <2>2. /\ gs \in Seq(Ghost) /\ IdsApart(gs)
        /\ IdsOf(gs) \subseteq IdsOf(Older) \cup IdsOf(dead)
    BY <1>10, <1>13, <2>1, GhostsAfterFacts, Zenon
  <2> QED
    BY <1>13, <2>2, Zenon
<1> HIDE DEF gs, ri, nx
<1>15. nextId \in Nat /\ nx \in Nat /\ nextId <= nx
  BY <1>3, <1>4, Limits DEF nx
\* A number that is a ghost's or a dead track's is not a track's now.
<1>16. ASSUME NEW x \in IdsOf(ghosts) \cup IdsOf(dead)
       PROVE  x \in Nat /\ x < nextId /\ x \notin IdsOf(now)
  <2>1. x \in Ids /\ x < nextId
    <3>1. CASE x \in IdsOf(ghosts)
      <4>1. PICK g \in DOMAIN ghosts : x = ghosts[g].id
        BY <3>1 DEF IdsOf
      <4>2. ghosts[g] \in Ghost /\ x < nextId
        BY <4>1, <1>2, Zenon DEF Parts, GoodGhost
      <4>3. ghosts[g].id \in Ids
        BY <4>2 DEF Ghost
      <4> QED
        BY <4>1, <4>2, <4>3
    <3>2. CASE x \in IdsOf(dead)
      <4>1. PICK k \in DOMAIN tracks : x = tracks[k].id
        BY <3>2, <1>12 DEF IdsOf
      <4>2. tracks[k] \in Track /\ x < nextId
        BY <4>1, <1>2, Zenon DEF Parts, GoodTrack, Fine
      <4>3. tracks[k].id \in Ids
        BY <4>2, TrackByFields, Zenon
      <4> QED
        BY <4>1, <4>2, <4>3
    <3> QED
      BY <3>1, <3>2
  <2>2. x \in Nat
    BY <2>1, Limits DEF Ids
  <2>3. \A i \in DOMAIN tracks \ dying : x # tracks[i].id
    <3>1. CASE x \in IdsOf(ghosts)
      BY <3>1, <1>3 DEF IdsOf
    <3>2. CASE x \in IdsOf(dead)
      <4>1. PICK k \in DOMAIN dead : x = dead[k].id
        BY <3>2 DEF IdsOf
      <4>2. PICK j \in dying : x = tracks[j].id
        BY <4>1, <1>10
      <4> QED
        BY <4>2, <1>3, <1>11 DEF IdsApart
    <3> QED
      BY <3>1, <3>2
  <2>4. \A k \in DOMAIN now : x # now[k].id
    <3>1. ASSUME NEW k \in DOMAIN now, x = now[k].id
          PROVE  FALSE
      <4>1. now[k].id >= nextId
        BY <3>1, <1>5, <2>3
      <4> QED
        BY <4>1, <3>1, <2>1, <2>2, <1>15
    <3> QED
      BY <3>1
  <2> QED
    BY <2>1, <2>2, <2>4 DEF IdsOf
<1>17. ASSUME NEW g \in DOMAIN gs
       PROVE  GoodGhost(gs[g], nx, ri)
  <2>1. gs[g] \in Ghost
    BY <1>14
  <2>2. gs[g].id \in IdsOf(ghosts) \cup IdsOf(dead)
    BY <1>14 DEF IdsOf
  <2>3. gs[g].id \in Nat /\ gs[g].id < nextId /\ gs[g].id \notin IdsOf(now)
    BY <1>16, <2>2
  <2>4. gs[g].id < nx
    BY <2>3, <1>15
  <2>5. gs[g].id \notin DOMAIN ri
    BY <2>3, <1>6, Zenon
  <2> QED
    BY <2>1, <2>4, <2>5, Zenon DEF GoodGhost
<1>18. IdsOf(now) \cap IdsOf(gs) = {}
  BY <1>14, <1>16
<1>19. Sound(now, gs, nx, ri, catalog)
  BY <1>1, <1>3, <1>5, <1>6, <1>7, <1>14, <1>17, <1>18, Zenon DEF Sound
<1> QED
  BY <1>1, <1>19, Zenon DEF TrackerInv

\* The resident is stored under the id the track had; the track may have taken
\* over the id of a ghost, which then is no ghost's any more.
LEMMA RecordKeeps ==
  ASSUME TrackerInv, NEW k \in DOMAIN tracks, NEW rid \in DOMAIN catalog \cup {Nobody},
         Record(k, rid)
  PROVE  TrackerInv'
<1> DEFINE t == Recognised(tracks[k], rid)
           heirs == Heirs(tracks[k], t.name)
           first == CHOOSE g \in heirs : \A h \in heirs : g <= h
           yes == TRUE
           name == IF rid = Nobody THEN "unknown" ELSE catalog[rid]
           old == tracks[k].id
           x == IF heirs = {} THEN old ELSE ghosts[first].id
           T(i) == TrackOf(i, tracks[k].state, tracks[k].hits, tracks[k].missed,
                           name, 0, rid, yes, yes)
           gs == IF heirs = {} THEN ghosts ELSE At(ghosts, DOMAIN ghosts \ {first})
           ri == IF rid = Nobody THEN residentIds ELSE Stored(old, rid)
<1>1. Parts
  BY TakenApart
<1>2. /\ NeedsRecog(tracks[k]) /\ phase = "detected"
      /\ tracks' = [tracks EXCEPT ![k] = IF heirs = {} THEN t
                                         ELSE [t EXCEPT !.id = ghosts[first].id]]
      /\ ghosts' = gs /\ residentIds' = ri
      /\ nextId' = nextId /\ catalog' = catalog /\ phase' = phase
  BY Zenon DEF Record
<1>3. /\ tracks \in Seq(Track) /\ Len(tracks) <= MaxLive
      /\ DOMAIN tracks = 1 .. Len(tracks) /\ Len(tracks) \in Nat
      /\ ghosts \in Seq(Ghost)
      /\ DOMAIN ghosts = 1 .. Len(ghosts) /\ Len(ghosts) \in Nat
      /\ nextId \in 1 .. MaxIds + 1 /\ residentIds \in ResidentIdMaps
      /\ catalog \in Catalog
      /\ IdsApart(tracks) /\ IdsApart(ghosts) /\ IdsOf(tracks) \cap IdsOf(ghosts) = {}
  BY <1>1, Zenon DEF Parts
<1>4. /\ GoodTrack(tracks[k], nextId, residentIds, catalog)
      /\ Fine(tracks[k], nextId) /\ tracks[k] \in Track
  BY <1>1, Zenon DEF Parts, GoodTrack, Fine
<1>5. rid # Nobody => rid \in Residents /\ rid \in DOMAIN catalog /\ catalog[rid] \in Names
  <2>1. PICK S \in SUBSET Residents : catalog \in [S -> Names]
    BY <1>3 DEF Catalog
  <2> QED
    BY <2>1
<1>6. t = T(old)
  BY <1>4, RecognisedFields, Zenon
<1>7. heirs # {} => first \in DOMAIN ghosts
  <2>1. heirs \in SUBSET Nat /\ heirs \subseteq DOMAIN ghosts
    BY <1>3 DEF Heirs
  <2> HIDE DEF heirs
  <2>2. ASSUME heirs # {} PROVE \E g \in heirs : \A h \in heirs : g <= h
    BY <2>1, <2>2, LeastOf
  <2>3. heirs # {} => first \in heirs
    BY <2>2
  <2> QED
    BY <2>1, <2>3
<1> HIDE DEF heirs, first
<1>8. tracks' = [tracks EXCEPT ![k] = T(x)]
  <2>1. CASE heirs = {}
    BY <1>2, <1>6, <2>1, Zenon
  <2>2. CASE heirs # {}
    <3>1. [T(old) EXCEPT !.id = ghosts[first].id] = T(ghosts[first].id)
      <4> HIDE DEF name, yes, old
      <4> QED
        BY SetField
    <3> HIDE DEF T
    <3> QED
      BY <1>2, <1>6, <2>2, <3>1, Zenon
  <2> QED
    BY <2>1, <2>2
<1>9. \A i : /\ T(i).id = i /\ T(i).state = tracks[k].state
             /\ T(i).missed = tracks[k].missed /\ T(i).name = name
             /\ T(i).who = rid /\ T(i).current = yes /\ T(i).triedAll = yes
  BY Zenon DEF TrackOf
<1>10. \A i \in Ids : T(i) \in Track
  <2>1. rid \in Residents \cup {Nobody} /\ name \in Names \cup {"", "unknown"}
    BY <1>5, Zenon
  <2>2. 0 \in 0 .. LongestRetry
    BY RetryIsNat
  <2> HIDE DEF name
  <2> QED
    BY <1>4, <2>1, <2>2, TrackByFields, TypedByFields, Zenon
<1>11. yes = TRUE
  OBVIOUS
<1> HIDE DEF T, t, yes
<1>12. tracks[k].state = "CONFIRMED"
  BY <1>2, Zenon DEF NeedsRecog
<1>13. old \in Ids /\ old < nextId /\ old \in IdsOf(tracks)
  <2>1. old \in Ids /\ old < nextId
    BY <1>4, TrackByFields, Zenon DEF Fine
  <2> QED
    BY <2>1 DEF IdsOf
<1>14. heirs # {} => /\ x \in Ids /\ x < nextId /\ x \notin DOMAIN residentIds
                     /\ x \in IdsOf(ghosts) /\ x = ghosts[first].id
  <2>1. SUFFICES ASSUME heirs # {}
                 PROVE  /\ x \in Ids /\ x < nextId /\ x \notin DOMAIN residentIds
                        /\ x \in IdsOf(ghosts) /\ x = ghosts[first].id
    OBVIOUS
  <2>2. first \in DOMAIN ghosts /\ x = ghosts[first].id
    BY <1>7, <2>1
  <2>3. GoodGhost(ghosts[first], nextId, residentIds)
    BY <1>1, <2>2, Zenon DEF Parts
  <2>4. x \in Ids
    <3>1. ghosts[first] \in Ghost
      BY <2>3, Zenon DEF GoodGhost
    <3>2. ghosts[first].id \in Ids
      BY <3>1 DEF Ghost
    <3> QED
      BY <2>2, <3>2
  <2> QED
    BY <2>2, <2>3, <2>4 DEF GoodGhost, IdsOf
<1>15. heirs = {} => x = old
  OBVIOUS
<1> HIDE DEF x, old
<1>16. x \in Ids /\ x < nextId
  BY <1>13, <1>14, <1>15
<1>17. Fine(T(x), nextId)
  BY <1>4, <1>9, <1>10, <1>12, <1>16, Zenon DEF Fine, Active
<1>18. /\ ri \in ResidentIdMaps
       /\ \A i \in DOMAIN residentIds : i \in DOMAIN ri /\ (i # old => ri[i] = residentIds[i])
       /\ \A i \in DOMAIN ri : i \in DOMAIN residentIds \/ i = old
       /\ rid # Nobody => old \in DOMAIN ri /\ ri[old] = rid
       /\ rid = Nobody => ri = residentIds
  <2>1. CASE rid = Nobody
    BY <1>3, <2>1
  <2>2. CASE rid # Nobody
    <3>1. ri = [i \in DOMAIN residentIds \cup {old} |-> IF i = old THEN rid ELSE residentIds[i]]
      BY <2>2 DEF Stored, old
    <3>2. PICK S \in SUBSET Ids : residentIds \in [S -> Residents]
      BY <1>3 DEF ResidentIdMaps
    <3>3. ri \in [S \cup {old} -> Residents]
      BY <3>1, <3>2, <1>5, <2>2
    <3>4. S \cup {old} \in SUBSET Ids
      BY <1>13
    <3> HIDE DEF ri
    <3>5. ri \in ResidentIdMaps
      BY <3>3, <3>4 DEF ResidentIdMaps
    <3> QED
      BY <3>1, <3>5, <2>2
  <2> QED
    BY <2>1, <2>2
<1> HIDE DEF ri
<1>19. Shown(T(x), ri, catalog) /\ Tried(T(x), ri)
  <2>1. Tried(T(x), ri)
    BY <1>9, <1>11, Zenon DEF Tried
  <2>2. ASSUME x \in DOMAIN ri, Known(name)
        PROVE  ri[x] = rid /\ rid \in DOMAIN catalog /\ catalog[rid] = name
    <3>1. rid # Nobody /\ name = catalog[rid]
      BY <2>2, Zenon DEF Known
    <3>2. x = old
      <4>1. CASE heirs = {}
        BY <4>1, <1>15
      <4>2. CASE heirs # {}
        BY <4>2, <1>14, <1>18, <2>2
      <4> QED
        BY <4>1, <4>2
    <3> QED
      BY <3>1, <3>2, <1>5, <1>18
  <2> HIDE DEF name
  <2>3. Shown(T(x), ri, catalog)
    BY <2>2, <1>9, <1>11, Zenon DEF Shown
  <2> QED
    BY <2>1, <2>3
<1>20. GoodTrack(T(x), nextId, ri, catalog)
  BY <1>17, <1>19, Zenon DEF GoodTrack
<1> HIDE DEF name
<1>21. ASSUME NEW j \in DOMAIN tracks, j # k
       PROVE  /\ tracks'[j] = tracks[j] /\ GoodTrack(tracks[j], nextId, ri, catalog)
              /\ tracks[j].id # old /\ tracks[j].id # x
  <2>1. tracks'[j] = tracks[j]
    BY <1>8, <1>3, <1>21
  <2>2. tracks[j].id # old
    BY <1>3, <1>21 DEF IdsApart, old
  <2>3. tracks[j].id # x
    <3>1. tracks[j].id \in IdsOf(tracks)
      BY DEF IdsOf
    <3> QED
      BY <3>1, <2>2, <1>3, <1>14, <1>15
  <2>4. /\ Fine(tracks[j], nextId) /\ Shown(tracks[j], residentIds, catalog)
        /\ Tried(tracks[j], residentIds)
    BY <1>1, Zenon DEF Parts, GoodTrack
  <2>5. /\ tracks[j].id \in DOMAIN ri <=> tracks[j].id \in DOMAIN residentIds
        /\ tracks[j].id \in DOMAIN residentIds => ri[tracks[j].id] = residentIds[tracks[j].id]
    BY <2>2, <1>18
  <2>6. GoodTrack(tracks[j], nextId, ri, catalog)
    BY <2>4, <2>5, Zenon DEF GoodTrack, Shown, Tried
  <2> QED
    BY <2>1, <2>2, <2>3, <2>6
<1>22. tracks'[k] = T(x) /\ T(x).id = x /\ T(x) \in Track /\ DOMAIN tracks' = DOMAIN tracks
  <2>1. T(x) \in Track /\ T(x).id = x
    BY <1>9, <1>10, <1>16, Zenon
  <2> QED
    BY <2>1, <1>3, <1>8
<1>23. tracks' \in Seq(Track) /\ Len(tracks') <= MaxLive
  <2>1. \A j \in DOMAIN tracks : tracks[j] \in Track
    BY <1>3
  <2>2. tracks' \in [1 .. Len(tracks) -> Track]
    BY <1>3, <1>8, <1>22, <2>1
  <2> QED
    BY <2>2, <1>3
<1>24. \A j \in DOMAIN tracks' : GoodTrack(tracks'[j], nextId, ri, catalog)
  BY <1>20, <1>21, <1>22, Zenon
<1>25. IdsApart(tracks')
  <2>1. ASSUME NEW i \in DOMAIN tracks, NEW j \in DOMAIN tracks, i # j
        PROVE  tracks'[i].id # tracks'[j].id
    <3>1. CASE i = k
      BY <3>1, <2>1, <1>21, <1>22
    <3>2. CASE j = k
      BY <3>2, <2>1, <1>21, <1>22
    <3>3. CASE i # k /\ j # k
      BY <3>3, <2>1, <1>3, <1>21 DEF IdsApart
    <3> QED
      BY <3>1, <3>2, <3>3
  <2> QED
    BY <2>1, <1>22 DEF IdsApart
\* The ghosts left.
<1>26. /\ gs \in Seq(Ghost) /\ IdsApart(gs)
       /\ \A g \in DOMAIN gs : \E h \in DOMAIN ghosts :
            gs[g] = ghosts[h] /\ (heirs # {} => h # first)
  <2>1. CASE heirs = {}
    BY <2>1, <1>3
  <2>2. CASE heirs # {}
    <3> DEFINE P == DOMAIN ghosts \ {first}
    <3>1. P \in SUBSET (1 .. Len(ghosts)) /\ \A h \in P : ghosts[h] \in Ghost
      BY <1>3
    <3>2. \A i, j \in P : ghosts[i].id = ghosts[j].id => i = j
      BY <1>3 DEF IdsApart
    <3>3. gs = At(ghosts, P)
      BY <2>2
    <3>4. \A h \in P : h \in DOMAIN ghosts /\ h # first
      OBVIOUS
    <3> HIDE DEF gs, P
    <3>5. At(ghosts, P) \in Seq(Ghost)
      BY <1>3, <3>1, AtSeq
    <3>6. IdsApart(At(ghosts, P))
      BY <1>3, <3>1, <3>2, AtFacts
    <3>7. \A g \in DOMAIN At(ghosts, P) : \E h \in P : At(ghosts, P)[g] = ghosts[h]
      BY <1>3, <3>1, AtFacts
    <3> QED
      BY <3>3, <3>4, <3>5, <3>6, <3>7
  <2> QED
    BY <2>1, <2>2
<1> HIDE DEF gs
<1>27. ASSUME NEW g \in DOMAIN gs
       PROVE  /\ GoodGhost(gs[g], nextId, ri) /\ gs[g].id \notin IdsOf(tracks')
  <2>1. PICK h \in DOMAIN ghosts : gs[g] = ghosts[h] /\ (heirs # {} => h # first)
    BY <1>26
  <2>2. GoodGhost(ghosts[h], nextId, residentIds)
    BY <1>1, Zenon DEF Parts
  <2>3. ghosts[h].id \notin IdsOf(tracks)
    BY <1>3 DEF IdsOf
  <2>4. ghosts[h].id # old
    BY <2>3, <1>13
  <2>5. ghosts[h].id # x
    <3>1. CASE heirs = {}
      BY <3>1, <2>4, <1>15
    <3>2. CASE heirs # {}
      BY <3>2, <2>1, <1>3, <1>7, <1>14 DEF IdsApart
    <3> QED
      BY <3>1, <3>2
  <2>6. ghosts[h].id \notin DOMAIN ri
    BY <2>2, <2>4, <1>18 DEF GoodGhost
  <2>7. GoodGhost(gs[g], nextId, ri)
    BY <2>1, <2>2, <2>6, Zenon DEF GoodGhost
  <2>8. \A j \in DOMAIN tracks' : tracks'[j].id # ghosts[h].id
    <3>1. ASSUME NEW j \in DOMAIN tracks
          PROVE  tracks'[j].id # ghosts[h].id
      <4>1. CASE j = k
        BY <4>1, <1>22, <2>5
      <4>2. CASE j # k
        <5>1. tracks'[j].id = tracks[j].id
          BY <4>2, <1>21
        <5> QED
          BY <5>1, <2>3 DEF IdsOf
      <4> QED
        BY <4>1, <4>2
    <3> QED
      BY <3>1, <1>22
  <2> QED
    BY <2>1, <2>7, <2>8 DEF IdsOf
<1>28. IdsOf(tracks') \cap IdsOf(gs) = {}
  BY <1>27 DEF IdsOf
<1>29. Sound(tracks', gs, nextId, ri, catalog)
  BY <1>3, <1>18, <1>23, <1>24, <1>25, <1>26, <1>27, <1>28, Zenon DEF Sound
<1> QED
  BY <1>2, <1>29, Zenon DEF TrackerInv

\* A new catalog: a track that is left shows an entry that has not changed, and
\* one that shows nobody is looked up again if there are newcomers.
LEMMA ReloadKeeps ==
  ASSUME TrackerInv, NEW new \in Catalog, NEW changed \in SUBSET Residents,
         Differs(new) \subseteq changed, Reload(new, changed)
  PROVE  TrackerInv'
<1> DEFINE gone == changed \cup (DOMAIN catalog \ DOMAIN new)
           newcomers == DOMAIN new \ DOMAIN catalog # {}
           hit == {k \in DOMAIN tracks : Invalidated(tracks[k], gone, newcomers)}
           cur(k) == tracks[k].current /\ tracks[k].who \notin gone
           tried(k) == tracks[k].triedAll /\ ~newcomers
           left(k) == [tracks[k] EXCEPT !.current = cur(k), !.triedAll = tried(k)]
           t(k) == IF k \in hit THEN Forgotten(left(k)) ELSE left(k)
           hits == {tracks[k].id : k \in hit}
           ri == [i \in DOMAIN residentIds \ hits |-> residentIds[i]]
<1>1. Parts
  BY TakenApart
<1>2. /\ tracks' = [k \in DOMAIN tracks |-> t(k)]
      /\ ghosts' = <<>> /\ residentIds' = ri /\ catalog' = new
      /\ nextId' = nextId /\ phase' = phase
  BY Zenon DEF Reload
<1>3. /\ tracks \in Seq(Track) /\ Len(tracks) <= MaxLive
      /\ DOMAIN tracks = 1 .. Len(tracks) /\ Len(tracks) \in Nat
      /\ nextId \in 1 .. MaxIds + 1 /\ residentIds \in ResidentIdMaps
      /\ IdsApart(tracks)
  BY <1>1, Zenon DEF Parts
<1>4. /\ DOMAIN ri = DOMAIN residentIds \ hits
      /\ \A i \in DOMAIN ri : ri[i] = residentIds[i]
  OBVIOUS
<1>5. ri \in ResidentIdMaps
  <2>1. PICK S \in SUBSET Ids : residentIds \in [S -> Residents]
    BY <1>3 DEF ResidentIdMaps
  <2>2. ri \in [S \ hits -> Residents]
    BY <2>1
  <2> QED
    BY <2>2 DEF ResidentIdMaps
<1>6. \A k \in DOMAIN tracks : tracks[k].id \in hits <=> k \in hit
  <2>1. \A k \in hit : k \in DOMAIN tracks
    OBVIOUS
  <2> HIDE DEF hit
  <2> QED
    BY <2>1, <1>3 DEF IdsApart
<1>7. \A k \in DOMAIN tracks : k \in hit <=> Invalidated(tracks[k], gone, newcomers)
  OBVIOUS
<1>8. \A r \in DOMAIN catalog : r \notin gone => r \in DOMAIN new /\ new[r] = catalog[r]
  BY DEF Differs
<1> HIDE DEF ri, hits, hit, gone
<1>9. ASSUME NEW k \in DOMAIN tracks
      PROVE  /\ tracks'[k] = t(k) /\ t(k).id = tracks[k].id /\ t(k) \in Track
             /\ GoodTrack(t(k), nextId, ri, new)
  <2> DEFINE o == tracks[k]
             none == ""
             yes == TRUE
             c == cur(k)
             d == tried(k)
             A == TrackOf(o.id, o.state, o.hits, o.missed, none, 0, Nobody, yes, d)
             B == TrackOf(o.id, o.state, o.hits, o.missed, o.name, o.since, o.who, c, d)
  <2>1. tracks'[k] = t(k)
    <3> HIDE DEF t
    <3> QED
      BY <1>2
  <2>2. /\ Fine(o, nextId) /\ Shown(o, residentIds, catalog) /\ Tried(o, residentIds)
        /\ o \in Track
    BY <1>1, Zenon DEF Parts, GoodTrack, Fine
  <2>3. c \in BOOLEAN /\ d \in BOOLEAN
    BY Zenon
  <2>4. /\ c = TRUE <=> o.current = TRUE /\ o.who \notin gone
        /\ d = TRUE <=> o.triedAll = TRUE /\ ~newcomers
    <3>1. o.current \in BOOLEAN /\ o.triedAll \in BOOLEAN
      BY <2>2, TrackByFields, Zenon
    <3> QED
      BY <3>1, Zenon
  <2> HIDE DEF c, d
  <2>5. t(k) = IF k \in hit THEN A ELSE B
    <3> DEFINE l == left(k)
    <3>1. l = [o EXCEPT !.current = c, !.triedAll = d]
      BY Zenon DEF c, d
    <3>2. t(k) = IF k \in hit THEN Forgotten(l) ELSE l
      BY Zenon
    <3>3. o \in Track
      BY <2>2
    <3> HIDE DEF l, t, o
    <3>4. l = B
      BY <3>1, <3>3, LeftFields, Zenon
    <3>5. Forgotten(l) = A
      <4>1. \A a, b, m, n, e, f, g, h, i :
              Forgotten(TrackOf(a, b, m, n, e, f, g, h, i))
              = TrackOf(a, b, m, n, none, 0, Nobody, yes, i)
        BY ForgottenFields, Zenon
      <4> HIDE DEF none, yes
      <4>2. Forgotten(B) = A
        BY <4>1
      <4> HIDE DEF A, B
      <4> QED
        BY <3>4, <4>2, Zenon
    <3> QED
      BY <3>2, <3>4, <3>5, Zenon
  <2> HIDE DEF t
  <2>6. A \in Track /\ B \in Track
    <3>1. none \in Names \cup {"", "unknown"} /\ Nobody \in Residents \cup {Nobody} /\ yes \in BOOLEAN
      BY Zenon
    <3>2. 0 \in 0 .. LongestRetry
      BY RetryIsNat
    <3>3. /\ o.id \in Ids /\ o.state \in {"NEW", "CONFIRMED", "LOST"}
          /\ o.hits \in 0 .. ConfirmHits /\ o.missed \in 0 .. LostMissed + MaxMissed
      BY <2>2, TrackByFields, Zenon
    <3>4. ASSUME NEW y \in BOOLEAN, NEW z \in BOOLEAN
          PROVE  TrackOf(o.id, o.state, o.hits, o.missed, none, 0, Nobody, y, z) \in Track
      <4> HIDE DEF none, o
      <4> QED
        BY <3>1, <3>2, <3>3, TypedByFields, Zenon
    <3>5. B \in Track
      BY <2>2, <2>3, RetypedByFields, Zenon
    <3> QED
      BY <2>3, <3>1, <3>4, <3>5, Zenon
  <2>7. /\ A.id = o.id /\ A.state = o.state /\ A.missed = o.missed /\ A.name = ""
        /\ B.id = o.id /\ B.state = o.state /\ B.missed = o.missed /\ B.name = o.name
        /\ B.who = o.who /\ B.current = c /\ B.triedAll = d
    BY Zenon DEF TrackOf
  <2> HIDE DEF A, B
  <2>8. Fine(A, nextId) /\ Fine(B, nextId)
    BY <2>2, <2>6, <2>7, Zenon DEF Fine, Active
  <2>9. Shown(A, ri, new) /\ Tried(A, ri)
    BY <2>7, Zenon DEF Shown, Tried, Known
  <2>10. ASSUME k \notin hit
         PROVE  Shown(B, ri, new) /\ Tried(B, ri)
    <3>1. /\ ~Selected(o, gone, newcomers) /\ ~(newcomers /\ ~Known(o.name))
      BY <1>7, <2>10, Zenon DEF Invalidated
    <3>2. o.id \in DOMAIN ri <=> o.id \in DOMAIN residentIds
      BY <1>4, <1>6, <2>10, Zenon
    <3>3. o.id \in DOMAIN residentIds => ri[o.id] = residentIds[o.id]
      BY <1>4, <3>2, Zenon
    <3>4. ASSUME B.id \in DOMAIN ri, Known(B.name)
          PROVE  /\ B.current = TRUE /\ ri[B.id] = B.who
                 /\ ri[B.id] \in DOMAIN new /\ new[ri[B.id]] = B.name
      <4>1. o.id \in DOMAIN residentIds /\ Known(o.name)
        BY <3>4, <3>2, <2>7, Zenon
      <4>2. /\ o.current = TRUE /\ residentIds[o.id] = o.who
            /\ residentIds[o.id] \in DOMAIN catalog
            /\ catalog[residentIds[o.id]] = o.name
        BY <4>1, <2>2, Zenon DEF Shown
      <4>3. Active(o)
        BY <4>1, <2>2, Zenon DEF Fine, Known
      <4>4. ViewOf(o) = residentIds[o.id]
        BY <4>1, Zenon DEF ViewOf
      <4>5. o.who \notin gone
        BY <3>1, <4>2, <4>3, <4>4, Zenon DEF Selected
      <4>6. o.who \in DOMAIN new /\ new[o.who] = o.name
        BY <4>2, <4>5, <1>8, Zenon
      <4>7. c = TRUE
        BY <2>4, <4>2, <4>5, Zenon
      <4> QED
        BY <2>7, <3>3, <4>1, <4>2, <4>6, <4>7, Zenon
    <3>5. ASSUME B.name # "", B.id \notin DOMAIN ri
          PROVE  B.triedAll = TRUE
      <4>1. o.name # "" /\ o.id \notin DOMAIN residentIds
        BY <3>5, <3>2, <2>7, Zenon
      <4>2. o.triedAll = TRUE /\ Active(o)
        BY <4>1, <2>2, Zenon DEF Tried, Fine
      <4>3. ViewOf(o) = Nobody
        BY <4>1, <1>3, ViewIs, Zenon
      <4>4. ~newcomers
        BY <3>1, <4>2, <4>3, Zenon DEF Selected
      <4> QED
        BY <2>4, <2>7, <4>2, <4>4, Zenon
    <3> QED
      BY <3>4, <3>5, Zenon DEF Shown, Tried
  <2>11. GoodTrack(t(k), nextId, ri, new)
    BY <2>5, <2>8, <2>9, <2>10, Zenon DEF GoodTrack
  <2>12. t(k).id = o.id /\ t(k) \in Track
    BY <2>5, <2>6, <2>7, Zenon
  <2> QED
    BY <2>1, <2>11, <2>12
<1> HIDE DEF t
<1>10. DOMAIN tracks' = DOMAIN tracks
  BY <1>2
<1>11. tracks' \in Seq(Track) /\ Len(tracks') <= MaxLive
  <2>1. tracks' \in [1 .. Len(tracks) -> Track]
    BY <1>2, <1>3, <1>9
  <2> QED
    BY <2>1, <1>3
<1>12. IdsApart(tracks')
  BY <1>3, <1>9, <1>10 DEF IdsApart
<1>13. \A k \in DOMAIN tracks' : GoodTrack(tracks'[k], nextId, ri, new)
  BY <1>9, <1>10, Zenon
<1>14. /\ ghosts' \in Seq(Ghost) /\ DOMAIN ghosts' = {} /\ IdsApart(ghosts')
       /\ IdsOf(tracks') \cap IdsOf(ghosts') = {}
  <2>1. ghosts' = <<>> /\ ghosts' \in Seq(Ghost) /\ DOMAIN ghosts' = {}
    BY <1>2
  <2> QED
    BY <2>1 DEF IdsApart, IdsOf
<1>15. Sound(tracks', ghosts', nextId, ri, new)
  BY <1>3, <1>5, <1>11, <1>12, <1>13, <1>14, Zenon DEF Sound
<1>16. phase \in {"boundary", "detected"}
  BY Zenon DEF TrackerInv
<1> QED
  BY <1>2, <1>15, <1>16, Zenon DEF TrackerInv

LEMMA StepKeeps ==
  ASSUME TrackerInv, [Next]_vars
  PROVE  TrackerInv'
<1>1. CASE \E matched \in SUBSET DOMAIN tracks, made \in 0 .. MaxLive : Update(matched, made)
  BY <1>1, UpdateKeeps
<1>2. CASE Skip
  BY <1>2, SkipKeeps
<1>3. CASE \E k \in DOMAIN tracks, rid \in DOMAIN catalog \cup {Nobody} : Record(k, rid)
  BY <1>3, RecordKeeps
<1>4. CASE EndFrame
  BY <1>4, Zenon DEF EndFrame, TrackerInv
<1>5. CASE \E new \in Catalog, changed \in SUBSET Residents :
             /\ Differs(new) \subseteq changed
             /\ changed \subseteq DOMAIN catalog \cap DOMAIN new
             /\ Reload(new, changed)
  BY <1>5, ReloadKeeps
<1>6. CASE UNCHANGED vars
  BY <1>6, Zenon DEF vars, TrackerInv
<1> QED
  BY <1>1, <1>2, <1>3, <1>4, <1>5, <1>6, Zenon DEF Next

\* TrackerInv holds always: the tracks and ghosts are well formed, no two of
\* them share an id, the adapter keeps no resident for a ghost's id, and what a
\* track shows and tried fits the catalog.
THEOREM TrackerInvHolds == Spec => []TrackerInv
<1>1. Init => TrackerInv
  BY InitSound
<1>2. TrackerInv /\ [Next]_vars => TrackerInv'
  BY StepKeeps
<1> QED
  BY <1>1, <1>2, PTL DEF Spec

LEMMA SoundParts ==
  ASSUME TrackerInv
  PROVE  GreedyTypeOK /\ IdsAreUnique /\ ViewIsCurrent /\ NewcomersAreTried
<1>1. Parts
  BY TakenApart
<1>2. GreedyTypeOK
  <2>1. \A k \in DOMAIN tracks :
          /\ tracks[k].name # "" => Active(tracks[k])
          /\ tracks[k].state = "CONFIRMED" => tracks[k].missed < LostMissed
          /\ tracks[k].state = "LOST" => tracks[k].missed >= LostMissed
    BY <1>1, Zenon DEF Parts, GoodTrack, Fine
  <2>2. phase \in {"boundary", "detected"}
    BY Zenon DEF TrackerInv
  <2> QED
    BY <1>1, <2>1, <2>2, Zenon DEF Parts, GreedyTypeOK, ResidentIdMaps
<1>3. IdsAreUnique
  <2>1. IdsApart(tracks) /\ IdsApart(ghosts) /\ IdsOf(tracks) \cap IdsOf(ghosts) = {}
    BY <1>1, Zenon DEF Parts
  <2> QED
    BY <2>1 DEF IdsAreUnique, IdsApart, IdsOf
<1>4. ASSUME NEW k \in DOMAIN tracks
      PROVE  LET t == tracks[k]
             IN /\ Active(t) /\ Known(t.name) /\ ViewOf(t) # Nobody =>
                     /\ t.current /\ ViewOf(t) = t.who
                     /\ ViewOf(t) \in DOMAIN catalog /\ catalog[ViewOf(t)] = t.name
                /\ t.state = "CONFIRMED" /\ ViewOf(t) = Nobody /\ ~NeedsRecog(t)
                     => t.triedAll
  <2> DEFINE t == tracks[k]
  <2>1. Shown(t, residentIds, catalog) /\ Tried(t, residentIds)
    BY <1>1, Zenon DEF Parts, GoodTrack
  <2>2. ViewOf(t) = Nobody <=> t.id \notin DOMAIN residentIds
    BY <1>1, ViewIs, Zenon DEF Parts
  <2> HIDE DEF t
  <2>3. t.id \in DOMAIN residentIds => ViewOf(t) = residentIds[t.id]
    BY Zenon DEF ViewOf
  <2>4. ASSUME Known(t.name), ViewOf(t) # Nobody
        PROVE  /\ t.current /\ ViewOf(t) = t.who
               /\ ViewOf(t) \in DOMAIN catalog /\ catalog[ViewOf(t)] = t.name
    BY <2>1, <2>2, <2>3, <2>4, Zenon DEF Shown
  <2>5. ASSUME t.state = "CONFIRMED", ViewOf(t) = Nobody, ~NeedsRecog(t)
        PROVE  t.triedAll
    BY <2>1, <2>2, <2>5, Zenon DEF Tried, NeedsRecog
  <2> QED
    BY <2>4, <2>5, Zenon DEF t
<1> QED
  BY <1>2, <1>3, <1>4, Zenon DEF ViewIsCurrent, NewcomersAreTried

\* Every counter, name and id of the tracker stays in its range, a track with a
\* name is an active one, and its state fits the updates it has missed.
THEOREM GreedyIsTyped == Spec => []GreedyTypeOK
  BY TrackerInvHolds, SoundParts, PTL

\* However ids pass from ghosts to later tracks, no two tracks, no two ghosts
\* and no track and ghost have the same id.
THEOREM IdsStayUnique == Spec => []IdsAreUnique
  BY TrackerInvHolds, SoundParts, PTL

\* The resident a track with a name shows is the one it was last recognised as,
\* in the catalog with the entry of that time.
THEOREM ViewStaysCurrent == Spec => []ViewIsCurrent
  BY TrackerInvHolds, SoundParts, PTL

\* A confirmed track that shows nobody and is not to be looked up has been
\* compared with every resident of the catalog.
THEOREM NewcomersStayTried == Spec => []NewcomersAreTried
  BY TrackerInvHolds, SoundParts, PTL

(***************************************************************************)
(* The assignment of faces to tracks.                                      *)
(***************************************************************************)

-----------------------------------------------------------------------------
(* Least and greatest elements.                                             *)

HasBounds(S) == /\ \E x \in S : \A y \in S : x <= y
                /\ \E x \in S : \A y \in S : x >= y

LEMMA FiniteHasBounds ==
  ASSUME NEW S, S \subseteq Int, IsFiniteSet(S), S # {}
  PROVE  HasBounds(S)
<1> DEFINE Bad == {m \in Nat : \E A \in SUBSET Int :
                     /\ IsFiniteSet(A) /\ Cardinality(A) = m /\ A # {}
                     /\ ~HasBounds(A)}
<1>1. SUFFICES ASSUME Bad # {} PROVE FALSE
  BY FS_CardinalityType
<1>2. PICK m \in Bad : \A k \in Bad : m <= k
  BY <1>1, LeastOf
<1>3. PICK A \in SUBSET Int : /\ IsFiniteSet(A) /\ Cardinality(A) = m /\ A # {}
                              /\ ~HasBounds(A)
  BY <1>2
<1>4. PICK e \in A : TRUE
  BY <1>3
<1>5. IsFiniteSet(A \ {e}) /\ Cardinality(A \ {e}) = m - 1 /\ m - 1 \in Nat
  <2>1. IsFiniteSet(A \ {e}) /\ Cardinality(A \ {e}) = Cardinality(A) - 1
    BY <1>3, <1>4, FS_RemoveElement
  <2>2. Cardinality(A \ {e}) \in Nat
    BY <2>1, FS_CardinalityType
  <2> QED BY <1>3, <2>1, <2>2
<1>6. CASE A = {e}
  BY <1>3, <1>6 DEF HasBounds
<1>7. CASE A # {e}
  <2>1. A \ {e} # {} /\ A \ {e} \in SUBSET Int
    BY <1>4, <1>7
  <2>2. m - 1 \notin Bad
    BY <1>2, <1>5
  <2>3. HasBounds(A \ {e})
    BY <1>5, <2>1, <2>2
  <2>4. PICK x \in A \ {e}, z \in A \ {e} : \A y \in A \ {e} : x <= y /\ z >= y
    BY <2>3 DEF HasBounds
  <2>5. \E s \in A : \A y \in A : s <= y
    <3>1. CASE x <= e
      BY <2>4, <3>1
    <3>2. CASE ~(x <= e)
      BY <1>4, <2>4, <3>2
    <3> QED BY <3>1, <3>2
  <2>6. \E s \in A : \A y \in A : s >= y
    <3>1. CASE z >= e
      BY <2>4, <3>1
    <3>2. CASE ~(z >= e)
      BY <1>4, <2>4, <3>2
    <3> QED BY <3>1, <3>2
  <2> QED BY <1>3, <2>5, <2>6 DEF HasBounds
<1> QED BY <1>6, <1>7

LEMMA MinIs ==
  ASSUME NEW S, S \subseteq Int, IsFiniteSet(S), S # {}
  PROVE  Min(S) \in S /\ \A y \in S : Min(S) <= y
  BY FiniteHasBounds DEF HasBounds, Min

LEMMA MaxIs ==
  ASSUME NEW S, S \subseteq Int, IsFiniteSet(S), S # {}
  PROVE  Max(S) \in S /\ \A y \in S : y <= Max(S)
<1>1. \E x \in S : \A y \in S : x >= y
  BY FiniteHasBounds DEF HasBounds
<1>2. Max(S) \in S /\ \A y \in S : Max(S) >= y
  BY <1>1 DEF Max
<1> QED BY <1>2

-----------------------------------------------------------------------------
(* The matrices.                                                            *)

Entry == Int \cup {Forbidden}

IsMatrix(m) ==
  /\ m \in Seq(Seq(Entry))
  /\ \A f \in DOMAIN m : Len(m[f]) = Len(m[1])

Height == Len(cost)
Width == Cardinality(Cols)

LEMMA Shape ==
  ASSUME IsMatrix(cost)
  PROVE  /\ Height \in Nat /\ Rows = 1 .. Height
         /\ Width \in Nat /\ Cols = 1 .. Width
         /\ WorkCols = 1 .. (Height + Width)
         /\ Cols # {} => Height >= 1 /\ Width >= 1
         /\ \A r \in Rows : DOMAIN cost[r] = Cols
         /\ \A r \in Rows, c \in Cols : cost[r][c] \in Entry
<1>1. cost \in Seq(Seq(Entry)) /\ \A f \in DOMAIN cost : Len(cost[f]) = Len(cost[1])
  BY DEF IsMatrix
<1>2. Height \in Nat /\ Rows = 1 .. Height
  BY <1>1, LenProperties DEF Height, Rows
<1>3. \A r \in Rows : cost[r] \in Seq(Entry)
  BY <1>1, <1>2, ElementOfSeq DEF Height
<1>4. \A r \in Rows : /\ Len(cost[r]) \in Nat /\ DOMAIN cost[r] = 1 .. Len(cost[r])
                      /\ \A c \in DOMAIN cost[r] : cost[r][c] \in Entry
  <2> TAKE r \in Rows
  <2>1. cost[r] \in Seq(Entry)
    BY <1>3
  <2>2. Len(cost[r]) \in Nat /\ DOMAIN cost[r] = 1 .. Len(cost[r])
    BY <2>1, LenProperties
  <2>3. \A c \in 1 .. Len(cost[r]) : cost[r][c] \in Entry
    BY <2>1, ElementOfSeq
  <2> QED BY <2>2, <2>3
<1>5. CASE cost = <<>>
  <2>1. Cols = {} /\ Height = 0 /\ Rows = {}
    BY <1>2, <1>5 DEF Cols, Height
  <2>2. Width = 0
    BY <2>1, FS_EmptySet DEF Width
  <2>3. Cols = 1 .. Width
    BY <2>1, <2>2
  <2> QED BY <1>2, <2>1, <2>2, <2>3 DEF WorkCols, Height, Width
<1>6. CASE cost # <<>>
  <2>1. Height # 0
    BY <1>1, <1>6, EmptySeq DEF Height
  <2>2. 1 \in Rows /\ Height >= 1
    BY <1>2, <2>1
  <2>3. Cols = 1 .. Len(cost[1]) /\ Len(cost[1]) \in Nat
    BY <1>4, <1>6, <2>2 DEF Cols
  <2>4. Width = Len(cost[1])
    BY <2>3, FS_Interval DEF Width
  <2>5. \A r \in Rows : DOMAIN cost[r] = Cols
    BY <1>1, <1>4, <2>3 DEF Rows
  <2>6. WorkCols = 1 .. (Height + Width)
    BY DEF WorkCols, Height, Width
  <2>7. Cols # {} => Width >= 1
    BY <2>3, <2>4
  <2> QED BY <1>2, <1>4, <2>2, <2>3, <2>4, <2>5, <2>6, <2>7
<1> QED BY <1>5, <1>6

-----------------------------------------------------------------------------
(* The costs.                                                               *)

LEMMA LargestOfTwo ==
  ASSUME NEW a \in Int, NEW b \in Int
  PROVE  Max({a, b}) \in Int /\ a <= Max({a, b}) /\ b <= Max({a, b})
<1>1. \E x \in {a, b} : \A y \in {a, b} : x >= y
  BY SMT
<1>2. Max({a, b}) \in {a, b} /\ \A y \in {a, b} : Max({a, b}) >= y
  BY <1>1 DEF Max
<1> QED BY <1>2

LEMMA AllowedAreFinite ==
  ASSUME IsMatrix(cost)
  PROVE  IsFiniteSet(AllowedCosts) /\ AllowedCosts \subseteq Int
<1> DEFINE Q == {q \in Rows \X Cols : Allowed(q[1], q[2])}
           f == [q \in Q |-> cost[q[1]][q[2]]]
<1>1. IsFiniteSet(Rows) /\ IsFiniteSet(Cols)
  BY Shape, FS_Interval
<1>2. IsFiniteSet(Rows \X Cols)
  BY <1>1, FS_Product
<1>3. IsFiniteSet(Q)
  BY <1>2, FS_Subset
<1>4. f \in Surjection(Q, AllowedCosts)
  BY DEF Surjection, AllowedCosts
<1>5. IsFiniteSet(AllowedCosts)
  BY <1>3, <1>4, FS_Surjection
<1>6. \A r \in Rows, c \in Cols : Allowed(r, c) => cost[r][c] \in Int
  BY Shape DEF Allowed, Entry
<1> QED BY <1>5, <1>6 DEF AllowedCosts

LEMMA CostsAreNumbers ==
  ASSUME IsMatrix(cost)
  PROVE  /\ DummyCost \in Int /\ BlockedCost \in Int /\ DummyCost <= BlockedCost
         /\ \A r \in Rows, c \in Nat : WorkCost(r, c) \in Int
<1>1. \A i \in Int : Abs(i) \in Int
  BY DEF Abs
<1>2. DummyCost \in Int
  <2>1. CASE AllowedCosts = {}
    BY <2>1 DEF DummyCost
  <2>2. CASE AllowedCosts # {}
    <3> DEFINE most == Max(AllowedCosts)
    <3>1. most \in Int
      BY <2>2, AllowedAreFinite, MaxIs
    <3> HIDE DEF most
    <3>2. Max({1, Abs(most) + 1}) \in Int
      <4>1. \A i \in Int : Max({1, i}) \in Int
        BY LargestOfTwo
      <4>2. Abs(most) + 1 \in Int
        BY <1>1, <3>1
      <4> QED BY <4>1, <4>2
    <3>3. most + Max({1, Abs(most) + 1}) \in Int
      BY <3>1, <3>2
    <3> QED BY <2>2, <3>3 DEF DummyCost, most
  <2> QED BY <2>1, <2>2
<1>3. BlockedCost \in Int /\ DummyCost <= BlockedCost
  <2> DEFINE rise == Max({1, Abs(DummyCost) + 1})
  <2>1. rise \in Int /\ 1 <= rise
    BY <1>1, <1>2, LargestOfTwo
  <2>2. BlockedCost = DummyCost + rise
    BY DEF BlockedCost
  <2> HIDE DEF rise
  <2> QED BY <1>2, <2>1, <2>2
<1>4. ASSUME NEW r \in Rows, NEW c \in Nat
      PROVE  WorkCost(r, c) \in Int
  <2>1. c \in Cols /\ Allowed(r, c) => cost[r][c] \in Int
    BY Shape DEF Allowed, Entry
  <2> QED BY <1>2, <1>3, <2>1 DEF WorkCost
<1> QED BY <1>2, <1>3, <1>4

-----------------------------------------------------------------------------
(* The invariant.  A pair's slack is what its cost exceeds its potentials   *)
(* by.                                                                      *)

AllCols == WorkCols \cup {0}

Slack(w, a, b, r, c) == w[r][c] - a[r] - b[c]

Feasible(w, a, b, k, C) == \A r \in 1 .. k, c \in C : 0 <= Slack(w, a, b, r, c)

\* Each of the first k rows has one of the columns, and no column another row.
Placed(q, D, k) ==
  /\ \A c \in D : q[c] \in 0 .. k
  /\ \A r \in 1 .. k : \E c \in D : q[c] = r
  /\ \A c, d \in D : q[c] = q[d] /\ q[c] # 0 => c = d

\* Columns that are taken are paid in full, free ones have no price.
Paid(w, a, b, q, D) ==
  \A c \in D : /\ b[c] <= 0
               /\ q[c] = 0 => b[c] = 0
               /\ q[c] # 0 => Slack(w, a, b, q[c], c) = 0

\* The column before c on its path, with the row it has, pays for c.
Reached(w, a, b, q, y, T, c) ==
  y[c] \in T /\ Slack(w, a, b, q[y[c]], c) = 0

Potentials ==
  /\ row \in 1 .. Height + 1
  /\ work = [r \in Rows |-> [c \in WorkCols |-> WorkCost(r, c)]]
  /\ u \in [Rows -> Int] /\ v \in [AllCols -> Int]
  /\ p \in [AllCols -> Rows \cup {0}] /\ way \in [AllCols -> AllCols]

RowInv ==
  /\ Potentials
  /\ Feasible(work, u, v, row - 1, WorkCols)
  /\ Placed(p, WorkCols, row - 1) /\ Paid(work, u, v, p, WorkCols)

\* What the search knows of the columns that are not on the tree.
Searched(w, a, b, q, y, m, T, C) ==
  \A c \in C \ T : /\ m[c] \in Int
                   /\ y[c] \in T /\ m[c] = Slack(w, a, b, q[y[c]], c)
                   /\ \A d \in T : m[c] <= Slack(w, a, b, q[d], c)

Ranked(y, T) == \E rank \in [AllCols -> Nat] : \A c \in T \ {0} : rank[y[c]] < rank[c]

Growing ==
  /\ Potentials /\ row \in Rows
  /\ Placed(p, AllCols, row) /\ p[0] = row /\ Paid(work, u, v, p, WorkCols)
  /\ col0 \in AllCols \ used /\ used \subseteq AllCols
  /\ \A c \in used \cup {col0} : p[c] # 0
  /\ DOMAIN minv = WorkCols

FirstRound ==
  /\ used = {} /\ col0 = 0 /\ minv = [c \in WorkCols |-> Infinity]
  /\ Feasible(work, u, v, row - 1, WorkCols)

LaterRound ==
  /\ 0 \in used /\ col0 # 0 /\ minv[col0] = 0
  /\ Feasible(work, u, v, row, WorkCols)
  /\ Searched(work, u, v, p, way, minv, used, WorkCols)
  /\ \A c \in used \ {0} : Reached(work, u, v, p, way, used, c)
  /\ Ranked(way, used \cup {col0})

ScanInv == Growing /\ (FirstRound \/ LaterRound)

AugmentInv ==
  /\ Potentials /\ row \in Rows
  /\ Feasible(work, u, v, row, WorkCols)
  /\ Placed(p, AllCols \ {col0}, row)
  /\ Paid(work, u, v, p, WorkCols \ {col0}) /\ v[col0] <= 0
  /\ col0 \in WorkCols /\ used \subseteq AllCols /\ 0 \in used
  /\ \A c \in used : p[c] # 0
  /\ \E rank \in [AllCols -> Nat] :
       \A c \in (used \cup {col0}) \ {0} :
         rank[c] <= rank[col0] =>
           Reached(work, u, v, p, way, used, c) /\ rank[way[c]] < rank[c]

Linked == [r \in Rows |-> LET own == {c \in Cols : p[c] = r /\ Allowed(r, c)}
                          IN IF own = {} THEN 0 ELSE Max(own)]

AssocInv ==
  /\ IsMatrix(cost)
  /\ pc \in {"start", "row", "scan", "augment", "done"}
  /\ pc = "start" => row = 1
  /\ pc \notin {"start", "done"} => Cols # {}
  /\ pc = "row" => RowInv
  /\ pc = "scan" => ScanInv
  /\ pc = "augment" => AugmentInv
  /\ pc = "done" /\ Cols # {} => RowInv /\ row = Height + 1 /\ links = Linked

LEMMA SameLength ==
  ASSUME NEW a \in Nat, NEW b \in Nat, 1 .. a = 1 .. b
  PROVE  a = b
<1>1. a <= b
  <2>1. CASE a = 0
    BY <2>1
  <2>2. CASE a # 0
    <3>1. a \in 1 .. b
      BY <2>2
    <3> QED BY <3>1
  <2> QED BY <2>1, <2>2
<1>2. b <= a
  <2>1. CASE b = 0
    BY <2>1
  <2>2. CASE b # 0
    <3>1. b \in 1 .. a
      BY <2>2
    <3> QED BY <3>1
  <2> QED BY <2>1, <2>2
<1> QED BY <1>1, <1>2

LEMMA Start == AssocInit => AssocInv
<1> SUFFICES ASSUME AssocInit PROVE AssocInv
  OBVIOUS
<1>1. pc = "start" /\ row = 1
  BY DEF AssocInit
<1>2. PICK raw \in Matrices : \E fresh : cost = Candidates(raw, fresh)
  BY DEF AssocInit
<1> PICK fresh : cost = Candidates(raw, fresh)
  BY <1>2
<1>3. raw \in Seq(Seq(Entry)) /\ \A f \in DOMAIN raw : Len(raw[f]) = Len(raw[1])
  BY AssocAssumption DEF Entry
<1>4. Len(raw) \in Nat /\ DOMAIN raw = 1 .. Len(raw) /\ DOMAIN cost = DOMAIN raw
  BY <1>3, LenProperties DEF Candidates
<1>5. ASSUME NEW f \in DOMAIN raw
      PROVE  cost[f] \in Seq(Entry) /\ Len(cost[f]) = Len(raw[f])
  <2>1. raw[f] \in Seq(Entry)
    BY <1>3, <1>4, ElementOfSeq
  <2>2. /\ Len(raw[f]) \in Nat /\ DOMAIN raw[f] = 1 .. Len(raw[f])
        /\ \A t \in 1 .. Len(raw[f]) : raw[f][t] \in Entry
    BY <2>1, LenProperties, ElementOfSeq
  <2>3. cost[f] = [t \in DOMAIN raw[f] |-> IF t \in fresh THEN raw[f][t] ELSE Forbidden]
    BY <1>5 DEF Candidates
  <2>4. cost[f] \in [1 .. Len(raw[f]) -> Entry]
    BY <2>2, <2>3 DEF Entry
  <2>5. cost[f] \in Seq(Entry)
    BY <2>2, <2>4, SeqDef
  <2>6. Len(cost[f]) \in Nat /\ 1 .. Len(cost[f]) = 1 .. Len(raw[f])
    BY <2>4, <2>5, LenProperties
  <2> QED BY <2>2, <2>5, <2>6, SameLength
<1>6. cost \in [1 .. Len(raw) -> Seq(Entry)]
  BY <1>4, <1>5 DEF Candidates
<1>7. cost \in Seq(Seq(Entry))
  BY <1>4, <1>6, SeqDef
<1>8. \A f \in DOMAIN cost : Len(cost[f]) = Len(cost[1])
  <2> TAKE f \in DOMAIN cost
  <2>1. f \in DOMAIN raw /\ 1 \in DOMAIN raw
    BY <1>4
  <2> QED BY <1>3, <1>5, <2>1
<1> QED BY <1>1, <1>7, <1>8 DEF AssocInv, IsMatrix

-----------------------------------------------------------------------------
(* The steps around the search.                                             *)

\* The matrix does not change, and nothing depends on what is not primed here.
LEMMA SameShape ==
  ASSUME cost' = cost
  PROVE  /\ IsMatrix(cost)' = IsMatrix(cost) /\ Cols' = Cols /\ Rows' = Rows
         /\ WorkCols' = WorkCols /\ AllCols' = AllCols /\ Height' = Height
         /\ \A r \in Rows, c \in WorkCols : WorkCost(r, c)' = WorkCost(r, c)
<1>1. IsMatrix(cost)' = IsMatrix(cost) /\ Cols' = Cols /\ Rows' = Rows
  BY DEF IsMatrix, Cols, Rows
<1>2. WorkCols' = WorkCols /\ AllCols' = AllCols /\ Height' = Height
  BY <1>1 DEF WorkCols, AllCols, Height
<1>3. DummyCost' = DummyCost /\ BlockedCost' = BlockedCost
  BY <1>1 DEF DummyCost, BlockedCost, AllowedCosts, Allowed
<1>4. \A r \in Rows, c \in WorkCols : WorkCost(r, c)' = WorkCost(r, c)
  BY <1>1, <1>3 DEF WorkCost, Allowed
<1> QED BY <1>1, <1>2, <1>4

LEMMA PrepareSound ==
  ASSUME AssocInv, Prepare
  PROVE  AssocInv'
<1>1. IsMatrix(cost) /\ row = 1 /\ cost' = cost /\ row' = row /\ pc = "start"
  BY DEF AssocInv, Prepare
<1>2. IsMatrix(cost)' /\ Cols' = Cols /\ Rows' = Rows /\ WorkCols' = WorkCols
      /\ AllCols' = AllCols /\ Height' = Height
      /\ \A r \in Rows, c \in WorkCols : WorkCost(r, c)' = WorkCost(r, c)
  BY <1>1, SameShape
<1>3. CASE Cols = {}
  <2>1. pc' = "done"
    BY <1>3 DEF Prepare
  <2> QED BY <1>2, <1>3, <2>1 DEF AssocInv
<1>4. CASE Cols # {}
  <2>1. /\ pc' = "row" /\ work' = [r \in Rows |-> [c \in WorkCols |-> WorkCost(r, c)]]
        /\ u' = [r \in Rows |-> 0] /\ v' = [c \in WorkCols \cup {0} |-> 0]
        /\ p' = v' /\ way' = v'
    BY <1>4 DEF Prepare
  <2>2. /\ Height \in Nat /\ Rows = 1 .. Height /\ Height >= 1
        /\ WorkCols \subseteq AllCols /\ 0 \in AllCols
    BY <1>1, <1>4, Shape DEF AllCols
  <2>3. Potentials'
    <3>1. row' \in 1 .. Height + 1
      BY <1>1, <2>2
    <3>2. work' = [r \in Rows |-> [c \in WorkCols |-> WorkCost(r, c)']]
      BY <1>2, <2>1
    <3>3. /\ u' \in [Rows -> Int] /\ v' \in [AllCols -> Int]
          /\ p' \in [AllCols -> Rows \cup {0}] /\ way' \in [AllCols -> AllCols]
      BY <2>1, <2>2 DEF AllCols
    <3> QED BY <1>2, <3>1, <3>2, <3>3 DEF Potentials
  <2>4. RowInv'
    <3>1. Feasible(work', u', v', row' - 1, WorkCols)
      BY <1>1 DEF Feasible
    <3>2. Placed(p', WorkCols, row' - 1)
      BY <1>1, <2>1, <2>2 DEF Placed, AllCols
    <3>3. Paid(work', u', v', p', WorkCols)
      BY <2>1, <2>2 DEF Paid, AllCols
    <3> QED BY <1>2, <2>3, <3>1, <3>2, <3>3 DEF RowInv
  <2> QED BY <1>2, <1>4, <2>1, <2>4 DEF AssocInv
<1> QED BY <1>3, <1>4

LEMMA StartRowSound ==
  ASSUME AssocInv, StartRow
  PROVE  AssocInv'
<1>1. /\ IsMatrix(cost) /\ pc = "row" /\ row \in Rows /\ RowInv /\ Cols # {}
      /\ p' = [p EXCEPT ![0] = row] /\ col0' = 0 /\ used' = {}
      /\ minv' = [c \in WorkCols |-> Infinity] /\ pc' = "scan"
      /\ cost' = cost /\ work' = work /\ row' = row /\ u' = u /\ v' = v /\ way' = way
  BY DEF AssocInv, StartRow
<1>2. IsMatrix(cost)' /\ Cols' = Cols /\ Rows' = Rows /\ WorkCols' = WorkCols
      /\ AllCols' = AllCols /\ Height' = Height
      /\ \A r \in Rows, c \in WorkCols : WorkCost(r, c)' = WorkCost(r, c)
  BY <1>1, SameShape
<1>3. /\ Height \in Nat /\ Rows = 1 .. Height /\ 0 \notin WorkCols
      /\ AllCols = WorkCols \cup {0} /\ row \in Nat /\ row # 0
  BY <1>1, Shape DEF AllCols
<1>4. Potentials /\ Feasible(work, u, v, row - 1, WorkCols)
      /\ Placed(p, WorkCols, row - 1) /\ Paid(work, u, v, p, WorkCols)
  BY <1>1 DEF RowInv
<1>5. p \in [AllCols -> Rows \cup {0}]
  BY <1>4 DEF Potentials
<1>6. p' \in [AllCols -> Rows \cup {0}] /\ p'[0] = row /\ \A c \in WorkCols : p'[c] = p[c]
  BY <1>1, <1>3, <1>5
<1>7. Potentials'
  <2>1. work = [r \in Rows |-> [c \in WorkCols |-> WorkCost(r, c)']]
    BY <1>2, <1>4 DEF Potentials
  <2> QED BY <1>1, <1>2, <1>4, <1>6, <2>1 DEF Potentials
<1>8. Placed(p', AllCols, row)
  <2>1. \A c \in AllCols : p'[c] \in 0 .. row
    BY <1>3, <1>4, <1>6 DEF Placed
  <2>2. ASSUME NEW r \in 1 .. row PROVE \E c \in AllCols : p'[c] = r
    <3>1. CASE r = row
      BY <1>3, <1>6, <3>1
    <3>2. CASE r # row
      BY <1>3, <1>4, <1>6, <3>2 DEF Placed
    <3> QED BY <3>1, <3>2
  <2>3. ASSUME NEW c \in AllCols, NEW d \in AllCols, p'[c] = p'[d], p'[c] # 0
        PROVE  c = d
    <3>1. \A e \in WorkCols : p'[e] # row
      BY <1>3, <1>4, <1>6 DEF Placed
    <3>2. c \in WorkCols <=> d \in WorkCols
      BY <1>3, <1>6, <2>3, <3>1
    <3> QED BY <1>3, <1>4, <1>6, <2>3, <3>2 DEF Placed
  <2> QED BY <2>1, <2>2, <2>3 DEF Placed
<1>9. Paid(work, u, v, p', WorkCols)
  BY <1>4, <1>6 DEF Paid
<1>10. Growing'
  <2>1. col0' \in AllCols \ used' /\ used' \subseteq AllCols
        /\ \A c \in used' \cup {col0'} : p'[c] # 0
    BY <1>1, <1>3, <1>6
  <2> QED BY <1>1, <1>2, <1>6, <1>7, <1>8, <1>9, <2>1 DEF Growing
<1>11. FirstRound'
  BY <1>1, <1>2, <1>4 DEF FirstRound
<1> QED BY <1>1, <1>2, <1>10, <1>11 DEF AssocInv, ScanInv

LEMMA FinishSound ==
  ASSUME AssocInv, Finish
  PROVE  AssocInv'
<1>1. /\ IsMatrix(cost) /\ pc = "row" /\ row \notin Rows /\ RowInv
      /\ links' = Linked /\ pc' = "done"
      /\ cost' = cost /\ work' = work /\ row' = row /\ u' = u /\ v' = v
      /\ way' = way /\ p' = p
  BY DEF AssocInv, Finish, Linked
<1>2. IsMatrix(cost)' /\ Cols' = Cols /\ Rows' = Rows /\ WorkCols' = WorkCols
      /\ AllCols' = AllCols /\ Height' = Height
      /\ \A r \in Rows, c \in WorkCols : WorkCost(r, c)' = WorkCost(r, c)
  BY <1>1, SameShape
<1>3. Potentials'
  <2>1. work = [r \in Rows |-> [c \in WorkCols |-> WorkCost(r, c)']]
    BY <1>1, <1>2 DEF RowInv, Potentials
  <2> QED BY <1>1, <1>2, <2>1 DEF RowInv, Potentials
<1>4. RowInv'
  BY <1>1, <1>2, <1>3 DEF RowInv
<1>5. row' = Height + 1
  BY <1>1, Shape DEF RowInv, Potentials
<1>6. Linked' = Linked
  BY <1>1, <1>2 DEF Linked, Allowed
<1> QED BY <1>1, <1>2, <1>4, <1>5, <1>6 DEF AssocInv

LEMMA AugmentSound ==
  ASSUME AssocInv, Augment
  PROVE  AssocInv'
<1> DEFINE h == way[col0]
<1>1. /\ IsMatrix(cost) /\ pc = "augment" /\ AugmentInv /\ Cols # {}
      /\ p' = [p EXCEPT ![col0] = p[h]] /\ col0' = h /\ used' = used
      /\ cost' = cost /\ work' = work /\ u' = u /\ v' = v /\ way' = way
      /\ IF h = 0 THEN pc' = "row" /\ row' = row + 1 ELSE pc' = pc /\ row' = row
  BY DEF AssocInv, Augment
<1>2. IsMatrix(cost)' /\ Cols' = Cols /\ Rows' = Rows /\ WorkCols' = WorkCols
      /\ AllCols' = AllCols /\ Height' = Height
      /\ \A r \in Rows, c \in WorkCols : WorkCost(r, c)' = WorkCost(r, c)
  BY <1>1, SameShape
<1>3. /\ Height \in Nat /\ Rows = 1 .. Height /\ 0 \notin WorkCols
      /\ AllCols = WorkCols \cup {0} /\ row \in 1 .. Height /\ row \in Nat
  BY <1>1, Shape DEF AllCols, AugmentInv
<1>4. /\ Potentials /\ Feasible(work, u, v, row, WorkCols)
      /\ Placed(p, AllCols \ {col0}, row)
      /\ Paid(work, u, v, p, WorkCols \ {col0}) /\ v[col0] <= 0
      /\ col0 \in WorkCols /\ used \subseteq AllCols /\ 0 \in used
      /\ \A c \in used : p[c] # 0
  BY <1>1 DEF AugmentInv
<1>5. PICK rank \in [AllCols -> Nat] :
        \A c \in (used \cup {col0}) \ {0} :
          rank[c] <= rank[col0] =>
            Reached(work, u, v, p, way, used, c) /\ rank[way[c]] < rank[c]
  BY <1>1 DEF AugmentInv
<1>6. /\ h \in used /\ h \in AllCols /\ h # col0 /\ p[h] # 0
      /\ Slack(work, u, v, p[h], col0) = 0 /\ rank[h] < rank[col0]
  <2>1. col0 \in (used \cup {col0}) \ {0} /\ rank[col0] \in Nat /\ rank[col0] <= rank[col0]
    BY <1>3, <1>4, <1>5
  <2>2. Reached(work, u, v, p, way, used, col0) /\ rank[h] < rank[col0]
    BY <1>5, <2>1
  <2> QED BY <1>4, <2>1, <2>2 DEF Reached
<1>7. p \in [AllCols -> Rows \cup {0}]
  BY <1>4 DEF Potentials
<1>8. /\ p' \in [AllCols -> Rows \cup {0}] /\ p'[col0] = p[h]
      /\ \A c \in AllCols : c # col0 => p'[c] = p[c]
  BY <1>1, <1>3, <1>4, <1>6, <1>7
<1> HIDE DEF h
<1>9. Placed(p', AllCols \ {h}, row)
  <2> DEFINE from(c) == IF c = col0 THEN h ELSE c
  <2>1. \A c \in AllCols \ {h} : from(c) \in AllCols \ {col0} /\ p'[c] = p[from(c)]
    BY <1>4, <1>6, <1>8
  <2>2. \A c \in AllCols \ {h} : p'[c] \in 0 .. row
    BY <1>4, <2>1 DEF Placed
  <2>3. ASSUME NEW r \in 1 .. row PROVE \E c \in AllCols \ {h} : p'[c] = r
    <3>1. PICK d \in AllCols \ {col0} : p[d] = r
      BY <1>4 DEF Placed
    <3>2. CASE d = h
      BY <1>3, <1>4, <1>6, <1>8, <3>1, <3>2
    <3>3. CASE d # h
      BY <1>8, <3>1, <3>3
    <3> QED BY <3>2, <3>3
  <2>4. ASSUME NEW c \in AllCols \ {h}, NEW d \in AllCols \ {h}, p'[c] = p'[d], p'[c] # 0
        PROVE  c = d
    <3>1. from(c) = from(d)
      BY <1>4, <2>1, <2>4 DEF Placed
    <3> QED BY <3>1
  <2> QED BY <2>2, <2>3, <2>4 DEF Placed
<1>10. Paid(work, u, v, p', WorkCols \ {h})
  <2>1. ASSUME NEW c \in WorkCols \ {h}
        PROVE  /\ v[c] <= 0 /\ (p'[c] = 0 => v[c] = 0)
               /\ p'[c] # 0 => Slack(work, u, v, p'[c], c) = 0
    <3>1. CASE c = col0
      BY <1>4, <1>6, <1>8, <3>1
    <3>2. CASE c # col0
      BY <1>3, <1>4, <1>8, <3>2 DEF Paid
    <3> QED BY <3>1, <3>2
  <2> QED BY <2>1 DEF Paid
<1>11. work' = [r \in Rows |-> [c \in WorkCols |-> WorkCost(r, c)']]
  BY <1>1, <1>2, <1>4 DEF Potentials
<1>12. ASSUME row' \in 1 .. Height + 1 PROVE Potentials'
  BY <1>1, <1>2, <1>4, <1>8, <1>11, <1>12 DEF Potentials
<1>13. CASE h = 0
  <2>1. row' = row + 1 /\ row' - 1 = row /\ pc' = "row" /\ row' \in 1 .. Height + 1
    BY <1>1, <1>3, <1>13
  <2>2. AllCols \ {h} = WorkCols /\ WorkCols \ {h} = WorkCols
    BY <1>3, <1>13
  <2>3. RowInv'
    BY <1>1, <1>2, <1>4, <1>9, <1>10, <1>12, <2>1, <2>2 DEF RowInv
  <2> QED BY <1>1, <1>2, <2>1, <2>3 DEF AssocInv
<1>14. CASE h # 0
  <2>1. row' = row /\ pc' = "augment" /\ h \in WorkCols
    BY <1>1, <1>3, <1>6, <1>14
  <2>2. row' \in 1 .. Height + 1 /\ row' \in Rows
    BY <1>3, <2>1
  <2>3. v[h] <= 0
    BY <1>4, <1>6, <2>1 DEF Paid
  <2>4. \A c \in used : p'[c] # 0
    BY <1>4, <1>6, <1>8
  <2>5. ASSUME NEW c \in (used \cup {h}) \ {0}, rank[c] <= rank[h]
        PROVE  Reached(work, u, v, p', way, used, c) /\ rank[way[c]] < rank[c]
    <3>1. c \in used /\ c \in AllCols /\ rank[c] \in Nat /\ rank[h] \in Nat /\ rank[col0] \in Nat
      BY <1>3, <1>4, <1>5, <1>6
    <3>2. rank[c] <= rank[col0]
      BY <1>6, <2>5, <3>1
    <3>3. Reached(work, u, v, p, way, used, c) /\ rank[way[c]] < rank[c]
      BY <1>5, <2>5, <3>1, <3>2
    <3>4. way[c] \in used /\ way[c] \in AllCols /\ rank[way[c]] \in Nat
      BY <1>4, <1>5, <3>3 DEF Reached
    <3>5. way[c] # col0
      BY <1>6, <2>5, <3>1, <3>3, <3>4
    <3> QED BY <1>8, <3>3, <3>4, <3>5 DEF Reached
  <2>6. \E rk \in [AllCols -> Nat] :
          \A c \in (used \cup {h}) \ {0} :
            rk[c] <= rk[h] =>
              Reached(work, u, v, p', way, used, c) /\ rk[way[c]] < rk[c]
    BY <1>5, <2>5
  <2>7. AugmentInv'
    BY <1>1, <1>2, <1>4, <1>9, <1>10, <1>12, <2>1, <2>2, <2>3, <2>4, <2>6 DEF AugmentInv
  <2> QED BY <1>1, <1>2, <2>1, <2>7 DEF AssocInv
<1> QED BY <1>13, <1>14

-----------------------------------------------------------------------------
(* A round of the search.                                                   *)

Tree == used \cup {col0}
Current(c) == work[p[col0]][c] - u[p[col0]] - v[c]
Better == {c \in WorkCols \ Tree : Less(Current(c), minv[c])}
Found == [c \in WorkCols |-> IF c \in Better THEN Current(c) ELSE minv[c]]
Way == [c \in DOMAIN way |-> IF c \in Better THEN col0 ELSE way[c]]
Delta == Min({Found[c] : c \in WorkCols \ Tree})
NextCol == Min({c \in WorkCols \ Tree : Found[c] = Delta})

LEMMA ScanIs ==
  ASSUME Scan
  PROVE  /\ pc = "scan" /\ used' = Tree /\ way' = Way
         /\ u' = [r \in Rows |-> IF \E c \in Tree : p[c] = r THEN u[r] + Delta ELSE u[r]]
         /\ v' = [c \in DOMAIN v |-> IF c \in Tree THEN v[c] - Delta ELSE v[c]]
         /\ minv' = Reduced(Found, Delta, Tree)
         /\ col0' = NextCol
         /\ pc' = IF p[NextCol] = 0 THEN "augment" ELSE "scan"
         /\ UNCHANGED <<cost, work, row, p, links>>
  BY DEF Scan, Tree, Current, Better, Found, Way, Delta, NextCol

LEMMA WorkIsNumbers ==
  ASSUME IsMatrix(cost), Potentials
  PROVE  work \in [Rows -> [WorkCols -> Int]]
<1>1. \A r \in Rows, c \in WorkCols : WorkCost(r, c) \in Int
  BY Shape, CostsAreNumbers
<1> QED BY <1>1 DEF Potentials

\* What holds of the tree, in the first round and later.
TreeOK ==
  /\ Tree \subseteq AllCols /\ 0 \in Tree
  /\ \A c \in Tree : p[c] \in 1 .. row
  /\ Feasible(work, u, v, row - 1, WorkCols)
  /\ Tree = {0} \/ Feasible(work, u, v, row, WorkCols)
  /\ \A c \in Tree \ {0} : Reached(work, u, v, p, way, Tree, c)
  /\ Ranked(way, Tree)

LEMMA TreeIs ==
  ASSUME IsMatrix(cost), ScanInv
  PROVE  TreeOK
<1>1. Growing
  BY DEF ScanInv
<1>2. /\ Height \in Nat /\ Rows = 1 .. Height /\ AllCols = WorkCols \cup {0}
      /\ 0 \notin WorkCols /\ row \in Nat
  BY <1>1, Shape DEF AllCols, Growing
<1>3. Tree \subseteq AllCols /\ \A c \in Tree : p[c] \in 1 .. row
  <2>1. \A c \in AllCols : p[c] \in 0 .. row
    BY <1>1 DEF Growing, Placed
  <2> QED BY <1>1, <1>2, <2>1 DEF Growing, Tree
<1>4. CASE FirstRound
  <2>1. Tree = {0}
    BY <1>4 DEF FirstRound, Tree
  <2>2. Ranked(way, Tree)
    <3>1. [c \in AllCols |-> 0] \in [AllCols -> Nat]
      OBVIOUS
    <3> QED BY <2>1, <3>1 DEF Ranked
  <2> QED BY <1>3, <1>4, <2>1, <2>2 DEF TreeOK, FirstRound
<1>5. CASE LaterRound
  <2>1. 0 \in Tree /\ Ranked(way, Tree)
    BY <1>5 DEF LaterRound, Tree
  <2>2. Feasible(work, u, v, row, WorkCols)
    BY <1>5 DEF LaterRound
  <2>3. Feasible(work, u, v, row - 1, WorkCols)
    BY <1>2, <2>2 DEF Feasible
  <2>4. ASSUME NEW c \in Tree \ {0} PROVE Reached(work, u, v, p, way, Tree, c)
    <3>1. CASE c \in used
      BY <1>5, <2>4, <3>1 DEF LaterRound, Reached, Tree
    <3>2. CASE c \notin used
      <4>1. c = col0 /\ c \in WorkCols \ used
        BY <1>1, <1>2, <2>4, <3>2 DEF Tree, Growing
      <4>2. way[c] \in used /\ minv[c] = Slack(work, u, v, p[way[c]], c) /\ minv[c] = 0
        BY <1>5, <4>1 DEF LaterRound, Searched
      <4> QED BY <4>2 DEF Reached, Tree
    <3> QED BY <3>1, <3>2
  <2> QED BY <1>3, <2>1, <2>2, <2>3, <2>4 DEF TreeOK
<1> QED BY <1>4, <1>5 DEF ScanInv

\* There are more columns than rows, so the tree does not have them all.
LEMMA ColumnsRemain ==
  ASSUME IsMatrix(cost), Cols # {}, ScanInv
  PROVE  WorkCols \ Tree # {}
<1> SUFFICES ASSUME WorkCols \subseteq Tree PROVE FALSE
  OBVIOUS
<1>1. Growing /\ TreeOK
  BY TreeIs DEF ScanInv
<1>2. /\ Height \in Nat /\ Rows = 1 .. Height /\ WorkCols = 1 .. (Height + Width)
      /\ Width \in Nat /\ Width >= 1 /\ row \in Nat /\ row <= Height
      /\ WorkCols \subseteq AllCols
  BY <1>1, Shape DEF AllCols, Growing
<1> DEFINE f == [c \in WorkCols |-> p[c]]
<1>3. f \in [WorkCols -> 1 .. Height]
  <2>1. \A c \in WorkCols : p[c] \in 1 .. row
    BY <1>1 DEF TreeOK
  <2> QED BY <1>2, <2>1
<1>4. IsFiniteSet(WorkCols) /\ Cardinality(WorkCols) = Height + Width
  BY <1>2, FS_Interval
<1>5. IsFiniteSet(1 .. Height) /\ Cardinality(1 .. Height) = Height
  BY <1>2, FS_Interval
<1>6. Cardinality(1 .. Height) < Cardinality(WorkCols)
  BY <1>2, <1>4, <1>5
<1>7. \A c \in WorkCols : f[c] = p[c]
  OBVIOUS
<1> HIDE DEF f
<1>8. PICK c \in WorkCols, d \in WorkCols : c # d /\ f[c] = f[d]
  BY <1>3, <1>4, <1>5, <1>6, FS_PigeonHole
<1>9. p[c] = p[d] /\ p[c] # 0
  BY <1>1, <1>2, <1>7, <1>8 DEF TreeOK
<1> QED BY <1>1, <1>2, <1>8, <1>9 DEF Growing, Placed

LEMMA FoundIs ==
  ASSUME IsMatrix(cost), ScanInv
  PROVE  /\ Searched(work, u, v, p, Way, Found, Tree, WorkCols)
         /\ Way \in [AllCols -> AllCols]
         /\ \A c \in Tree : Way[c] = way[c]
<1>1. Growing /\ TreeOK
  BY TreeIs DEF ScanInv
<1>2. /\ WorkCols \subseteq AllCols /\ Rows = 1 .. Height /\ row \in Rows /\ Height \in Nat
      /\ col0 \in AllCols /\ col0 \in Tree
      /\ way \in [AllCols -> AllCols]
      /\ \A c \in Tree : p[c] \in Rows
  BY <1>1, Shape DEF AllCols, Growing, Potentials, Tree, TreeOK
<1>3. /\ \A c \in WorkCols : Current(c) = Slack(work, u, v, p[col0], c)
      /\ \A r \in Rows, c \in WorkCols : Slack(work, u, v, r, c) \in Int
  <2>1. /\ work \in [Rows -> [WorkCols -> Int]] /\ u \in [Rows -> Int]
        /\ v \in [AllCols -> Int]
    BY <1>1, WorkIsNumbers DEF Growing, Potentials
  <2> QED BY <1>2, <2>1 DEF Current, Slack
<1>4. ASSUME NEW c \in WorkCols \ Tree
      PROVE  /\ Found[c] \in Int
             /\ Way[c] \in Tree /\ Found[c] = Slack(work, u, v, p[Way[c]], c)
             /\ \A d \in Tree : Found[c] <= Slack(work, u, v, p[d], c)
  <2>1. /\ Found[c] = IF c \in Better THEN Current(c) ELSE minv[c]
        /\ Way[c] = IF c \in Better THEN col0 ELSE way[c]
        /\ c \in Better <=> Less(Current(c), minv[c])
    BY <1>2 DEF Found, Way, Better
  <2>2. Current(c) = Slack(work, u, v, p[col0], c) /\ Current(c) \in Int
    BY <1>2, <1>3
  <2>3. CASE FirstRound
    <3>1. minv[c] = Infinity /\ Tree = {0} /\ col0 = 0
      BY <2>3 DEF FirstRound, Tree
    <3>2. c \in Better
      BY <2>1, <3>1 DEF Less
    <3> QED BY <2>1, <2>2, <3>1, <3>2
  <2>4. CASE LaterRound
    <3>1. /\ minv[c] \in Int /\ minv[c] # Infinity
          /\ way[c] \in used /\ minv[c] = Slack(work, u, v, p[way[c]], c)
          /\ \A d \in used : minv[c] <= Slack(work, u, v, p[d], c)
      BY <2>4, AssocAssumption DEF LaterRound, Searched, Tree
    <3>2. c \in Better <=> Current(c) < minv[c]
      BY <2>1, <3>1 DEF Less
    <3>3. \A d \in used : Slack(work, u, v, p[d], c) \in Int /\ d \in Tree
      BY <1>2, <1>3 DEF Tree
    <3>4. CASE c \in Better
      BY <2>1, <2>2, <3>1, <3>2, <3>3, <3>4 DEF Tree
    <3>5. CASE c \notin Better
      BY <2>1, <2>2, <3>1, <3>2, <3>3, <3>5 DEF Tree
    <3> QED BY <3>4, <3>5
  <2> QED BY <2>3, <2>4 DEF ScanInv
<1>5. \A c \in Tree : c \notin Better
  BY DEF Better
<1> QED BY <1>1, <1>2, <1>4, <1>5 DEF Searched, Way, TreeOK

LEMMA DeltaIs ==
  ASSUME IsMatrix(cost), Cols # {}, ScanInv
  PROVE  /\ Delta \in Int /\ NextCol \in WorkCols \ Tree /\ Found[NextCol] = Delta
         /\ \A c \in WorkCols \ Tree : Delta <= Found[c]
<1> DEFINE C == WorkCols \ Tree
           S == {Found[c] : c \in C}
           f == [c \in C |-> Found[c]]
           B == {c \in C : Found[c] = Delta}
<1>1. /\ WorkCols = 1 .. (Height + Width) /\ Height \in Nat /\ Width \in Nat
      /\ C # {} /\ C \subseteq WorkCols
  BY Shape, ColumnsRemain
<1>2. IsFiniteSet(C)
  BY <1>1, FS_Interval, FS_Subset
<1>3. f \in Surjection(C, S)
  BY DEF Surjection
<1>4. IsFiniteSet(S)
  BY <1>2, <1>3, FS_Surjection
<1>5. S \subseteq Int /\ S # {}
  BY <1>1, FoundIs DEF Searched
<1>6. Delta \in S /\ \A y \in S : Delta <= y
  BY <1>4, <1>5, MinIs DEF Delta
<1>7. B # {} /\ B \subseteq Int /\ IsFiniteSet(B)
  <2>1. B \subseteq C /\ B # {}
    BY <1>6
  <2> QED BY <1>1, <1>2, <2>1, FS_Subset
<1>8. NextCol \in B
  BY <1>7, MinIs DEF NextCol
<1> QED BY <1>5, <1>6, <1>8

\* The potentials move along the tree: inside it every slack stays, from its
\* rows to the columns outside it falls, to its columns from other rows it
\* grows, all by the same.
LEMMA Moved ==
  ASSUME Delta \in Int, WorkCols \subseteq AllCols, Tree \subseteq AllCols,
         work \in [Rows -> [WorkCols -> Int]], u \in [Rows -> Int], v \in [AllCols -> Int],
         \A c \in Tree : p[c] \in Rows,
         u' = [r \in Rows |-> IF \E c \in Tree : p[c] = r THEN u[r] + Delta ELSE u[r]],
         v' = [c \in AllCols |-> IF c \in Tree THEN v[c] - Delta ELSE v[c]]
  PROVE  /\ u' \in [Rows -> Int] /\ v' \in [AllCols -> Int]
         /\ \A d \in Tree, c \in WorkCols : Slack(work, u', v', p[d], c) =
              IF c \in Tree THEN Slack(work, u, v, p[d], c)
              ELSE Slack(work, u, v, p[d], c) - Delta
         /\ \A r \in Rows, c \in WorkCols : (\A d \in Tree : p[d] # r) =>
              Slack(work, u', v', r, c) =
                IF c \in Tree THEN Slack(work, u, v, r, c) + Delta ELSE Slack(work, u, v, r, c)
         /\ \A r \in Rows, c \in WorkCols : Slack(work, u, v, r, c) \in Int
<1>1. u' \in [Rows -> Int] /\ v' \in [AllCols -> Int]
  OBVIOUS
<1>2. ASSUME NEW d \in Tree, NEW c \in WorkCols
      PROVE  Slack(work, u', v', p[d], c) =
               IF c \in Tree THEN Slack(work, u, v, p[d], c)
               ELSE Slack(work, u, v, p[d], c) - Delta
  <2>1. p[d] \in Rows /\ work[p[d]][c] \in Int /\ u[p[d]] \in Int /\ v[c] \in Int
    OBVIOUS
  <2>2. u'[p[d]] = u[p[d]] + Delta
    BY <2>1
  <2>3. v'[c] = IF c \in Tree THEN v[c] - Delta ELSE v[c]
    OBVIOUS
  <2> QED BY <2>1, <2>2, <2>3 DEF Slack
<1>3. ASSUME NEW r \in Rows, NEW c \in WorkCols, \A d \in Tree : p[d] # r
      PROVE  Slack(work, u', v', r, c) =
               IF c \in Tree THEN Slack(work, u, v, r, c) + Delta ELSE Slack(work, u, v, r, c)
  <2>1. work[r][c] \in Int /\ u[r] \in Int /\ v[c] \in Int
    OBVIOUS
  <2>2. u'[r] = u[r]
    BY <1>3
  <2>3. v'[c] = IF c \in Tree THEN v[c] - Delta ELSE v[c]
    OBVIOUS
  <2> QED BY <2>1, <2>2, <2>3 DEF Slack
<1>4. \A r \in Rows, c \in WorkCols : Slack(work, u, v, r, c) \in Int
  BY DEF Slack
<1> QED BY <1>1, <1>2, <1>3, <1>4

LEMMA ScanSound ==
  ASSUME AssocInv, Scan
  PROVE  AssocInv'
<1>1. /\ IsMatrix(cost) /\ pc = "scan" /\ ScanInv /\ Cols # {} /\ Growing /\ TreeOK
      /\ Potentials
  <2>1. pc = "scan"
    BY ScanIs
  <2>2. IsMatrix(cost) /\ ScanInv /\ Cols # {}
    BY <2>1 DEF AssocInv
  <2>3. Growing
    BY <2>2 DEF ScanInv
  <2> QED BY <2>1, <2>2, <2>3, TreeIs DEF Growing
<1>2. /\ used' = Tree /\ way' = Way /\ minv' = Reduced(Found, Delta, Tree)
      /\ col0' = NextCol /\ pc' = IF p[NextCol] = 0 THEN "augment" ELSE "scan"
      /\ cost' = cost /\ work' = work /\ row' = row /\ p' = p
  BY ScanIs
<1>3. IsMatrix(cost)' /\ Cols' = Cols /\ Rows' = Rows /\ WorkCols' = WorkCols
      /\ AllCols' = AllCols /\ Height' = Height
      /\ \A r \in Rows, c \in WorkCols : WorkCost(r, c)' = WorkCost(r, c)
  BY <1>1, <1>2, SameShape
<1>4. /\ Height \in Nat /\ Rows = 1 .. Height /\ 0 \notin WorkCols
      /\ AllCols = WorkCols \cup {0} /\ row \in 1 .. Height /\ row \in Nat
  BY <1>1, Shape DEF AllCols, Growing
<1>5. /\ Delta \in Int /\ NextCol \in WorkCols \ Tree /\ Found[NextCol] = Delta
      /\ \A c \in WorkCols \ Tree : Delta <= Found[c]
  BY <1>1, DeltaIs
<1>6. /\ Searched(work, u, v, p, Way, Found, Tree, WorkCols)
      /\ Way \in [AllCols -> AllCols] /\ \A c \in Tree : Way[c] = way[c]
  BY <1>1, FoundIs
<1>7. /\ work \in [Rows -> [WorkCols -> Int]] /\ u \in [Rows -> Int]
      /\ v \in [AllCols -> Int] /\ p \in [AllCols -> Rows \cup {0}]
  BY <1>1, WorkIsNumbers DEF Potentials
<1>8. /\ Tree \subseteq AllCols /\ 0 \in Tree
      /\ \A c \in Tree : p[c] \in 1 .. row /\ p[c] \in Rows
      /\ \A c \in Tree \ {0} : Reached(work, u, v, p, way, Tree, c)
  BY <1>1, <1>4 DEF TreeOK
<1>9. /\ u' = [r \in Rows |-> IF \E c \in Tree : p[c] = r THEN u[r] + Delta ELSE u[r]]
      /\ v' = [c \in AllCols |-> IF c \in Tree THEN v[c] - Delta ELSE v[c]]
  BY <1>7, ScanIs
<1>10. /\ u' \in [Rows -> Int] /\ v' \in [AllCols -> Int]
       /\ \A d \in Tree, c \in WorkCols : Slack(work, u', v', p[d], c) =
            IF c \in Tree THEN Slack(work, u, v, p[d], c)
            ELSE Slack(work, u, v, p[d], c) - Delta
       /\ \A r \in Rows, c \in WorkCols : (\A d \in Tree : p[d] # r) =>
            Slack(work, u', v', r, c) =
              IF c \in Tree THEN Slack(work, u, v, r, c) + Delta ELSE Slack(work, u, v, r, c)
       /\ \A r \in Rows, c \in WorkCols : Slack(work, u, v, r, c) \in Int
  <2>1. WorkCols \subseteq AllCols
    BY <1>4
  <2> QED BY <1>5, <1>7, <1>8, <1>9, <2>1, Moved
<1>11. Potentials'
  <2>1. work' = [r \in Rows |-> [c \in WorkCols |-> WorkCost(r, c)']]
    BY <1>1, <1>2, <1>3 DEF Potentials
  <2> QED BY <1>1, <1>2, <1>3, <1>6, <1>10, <2>1 DEF Potentials
\* Once the tree has a column, the potentials only rise.
<1>12. Tree = {0} \/ (Feasible(work, u, v, row, WorkCols) /\ Delta >= 0)
  <2>1. CASE Feasible(work, u, v, row, WorkCols)
    <3>1. Way[NextCol] \in Tree /\ Delta = Slack(work, u, v, p[Way[NextCol]], NextCol)
      BY <1>5, <1>6 DEF Searched
    <3>2. p[Way[NextCol]] \in 1 .. row
      BY <1>8, <3>1
    <3> QED BY <1>5, <2>1, <3>1, <3>2 DEF Feasible
  <2> QED BY <1>1, <2>1 DEF TreeOK
<1>13. Feasible(work, u', v', row, WorkCols)
  <2>1. ASSUME NEW r \in 1 .. row, NEW c \in WorkCols
        PROVE  0 <= Slack(work, u', v', r, c)
    <3>1. r \in Rows /\ Slack(work, u, v, r, c) \in Int
      BY <1>4, <1>10
    <3>2. CASE \E d \in Tree : p[d] = r
      <4>1. PICK d \in Tree : p[d] = r
        BY <3>2
      <4>2. CASE c \in Tree
        <5>1. Feasible(work, u, v, row, WorkCols)
          BY <1>4, <1>12, <4>2
        <5> QED BY <1>10, <4>1, <4>2, <5>1 DEF Feasible
      <4>3. CASE c \notin Tree
        <5>1. Found[c] \in Int /\ Found[c] <= Slack(work, u, v, p[d], c) /\ Delta <= Found[c]
          BY <1>5, <1>6, <4>3 DEF Searched
        <5>2. Slack(work, u', v', r, c) = Slack(work, u, v, r, c) - Delta
          BY <1>10, <4>1, <4>3
        <5> QED BY <1>5, <3>1, <4>1, <5>1, <5>2
      <4> QED BY <4>2, <4>3
    <3>3. CASE \A d \in Tree : p[d] # r
      <4>1. r # row
        BY <1>1, <1>8, <3>3 DEF Growing
      <4>2. r \in 1 .. row - 1
        BY <1>4, <4>1
      <4>3. 0 <= Slack(work, u, v, r, c)
        BY <1>1, <4>2 DEF TreeOK, Feasible
      <4>4. c \in Tree => Delta >= 0
        BY <1>4, <1>12
      <4>5. Slack(work, u', v', r, c) =
              IF c \in Tree THEN Slack(work, u, v, r, c) + Delta ELSE Slack(work, u, v, r, c)
        BY <1>10, <3>1, <3>3
      <4> QED BY <1>5, <3>1, <4>3, <4>4, <4>5
    <3> QED BY <3>2, <3>3
  <2> QED BY <2>1 DEF Feasible
<1>14. Paid(work, u', v', p, WorkCols)
  <2>1. ASSUME NEW c \in WorkCols
        PROVE  /\ v'[c] <= 0 /\ (p[c] = 0 => v'[c] = 0)
               /\ p[c] # 0 => Slack(work, u', v', p[c], c) = 0
    <3>1. /\ v[c] <= 0 /\ (p[c] = 0 => v[c] = 0) /\ v[c] \in Int /\ c \in AllCols
          /\ p[c] # 0 => Slack(work, u, v, p[c], c) = 0 /\ p[c] \in Rows
      BY <1>1, <1>4, <1>7 DEF Growing, Paid
    <3>2. CASE c \in Tree
      <4>1. Delta >= 0
        BY <1>4, <1>12, <3>2
      <4>2. v'[c] = v[c] - Delta
        BY <1>9, <3>1, <3>2
      <4> QED BY <1>5, <1>8, <1>10, <3>1, <3>2, <4>1, <4>2
    <3>3. CASE c \notin Tree
      <4>1. v'[c] = v[c]
        BY <1>9, <3>1, <3>3
      <4>2. p[c] # 0 => \A d \in Tree : p[d] # p[c]
        BY <1>1, <1>8, <3>1, <3>3 DEF Growing, Placed
      <4> QED BY <1>10, <3>1, <3>3, <4>1, <4>2
    <3> QED BY <3>2, <3>3
  <2> QED BY <2>1 DEF Paid
<1>15. Searched(work, u', v', p, Way, minv', Tree, WorkCols)
  <2>1. ASSUME NEW c \in WorkCols \ Tree
        PROVE  /\ minv'[c] \in Int
               /\ Way[c] \in Tree /\ minv'[c] = Slack(work, u', v', p[Way[c]], c)
               /\ \A d \in Tree : minv'[c] <= Slack(work, u', v', p[d], c)
    <3>1. /\ Found[c] \in Int
          /\ Way[c] \in Tree /\ Found[c] = Slack(work, u, v, p[Way[c]], c)
          /\ \A d \in Tree : Found[c] <= Slack(work, u, v, p[d], c)
      BY <1>6 DEF Searched
    <3>2. minv'[c] = Found[c] - Delta
      BY <1>2 DEF Reduced
    <3>3. \A d \in Tree : /\ Slack(work, u', v', p[d], c) = Slack(work, u, v, p[d], c) - Delta
                          /\ Slack(work, u, v, p[d], c) \in Int
      BY <1>8, <1>10
    <3> QED BY <1>5, <3>1, <3>2, <3>3
  <2> QED BY <2>1 DEF Searched
<1>16. minv'[NextCol] = 0 /\ DOMAIN minv' = WorkCols
  BY <1>2, <1>5 DEF Reduced
<1>17. ASSUME NEW c \in Tree \ {0} PROVE Reached(work, u', v', p, Way, Tree, c)
  <2>1. c \in WorkCols /\ Way[c] = way[c]
    BY <1>4, <1>6, <1>8
  <2>2. way[c] \in Tree /\ Slack(work, u, v, p[way[c]], c) = 0
    BY <1>8 DEF Reached
  <2> QED BY <1>10, <2>1, <2>2 DEF Reached
<1>18. Reached(work, u', v', p, Way, Tree, NextCol)
  BY <1>5, <1>15, <1>16 DEF Searched, Reached
<1>19. Ranked(Way, Tree \cup {NextCol})
  <2>1. PICK rank \in [AllCols -> Nat] : \A c \in Tree \ {0} : rank[way[c]] < rank[c]
    BY <1>1 DEF TreeOK, Ranked
  <2> DEFINE rk == [rank EXCEPT ![NextCol] = rank[Way[NextCol]] + 1]
  <2>2. Way[NextCol] \in Tree /\ NextCol \notin Tree /\ NextCol \in AllCols
    BY <1>4, <1>5, <1>18 DEF Reached
  <2>3. /\ rk \in [AllCols -> Nat] /\ rk[NextCol] = rank[Way[NextCol]] + 1
        /\ \A c \in Tree : rk[c] = rank[c] /\ rank[c] \in Nat
    BY <1>8, <2>1, <2>2
  <2> HIDE DEF rk
  <2>4. ASSUME NEW c \in (Tree \cup {NextCol}) \ {0} PROVE rk[Way[c]] < rk[c]
    <3>1. CASE c = NextCol
      BY <2>2, <2>3, <3>1
    <3>2. CASE c # NextCol
      <4>1. Way[c] = way[c] /\ way[c] \in Tree /\ rank[way[c]] < rank[c]
        BY <1>6, <1>8, <2>1, <2>4, <3>2 DEF Reached
      <4> QED BY <2>3, <2>4, <3>2, <4>1
    <3> QED BY <3>1, <3>2
  <2> QED BY <2>3, <2>4 DEF Ranked
<1>20. /\ NextCol \in AllCols \ Tree /\ NextCol # 0 /\ NextCol \in WorkCols
  BY <1>4, <1>5
<1>21. CASE p[NextCol] = 0
  <2>1. pc' = "augment"
    BY <1>2, <1>21
  <2>2. Placed(p, AllCols \ {NextCol}, row)
    <3>1. Placed(p, AllCols, row)
      BY <1>1 DEF Growing
    <3>2. \A r \in 1 .. row : \E c \in AllCols \ {NextCol} : p[c] = r
      <4> TAKE r \in 1 .. row
      <4>1. PICK c \in AllCols : p[c] = r
        BY <3>1 DEF Placed
      <4>2. c # NextCol
        BY <1>4, <1>21, <4>1
      <4> QED BY <4>1, <4>2
    <3> QED BY <3>1, <3>2 DEF Placed
  <2>3. Paid(work, u', v', p, WorkCols \ {NextCol}) /\ v'[NextCol] <= 0
    BY <1>14, <1>20 DEF Paid
  <2>4. \E rank \in [AllCols -> Nat] :
          \A c \in (Tree \cup {NextCol}) \ {0} :
            rank[c] <= rank[NextCol] =>
              Reached(work, u', v', p, Way, Tree, c) /\ rank[Way[c]] < rank[c]
    BY <1>17, <1>18, <1>19 DEF Ranked
  <2>5. \A c \in Tree : p[c] # 0
    BY <1>8
  <2>6. row \in Rows
    BY <1>4
  <2>7. AugmentInv'
    BY <1>2, <1>3, <1>8, <1>11, <1>13, <1>20, <2>2, <2>3, <2>4, <2>5, <2>6 DEF AugmentInv
  <2> QED BY <1>1, <1>2, <1>3, <2>1, <2>7 DEF AssocInv
<1>22. CASE p[NextCol] # 0
  <2>1. pc' = "scan"
    BY <1>2, <1>22
  <2>2. \A c \in Tree \cup {NextCol} : p[c] # 0
    BY <1>8, <1>22
  <2>3. Growing'
    BY <1>1, <1>2, <1>3, <1>8, <1>11, <1>14, <1>16, <1>20, <2>2 DEF Growing
  <2>4. LaterRound'
    BY <1>2, <1>3, <1>8, <1>13, <1>15, <1>16, <1>17, <1>19, <1>20 DEF LaterRound, Ranked
  <2> QED BY <1>1, <1>2, <1>3, <2>1, <2>3, <2>4 DEF AssocInv, ScanInv
<1> QED BY <1>21, <1>22

LEMMA AssocStep == AssocInv /\ [AssocNext]_assocVars => AssocInv'
<1> SUFFICES ASSUME AssocInv, [AssocNext]_assocVars PROVE AssocInv'
  OBVIOUS
<1>1. CASE UNCHANGED assocVars
  <2>1. /\ cost' = cost /\ work' = work /\ pc' = pc /\ row' = row /\ u' = u /\ v' = v
        /\ p' = p /\ way' = way /\ minv' = minv /\ used' = used /\ col0' = col0
        /\ links' = links
    BY <1>1 DEF assocVars
  <2>2. IsMatrix(cost)' = IsMatrix(cost) /\ Cols' = Cols /\ Rows' = Rows
        /\ WorkCols' = WorkCols /\ AllCols' = AllCols /\ Height' = Height
        /\ \A r \in Rows, c \in WorkCols : WorkCost(r, c)' = WorkCost(r, c)
    BY <2>1, SameShape
  <2>3. Potentials => Potentials'
    <3>1. ASSUME Potentials PROVE Potentials'
      <4>1. work' = [r \in Rows |-> [c \in WorkCols |-> WorkCost(r, c)']]
        BY <2>1, <2>2, <3>1 DEF Potentials
      <4> QED BY <2>1, <2>2, <3>1, <4>1 DEF Potentials
    <3> QED BY <3>1
  <2>4. RowInv => RowInv'
    BY <2>1, <2>2, <2>3 DEF RowInv
  <2>5. ScanInv => ScanInv'
    <3>1. Growing => Growing'
      BY <2>1, <2>2, <2>3 DEF Growing
    <3>2. FirstRound => FirstRound'
      BY <2>1, <2>2 DEF FirstRound
    <3>3. LaterRound => LaterRound'
      BY <2>1, <2>2 DEF LaterRound, Ranked
    <3> QED BY <3>1, <3>2, <3>3 DEF ScanInv
  <2>6. AugmentInv => AugmentInv'
    BY <2>1, <2>2, <2>3 DEF AugmentInv
  <2>7. Linked' = Linked
    BY <2>1, <2>2 DEF Linked, Allowed
  <2> QED BY <2>1, <2>2, <2>4, <2>5, <2>6, <2>7 DEF AssocInv
<1>2. CASE Prepare
  BY <1>2, PrepareSound
<1>3. CASE StartRow
  BY <1>3, StartRowSound
<1>4. CASE Scan
  BY <1>4, ScanSound
<1>5. CASE Augment
  BY <1>5, AugmentSound
<1>6. CASE Finish
  BY <1>6, FinishSound
<1> QED BY <1>1, <1>2, <1>3, <1>4, <1>5, <1>6 DEF AssocNext, Done

\* The inductive invariant of the assignment: between two rows and in every
\* round of the search no pair costs less than its potentials, the pairs taken
\* cost exactly that, and each row inserted has one column
\* (solve_linear_assignment, 62-101).
THEOREM AssocInvariant == AssocSpec => []AssocInv
  BY Start, AssocStep, PTL DEF AssocSpec

\* Between two rows the potentials are feasible for any matrix: no pair of a row
\* inserted so far costs less than its two potentials, the pairs taken cost
\* exactly that, a free column has none, and every row has one column.
THEOREM PotentialsStayFeasible == AssocSpec => []PotentialsAreFeasible
<1>1. AssocInv => PotentialsAreFeasible
  <2> SUFFICES ASSUME AssocInv, pc = "row"
               PROVE  /\ \A r \in Rows, c \in WorkCols : r < row => u[r] + v[c] <= work[r][c]
                      /\ \A c \in WorkCols : IF p[c] = 0 THEN v[c] = 0
                           ELSE v[c] <= 0 /\ u[p[c]] + v[c] = work[p[c]][c]
                      /\ \A r \in Rows : r < row =>
                           Cardinality({c \in WorkCols : p[c] = r}) = 1
    BY DEF PotentialsAreFeasible
  <2>1. /\ IsMatrix(cost) /\ RowInv /\ Potentials
        /\ Feasible(work, u, v, row - 1, WorkCols)
        /\ Placed(p, WorkCols, row - 1) /\ Paid(work, u, v, p, WorkCols)
    BY DEF AssocInv, RowInv
  <2>2. /\ Rows = 1 .. Height /\ Height \in Nat /\ row \in 1 .. Height + 1
        /\ WorkCols \subseteq AllCols
        /\ work \in [Rows -> [WorkCols -> Int]] /\ u \in [Rows -> Int]
        /\ v \in [AllCols -> Int] /\ p \in [AllCols -> Rows \cup {0}]
    BY <2>1, Shape, WorkIsNumbers DEF Potentials, AllCols
  <2>3. ASSUME NEW r \in Rows, NEW c \in WorkCols, r < row
        PROVE  u[r] + v[c] <= work[r][c]
    <3>1. r \in 1 .. row - 1 /\ u[r] \in Int /\ v[c] \in Int /\ work[r][c] \in Int
      BY <2>2, <2>3
    <3>2. 0 <= work[r][c] - u[r] - v[c]
      BY <2>1, <3>1 DEF Feasible, Slack
    <3> QED BY <3>1, <3>2
  <2>4. ASSUME NEW c \in WorkCols
        PROVE  IF p[c] = 0 THEN v[c] = 0
               ELSE v[c] <= 0 /\ u[p[c]] + v[c] = work[p[c]][c]
    <3>1. CASE p[c] = 0
      BY <2>1, <3>1 DEF Paid
    <3>2. CASE p[c] # 0
      <4>1. p[c] \in Rows
        BY <2>2, <3>2
      <4>2. u[p[c]] \in Int /\ v[c] \in Int /\ work[p[c]][c] \in Int
        BY <2>2, <4>1
      <4>3. v[c] <= 0 /\ work[p[c]][c] - u[p[c]] - v[c] = 0
        BY <2>1, <3>2 DEF Paid, Slack
      <4> QED BY <3>2, <4>2, <4>3
    <3> QED BY <3>1, <3>2
  <2>5. ASSUME NEW r \in Rows, r < row
        PROVE  Cardinality({c \in WorkCols : p[c] = r}) = 1
    <3>1. r \in 1 .. row - 1 /\ r # 0
      BY <2>2, <2>5
    <3>2. PICK c \in WorkCols : p[c] = r
      BY <2>1, <3>1 DEF Placed
    <3>3. \A d \in WorkCols : p[d] = r => d = c
      BY <2>1, <3>1, <3>2 DEF Placed
    <3>4. {d \in WorkCols : p[d] = r} = {c}
      BY <3>2, <3>3
    <3> QED BY <3>4, FS_Singleton
  <2> QED BY <2>3, <2>4, <2>5
<1> QED BY <1>1, AssocInvariant, PTL

-----------------------------------------------------------------------------
(* Sums.                                                                    *)

\* The function SumTo is the last value of.
Sums(f, n) ==
  LET sum[k \in 0 .. n] == IF k = 0 THEN 0 ELSE sum[k - 1] + f[k] IN sum

SumsOf(g, f, n) ==
  /\ g \in [0 .. n -> Int] /\ g[0] = 0
  /\ \A k \in 1 .. n : g[k] = g[k - 1] + f[k]

LEMMA SumsExist ==
  ASSUME NEW n \in Nat, NEW f \in [1 .. n -> Int]
  PROVE  \E g : SumsOf(g, f, n)
<1> DEFINE Bad == {m \in 0 .. n : ~ \E g : SumsOf(g, f, m)}
<1>1. SUFFICES ASSUME Bad # {} PROVE FALSE
  <2>1. n \in 0 .. n
    OBVIOUS
  <2> QED BY <2>1
<1>2. PICK m \in Bad : \A k \in Bad : m <= k
  <2>1. Bad \in SUBSET Nat
    OBVIOUS
  <2> QED BY <1>1, <2>1, LeastOf
<1>3. m # 0
  <2>1. SumsOf([k \in 0 .. 0 |-> 0], f, 0)
    BY DEF SumsOf
  <2> QED BY <2>1
<1>4. m \in 1 .. n /\ m \in Nat /\ m - 1 \in 0 .. n /\ ~(m <= m - 1)
  BY <1>3
<1>5. PICK g : SumsOf(g, f, m - 1)
  BY <1>2, <1>4
<1> DEFINE h == [k \in 0 .. m |-> IF k = m THEN g[m - 1] + f[m] ELSE g[k]]
<1>6. SumsOf(h, f, m)
  <2>1. g \in [0 .. m - 1 -> Int] /\ g[0] = 0 /\ \A k \in 1 .. m - 1 : g[k] = g[k - 1] + f[k]
    BY <1>5 DEF SumsOf
  <2>2. f[m] \in Int /\ g[m - 1] \in Int
    BY <1>4, <2>1
  <2>3. h \in [0 .. m -> Int] /\ h[0] = 0
    BY <1>4, <2>1, <2>2
  <2>4. ASSUME NEW k \in 1 .. m PROVE h[k] = h[k - 1] + f[k]
    <3>1. k \in 0 .. m /\ k - 1 \in 0 .. m /\ k - 1 # m
      BY <1>4
    <3>2. CASE k = m
      BY <1>4, <3>1, <3>2
    <3>3. CASE k # m
      <4>1. k \in 1 .. m - 1
        BY <1>4, <3>3
      <4> QED BY <2>1, <3>1, <3>3, <4>1
    <3> QED BY <3>2, <3>3
  <2> QED BY <2>3, <2>4 DEF SumsOf
<1> QED BY <1>2, <1>6

LEMMA SumsByTurn ==
  ASSUME NEW n \in Nat, NEW f \in [1 .. n -> Int]
  PROVE  SumsOf(Sums(f, n), f, n) /\ SumTo(f, n) = Sums(f, n)[n]
<1> DEFINE Turn(s) == [k \in 0 .. n |-> IF k = 0 THEN 0 ELSE s[k - 1] + f[k]]
           s == CHOOSE t : t = Turn(t)
<1>1. PICK g : SumsOf(g, f, n)
  BY SumsExist
<1>2. /\ g \in [0 .. n -> Int] /\ g[0] = 0
      /\ \A k \in 1 .. n : g[k] = g[k - 1] + f[k]
  BY <1>1 DEF SumsOf
<1>3. g = Turn(g)
  <2>1. \A k \in 0 .. n : g[k] = Turn(g)[k]
    BY <1>2
  <2> QED BY <1>2, <2>1
<1>4. s = Turn(s)
  BY <1>3
<1> HIDE DEF s
<1>5. DOMAIN s = 0 .. n /\ \A k \in 0 .. n : s[k] = IF k = 0 THEN 0 ELSE s[k - 1] + f[k]
  BY <1>4
<1> DEFINE Bad == {k \in 0 .. n : s[k] # g[k]}
<1>6. Bad = {}
  <2>1. SUFFICES ASSUME Bad # {} PROVE FALSE
    OBVIOUS
  <2>0. Bad \in SUBSET Nat
    OBVIOUS
  <2>2. PICK m \in Bad : \A k \in Bad : m <= k
    BY <2>0, <2>1, LeastOf
  <2>3. m # 0
    BY <1>2, <1>5, <2>2
  <2>4. m \in 1 .. n /\ m - 1 \in 0 .. n /\ ~(m <= m - 1)
    BY <2>2, <2>3
  <2>5. s[m - 1] = g[m - 1]
    BY <2>2, <2>4
  <2> QED BY <1>2, <1>5, <2>2, <2>4, <2>5
<1>7. s = g
  <2>1. \A k \in 0 .. n : s[k] = g[k]
    BY <1>6
  <2>2. s = [k \in 0 .. n |-> s[k]]
    BY <1>4
  <2>3. g = [k \in 0 .. n |-> g[k]]
    BY <1>2
  <2> QED BY <2>1, <2>2, <2>3
<1>8. Sums(f, n) = s
  BY Zenon DEF Sums, s
<1>9. SumTo(f, n) = Sums(f, n)[n]
  BY Zenon DEF Sums, SumTo
<1> QED BY <1>1, <1>7, <1>8, <1>9

\* A function and a sum beside it, each no greater than another.
LEMMA SumsCompare ==
  ASSUME NEW n \in Nat, NEW a \in [1 .. n -> Int], NEW b \in [1 .. n -> Int],
         NEW c \in [1 .. n -> Int], NEW d \in [1 .. n -> Int],
         NEW k \in 0 .. n, \A j \in 1 .. k : a[j] + b[j] <= c[j] + d[j]
  PROVE  Sums(a, n)[k] + Sums(b, n)[k] <= Sums(c, n)[k] + Sums(d, n)[k]
<1> DEFINE A == Sums(a, n)
           B == Sums(b, n)
           C == Sums(c, n)
           D == Sums(d, n)
           Bad == {j \in 0 .. k : ~(A[j] + B[j] <= C[j] + D[j])}
<1>1. SumsOf(A, a, n) /\ SumsOf(B, b, n) /\ SumsOf(C, c, n) /\ SumsOf(D, d, n)
  BY SumsByTurn
<1> HIDE DEF A, B, C, D
<1>2. SUFFICES ASSUME Bad # {} PROVE FALSE
  <2>1. k \in 0 .. k
    OBVIOUS
  <2> QED BY <2>1 DEF A, B, C, D
<1>3. Bad \in SUBSET Nat
  OBVIOUS
<1>4. PICK m \in Bad : \A j \in Bad : m <= j
  BY <1>2, <1>3, LeastOf
<1>5. m # 0
  BY <1>1, <1>4 DEF SumsOf
<1>6. /\ m \in 1 .. n /\ m \in 1 .. k /\ m - 1 \in 0 .. k /\ m - 1 \in 0 .. n
      /\ ~(m <= m - 1) /\ m \in 0 .. n
  BY <1>4, <1>5
<1>7. A[m - 1] + B[m - 1] <= C[m - 1] + D[m - 1]
  BY <1>4, <1>6
<1>8. /\ A[m] = A[m - 1] + a[m] /\ B[m] = B[m - 1] + b[m]
      /\ C[m] = C[m - 1] + c[m] /\ D[m] = D[m - 1] + d[m]
      /\ A[m - 1] \in Int /\ B[m - 1] \in Int /\ C[m - 1] \in Int /\ D[m - 1] \in Int
  BY <1>1, <1>6 DEF SumsOf
<1>9. a[m] \in Int /\ b[m] \in Int /\ c[m] \in Int /\ d[m] \in Int
  BY <1>6
<1>9a. a[m] + b[m] <= c[m] + d[m]
  BY <1>6
<1>10. A[m] + B[m] <= C[m] + D[m]
  <2>1. \A x, y, z, w, q, r, s, t \in Int :
          x + y <= z + w /\ q + r <= s + t => (x + q) + (y + r) <= (z + s) + (w + t)
    OBVIOUS
  <2>2. (A[m - 1] + a[m]) + (B[m - 1] + b[m]) <= (C[m - 1] + c[m]) + (D[m - 1] + d[m])
    BY <1>7, <1>8, <1>9, <1>9a, <2>1
  <2> QED BY <1>8, <2>2
<1> QED BY <1>4, <1>10

LEMMA SumsAgree ==
  ASSUME NEW n \in Nat, NEW a \in [1 .. n -> Int], NEW b \in [1 .. n -> Int],
         NEW k \in 0 .. n, \A j \in 1 .. k : a[j] = b[j]
  PROVE  Sums(a, n)[k] = Sums(b, n)[k]
<1>1. Sums(a, n)[k] \in Int /\ Sums(b, n)[k] \in Int
  BY SumsByTurn DEF SumsOf
<1>2. \A j \in 1 .. k : a[j] \in Int /\ b[j] \in Int
  OBVIOUS
<1>3. Sums(a, n)[k] + Sums(a, n)[k] <= Sums(b, n)[k] + Sums(b, n)[k]
  <2>1. \A j \in 1 .. k : a[j] + a[j] <= b[j] + b[j]
    BY <1>2
  <2> QED BY <2>1, SumsCompare
<1>4. Sums(b, n)[k] + Sums(b, n)[k] <= Sums(a, n)[k] + Sums(a, n)[k]
  <2>1. \A j \in 1 .. k : b[j] + b[j] <= a[j] + a[j]
    BY <1>2
  <2> QED BY <2>1, SumsCompare
<1> QED BY <1>1, <1>3, <1>4

LEMMA SumsNotPositive ==
  ASSUME NEW n \in Nat, NEW b \in [1 .. n -> Int], \A j \in 1 .. n : b[j] <= 0
  PROVE  /\ Sums(b, n)[n] <= 0
         /\ (\A j \in 1 .. n : b[j] = 0) => Sums(b, n)[n] = 0
<1> DEFINE B == Sums(b, n)
           Fits(j) == B[j] <= 0 /\ ((\A i \in 1 .. n : b[i] = 0) => B[j] = 0)
           Bad == {j \in 0 .. n : ~Fits(j)}
<1>1. SumsOf(B, b, n)
  BY SumsByTurn
<1> HIDE DEF B
<1>2. SUFFICES ASSUME Bad # {} PROVE FALSE
  <2>1. n \in 0 .. n
    OBVIOUS
  <2> QED BY <2>1 DEF B
<1>3. Bad \in SUBSET Nat
  OBVIOUS
<1>4. PICK m \in Bad : \A j \in Bad : m <= j
  BY <1>2, <1>3, LeastOf
<1>5. m # 0
  BY <1>1, <1>4 DEF SumsOf
<1>6. m \in 1 .. n /\ m - 1 \in 0 .. n /\ ~(m <= m - 1)
  BY <1>4, <1>5
<1>7. Fits(m - 1)
  BY <1>4, <1>6
<1>8. B[m] = B[m - 1] + b[m] /\ B[m - 1] \in Int /\ b[m] \in Int /\ b[m] <= 0
  BY <1>1, <1>6 DEF SumsOf
<1>9. Fits(m)
  BY <1>6, <1>7, <1>8
<1> QED BY <1>4, <1>9

\* Without one of its terms, a sum is smaller by it.
LEMMA SumsWithout ==
  ASSUME NEW n \in Nat, NEW b \in [1 .. n -> Int], NEW i \in 1 .. n
  PROVE  Sums([b EXCEPT ![i] = 0], n)[n] = Sums(b, n)[n] - b[i]
<1> DEFINE c == [b EXCEPT ![i] = 0]
           B == Sums(b, n)
           C == Sums(c, n)
           Fits(j) == C[j] = B[j] - (IF j >= i THEN b[i] ELSE 0)
           Bad == {j \in 0 .. n : ~Fits(j)}
<1>1. c \in [1 .. n -> Int] /\ c[i] = 0 /\ \A j \in 1 .. n : j # i => c[j] = b[j]
  OBVIOUS
<1> HIDE DEF c
<1>2. SumsOf(B, b, n) /\ SumsOf(C, c, n)
  BY <1>1, SumsByTurn
<1> HIDE DEF B, C
<1>3. SUFFICES ASSUME Bad # {} PROVE FALSE
  <2>1. n \in 0 .. n /\ n >= i
    OBVIOUS
  <2> QED BY <2>1 DEF B, C, c
<1>4. Bad \in SUBSET Nat
  OBVIOUS
<1>5. PICK m \in Bad : \A j \in Bad : m <= j
  BY <1>3, <1>4, LeastOf
<1>6. m # 0
  BY <1>2, <1>5 DEF SumsOf
<1>7. m \in 1 .. n /\ m - 1 \in 0 .. n /\ ~(m <= m - 1)
  BY <1>5, <1>6
<1>8. Fits(m - 1)
  BY <1>5, <1>7
<1>9. /\ B[m] = B[m - 1] + b[m] /\ C[m] = C[m - 1] + c[m]
      /\ B[m - 1] \in Int /\ C[m - 1] \in Int /\ b[m] \in Int /\ b[i] \in Int
  BY <1>2, <1>7 DEF SumsOf
<1>10. Fits(m)
  <2>1. CASE m = i
    BY <1>1, <1>7, <1>8, <1>9, <2>1
  <2>2. CASE m < i
    BY <1>1, <1>7, <1>8, <1>9, <2>2
  <2>3. CASE m > i
    BY <1>1, <1>7, <1>8, <1>9, <2>3
  <2> QED BY <1>7, <2>1, <2>2, <2>3
<1> QED BY <1>5, <1>10

Along(b, f, n) == [r \in 1 .. n |-> b[f[r]]]

\* However rows are given columns of their own, the prices they pay together
\* are no less than all prices, and as much if only free columns are left.
PricesFit(b, f, n, k, m) ==
  /\ Sums(b, m)[m] <= Sums(Along(b, f, n), n)[k]
  /\ (\A c \in 1 .. m : (\A r \in 1 .. k : f[r] # c) => b[c] = 0)
       => Sums(Along(b, f, n), n)[k] = Sums(b, m)[m]

LEMMA PricesOfRows ==
  ASSUME NEW n \in Nat, NEW m \in Nat, NEW f \in [1 .. n -> 1 .. m],
         \A r, s \in 1 .. n : f[r] = f[s] => r = s,
         NEW b \in [1 .. m -> Int], \A c \in 1 .. m : b[c] <= 0
  PROVE  PricesFit(b, f, n, n, m)
<1> DEFINE Prices == {d \in [1 .. m -> Int] : \A c \in 1 .. m : d[c] <= 0}
           Bad == {k \in 0 .. n : \E d \in Prices : ~PricesFit(d, f, n, k, m)}
<1>1. SUFFICES ASSUME Bad # {} PROVE FALSE
  <2>1. n \in 0 .. n /\ b \in Prices
    OBVIOUS
  <2> QED BY <2>1
<1>2. Bad \in SUBSET Nat
  OBVIOUS
<1>3. PICK k \in Bad : \A j \in Bad : k <= j
  BY <1>1, <1>2, LeastOf
<1>4. PICK d \in Prices : ~PricesFit(d, f, n, k, m)
  BY <1>3
<1>5. \A e \in Prices : /\ Along(e, f, n) \in [1 .. n -> Int]
                        /\ SumsOf(Sums(Along(e, f, n), n), Along(e, f, n), n)
                        /\ SumsOf(Sums(e, m), e, m)
  <2> TAKE e \in Prices
  <2>1. Along(e, f, n) \in [1 .. n -> Int]
    BY DEF Along
  <2> QED BY <2>1, SumsByTurn
<1>5a. d \in [1 .. m -> Int] /\ \A c \in 1 .. m : d[c] <= 0
  OBVIOUS
<1>6. k # 0
  <2>1. ASSUME k = 0 PROVE PricesFit(d, f, n, k, m)
    <3>1. Sums(Along(d, f, n), n)[0] = 0
      BY <1>5 DEF SumsOf
    <3>2. /\ Sums(d, m)[m] <= 0
          /\ (\A j \in 1 .. m : d[j] = 0) => Sums(d, m)[m] = 0
      BY SumsNotPositive
    <3> QED BY <2>1, <3>1, <3>2 DEF PricesFit
  <2> QED BY <1>4, <2>1
<1>7. k \in 1 .. n /\ k - 1 \in 0 .. n /\ ~(k <= k - 1) /\ f[k] \in 1 .. m
  BY <1>3, <1>6
<1> DEFINE e == [d EXCEPT ![f[k]] = 0]
<1>8. /\ e \in Prices /\ e[f[k]] = 0 /\ \A c \in 1 .. m : c # f[k] => e[c] = d[c]
      /\ d[f[k]] \in Int /\ e \in [1 .. m -> Int] /\ d[f[k]] <= 0
  <2>1. e = [d EXCEPT ![f[k]] = 0]
    OBVIOUS
  <2>2. d[f[k]] \in Int /\ d[f[k]] <= 0
    BY <1>5a, <1>7
  <2> HIDE DEF e
  <2>3. /\ e[f[k]] = 0 /\ e \in [1 .. m -> Int]
        /\ \A c \in 1 .. m : c # f[k] => e[c] = d[c]
    BY <1>5a, <1>7, <2>1
  <2>4. \A c \in 1 .. m : e[c] <= 0
    <3> TAKE c \in 1 .. m
    <3>1. CASE c = f[k]
      BY <2>3, <3>1
    <3>2. CASE c # f[k]
      BY <1>5a, <2>3, <3>2
    <3> QED BY <3>1, <3>2
  <2>5. e \in Prices
    BY <2>3, <2>4
  <2> QED BY <2>2, <2>3, <2>5
<1>9. Sums(e, m)[m] = Sums(d, m)[m] - d[f[k]]
  BY <1>7, SumsWithout
<1> HIDE DEF e
<1> DEFINE P == Along(d, f, n)
           Q == Along(e, f, n)
<1>9a. /\ P \in [1 .. n -> Int] /\ Q \in [1 .. n -> Int]
       /\ SumsOf(Sums(P, n), P, n) /\ SumsOf(Sums(d, m), d, m) /\ SumsOf(Sums(e, m), e, m)
  BY <1>5, <1>8
<1>10. PricesFit(e, f, n, k - 1, m)
  BY <1>3, <1>7, <1>8
<1>11. Sums(Q, n)[k - 1] = Sums(P, n)[k - 1]
  <2>1. \A j \in 1 .. k - 1 : Q[j] = P[j]
    <3> TAKE j \in 1 .. k - 1
    <3>1. j \in 1 .. n /\ j # k
      BY <1>7
    <3>2. f[j] # f[k] /\ f[j] \in 1 .. m
      BY <1>7, <3>1
    <3> QED BY <1>8, <3>1, <3>2 DEF Along
  <2> HIDE DEF P, Q
  <2>2. \A i \in 0 .. n : (\A j \in 1 .. i : Q[j] = P[j]) => Sums(Q, n)[i] = Sums(P, n)[i]
    BY <1>9a, SumsAgree
  <2> QED BY <1>7, <2>1, <2>2
<1>12. /\ Sums(P, n)[k] = Sums(P, n)[k - 1] + d[f[k]]
       /\ Sums(P, n)[k - 1] \in Int
  <2>1. P[k] = d[f[k]]
    BY <1>7 DEF Along
  <2> HIDE DEF P, Q
  <2> QED BY <1>7, <1>9a, <2>1 DEF SumsOf
<1>13. Sums(d, m)[m] \in Int /\ Sums(e, m)[m] \in Int
  <2>1. m \in 0 .. m
    OBVIOUS
  <2> QED BY <1>9a, <2>1 DEF SumsOf
<1>14. PricesFit(d, f, n, k, m)
  <2>1. Sums(d, m)[m] <= Sums(Along(d, f, n), n)[k]
    <3>1. Sums(e, m)[m] <= Sums(Q, n)[k - 1]
      BY <1>10 DEF PricesFit
    <3> HIDE DEF P, Q
    <3>2. Sums(d, m)[m] - d[f[k]] <= Sums(P, n)[k - 1]
      BY <1>9, <1>11, <3>1
    <3>3. Sums(d, m)[m] <= Sums(P, n)[k]
      <4>1. \A x, y, z, w \in Int : x - y <= z /\ w = z + y => x <= w
        OBVIOUS
      <4>2. Sums(P, n)[k] \in Int
        BY <1>7, <1>9a DEF SumsOf
      <4> QED BY <1>8, <1>12, <1>13, <3>2, <4>1, <4>2
    <3> QED BY <3>3 DEF P
  <2>2. ASSUME \A c \in 1 .. m : (\A r \in 1 .. k : f[r] # c) => d[c] = 0
        PROVE  Sums(Along(d, f, n), n)[k] = Sums(d, m)[m]
    <3>1. ASSUME NEW c \in 1 .. m, \A r \in 1 .. k - 1 : f[r] # c
          PROVE  e[c] = 0
      <4>1. CASE c = f[k]
        BY <1>8, <4>1
      <4>2. CASE c # f[k]
        <5>1. \A r \in 1 .. k : r = k \/ r \in 1 .. k - 1
          BY <1>7
        <5>2. d[c] = 0
          BY <2>2, <3>1, <4>2, <5>1
        <5> QED BY <1>8, <4>2, <5>2
      <4> QED BY <4>1, <4>2
    <3>2. Sums(Along(e, f, n), n)[k - 1] = Sums(e, m)[m]
      BY <1>10, <3>1 DEF PricesFit
    <3> QED BY <1>8, <1>9, <1>11, <1>12, <1>13, <3>2
  <2> QED BY <2>1, <2>2 DEF PricesFit
<1> QED BY <1>4, <1>14

-----------------------------------------------------------------------------
(* The result.                                                              *)

\* The column a row has in the end, and the one a matching gives it.
Place == [r \in 1 .. Height |-> CHOOSE c \in WorkCols : p[c] = r]
Cover(m) == [r \in 1 .. Height |-> IF m[r] = 0 THEN Width + r ELSE m[r]]

Value(m) == [r \in Rows |-> IF m[r] = 0 THEN DummyCost ELSE cost[r][m[r]]]
Prices == [c \in 1 .. Height + Width |-> v[c]]

Ended == IsMatrix(cost) /\ Cols # {} /\ RowInv /\ row = Height + 1 /\ links = Linked

LEMMA PlacesFit ==
  ASSUME Ended
  PROVE  /\ Place \in [1 .. Height -> 1 .. Height + Width]
         /\ \A r, s \in 1 .. Height : Place[r] = Place[s] => r = s
         /\ \A r \in 1 .. Height : p[Place[r]] = r
         /\ \A c \in WorkCols, r \in 1 .. Height : p[c] = r => c = Place[r]
         /\ \A c \in 1 .. Height + Width : (\A r \in 1 .. Height : Place[r] # c) => Prices[c] = 0
<1>1. WorkCols = 1 .. Height + Width /\ Height \in Nat
  BY Shape DEF Ended
<1>2. Placed(p, WorkCols, Height) /\ Paid(work, u, v, p, WorkCols)
  <2>1. row - 1 = Height
    BY <1>1 DEF Ended
  <2> QED BY <2>1 DEF Ended, RowInv
<1>3. \A r \in 1 .. Height : Place[r] \in WorkCols /\ p[Place[r]] = r
  <2> TAKE r \in 1 .. Height
  <2>1. \E c \in WorkCols : p[c] = r
    BY <1>2 DEF Placed
  <2>2. Place[r] = CHOOSE c \in WorkCols : p[c] = r
    BY DEF Place
  <2> QED BY <2>1, <2>2
<1>4. \A c \in WorkCols, r \in 1 .. Height : p[c] = r => c = Place[r]
  BY <1>1, <1>2, <1>3 DEF Placed
<1>5. Place \in [1 .. Height -> 1 .. Height + Width]
  BY <1>1, <1>3 DEF Place
<1>6. ASSUME NEW c \in 1 .. Height + Width, \A r \in 1 .. Height : Place[r] # c
      PROVE  Prices[c] = 0
  <2>1. p[c] \in 0 .. Height /\ p[c] \notin 1 .. Height
    BY <1>1, <1>2, <1>4, <1>6 DEF Placed
  <2>2. p[c] = 0
    BY <1>1, <2>1
  <2>3. v[c] = 0
    BY <1>1, <1>2, <2>2 DEF Paid
  <2> QED BY <2>3 DEF Prices
<1> QED BY <1>3, <1>4, <1>5, <1>6

LEMMA CoversFit ==
  ASSUME Ended, NEW m \in [Rows -> Cols \cup {0}], IsMatching(m)
  PROVE  /\ Cover(m) \in [1 .. Height -> 1 .. Height + Width]
         /\ \A r, s \in 1 .. Height : Cover(m)[r] = Cover(m)[s] => r = s
<1>1. Height \in Nat /\ Width \in Nat /\ Rows = 1 .. Height /\ Cols = 1 .. Width
  BY Shape DEF Ended
<1>2. \A r \in 1 .. Height : /\ m[r] \in 0 .. Width
                             /\ Cover(m)[r] = IF m[r] = 0 THEN Width + r ELSE m[r]
  BY <1>1 DEF Cover
<1>3. \A r, s \in 1 .. Height : m[r] = m[s] /\ m[r] # 0 => r = s
  BY <1>1 DEF IsMatching
<1>4. Cover(m) \in [1 .. Height -> 1 .. Height + Width]
  <2>1. \A r \in 1 .. Height : Cover(m)[r] \in 1 .. Height + Width
    BY <1>1, <1>2
  <2> QED BY <2>1 DEF Cover
<1>5. ASSUME NEW r \in 1 .. Height, NEW s \in 1 .. Height, Cover(m)[r] = Cover(m)[s]
      PROVE  r = s
  <2>1. CASE m[r] = 0 /\ m[s] = 0
    BY <1>1, <1>2, <1>5, <2>1
  <2>2. CASE m[r] # 0 /\ m[s] # 0
    BY <1>2, <1>3, <1>5, <2>2
  <2>3. CASE m[r] = 0 /\ m[s] # 0
    BY <1>1, <1>2, <1>5, <2>3
  <2>4. CASE m[r] # 0 /\ m[s] = 0
    BY <1>1, <1>2, <1>5, <2>4
  <2> QED BY <2>1, <2>2, <2>3, <2>4
<1> QED BY <1>4, <1>5

\* A row is linked to its column if that is a real one and allowed.
LEMMA LinksArePlaces ==
  ASSUME Ended
  PROVE  /\ \A r \in Rows : links[r] = IF Place[r] \in Cols /\ Allowed(r, Place[r])
                                       THEN Place[r] ELSE 0
         /\ links \in [Rows -> Cols \cup {0}]
<1>1. Rows = 1 .. Height /\ Height \in Nat /\ Width \in Nat /\ Cols = 1 .. Width
      /\ Cols \subseteq WorkCols
  <2>1. Rows = 1 .. Height /\ Height \in Nat /\ Width \in Nat /\ Cols = 1 .. Width
        /\ WorkCols = 1 .. Height + Width
    BY Shape DEF Ended
  <2> QED BY <2>1
<1>2. ASSUME NEW r \in Rows
      PROVE  links[r] = IF Place[r] \in Cols /\ Allowed(r, Place[r]) THEN Place[r] ELSE 0
  <2> DEFINE own == {c \in Cols : p[c] = r /\ Allowed(r, c)}
  <2>1. links[r] = IF own = {} THEN 0 ELSE Max(own)
    BY DEF Ended, Linked
  <2>2. own \subseteq {Place[r]} /\ p[Place[r]] = r
    BY <1>1, PlacesFit
  <2>3. CASE Place[r] \in Cols /\ Allowed(r, Place[r])
    <3>1. own = {Place[r]}
      BY <2>2, <2>3
    <3>2. Max({Place[r]}) = Place[r]
      <4>1. \A x \in Int : Max({x}) = x
        BY DEF Max
      <4> QED BY <1>1, <2>3, <4>1
    <3>3. own # {}
      BY <3>1
    <3> QED BY <2>1, <2>3, <3>1, <3>2, <3>3
  <2>4. CASE ~(Place[r] \in Cols /\ Allowed(r, Place[r]))
    <3>1. own = {}
      BY <2>2, <2>4
    <3> QED BY <2>1, <2>4, <3>1
  <2> QED BY <2>3, <2>4
<1>3. links = [r \in Rows |-> links[r]]
  BY DEF Ended, Linked
<1> QED BY <1>2, <1>3

\* What a row pays for its link, and for another, against its potential.
LEMMA LinksAreCheap ==
  ASSUME Ended, NEW m \in [Rows -> Cols \cup {0}], IsMatching(m), NEW r \in 1 .. Height
  PROVE  /\ Value(links)[r] \in Int /\ Value(m)[r] \in Int
         /\ Prices[Place[r]] \in Int /\ Prices[Cover(m)[r]] \in Int
         /\ Value(links)[r] + Prices[Cover(m)[r]] <= Value(m)[r] + Prices[Place[r]]
<1>1. /\ Rows = 1 .. Height /\ Height \in Nat /\ Width \in Nat /\ Cols = 1 .. Width
      /\ WorkCols = 1 .. Height + Width /\ IsMatrix(cost)
  BY Shape DEF Ended
<1>2. /\ work = [s \in Rows |-> [c \in WorkCols |-> WorkCost(s, c)]]
      /\ Feasible(work, u, v, Height, WorkCols) /\ Paid(work, u, v, p, WorkCols)
      /\ u[r] \in Int /\ \A c \in WorkCols : v[c] \in Int /\ Prices[c] = v[c]
  <2>1. row - 1 = Height
    BY <1>1 DEF Ended
  <2> QED BY <1>1, <2>1 DEF Ended, RowInv, Potentials, AllCols, Prices
<1>3. Place[r] \in WorkCols /\ Cover(m)[r] \in WorkCols /\ p[Place[r]] = r /\ r # 0
  BY <1>1, PlacesFit, CoversFit
<1>4. \A c \in WorkCols : work[r][c] = WorkCost(r, c) /\ work[r][c] \in Int
  BY <1>1, <1>2, CostsAreNumbers
<1>5. WorkCost(r, Place[r]) = u[r] + v[Place[r]]
  <2>1. work[r][Place[r]] - u[r] - v[Place[r]] = 0
    BY <1>2, <1>3 DEF Paid, Slack
  <2>2. /\ u[r] \in Int /\ v[Place[r]] \in Int
        /\ work[r][Place[r]] = WorkCost(r, Place[r]) /\ work[r][Place[r]] \in Int
    BY <1>2, <1>3, <1>4
  <2>3. \A x, y, z \in Int : x - y - z = 0 => x = y + z
    OBVIOUS
  <2> QED BY <2>1, <2>2, <2>3
<1>6. u[r] + v[Cover(m)[r]] <= WorkCost(r, Cover(m)[r])
  <2>1. 0 <= work[r][Cover(m)[r]] - u[r] - v[Cover(m)[r]]
    BY <1>2, <1>3 DEF Feasible, Slack
  <2>2. /\ u[r] \in Int /\ v[Cover(m)[r]] \in Int
        /\ work[r][Cover(m)[r]] = WorkCost(r, Cover(m)[r])
        /\ work[r][Cover(m)[r]] \in Int
    BY <1>2, <1>3, <1>4
  <2>3. \A x, y, z \in Int : 0 <= x - y - z => y + z <= x
    OBVIOUS
  <2> QED BY <2>1, <2>2, <2>3
<1>7. Value(m)[r] = WorkCost(r, Cover(m)[r])
  <2>1. m[r] \in 0 .. Width /\ (m[r] # 0 => Allowed(r, m[r]))
    BY <1>1 DEF IsMatching
  <2>2. Cover(m)[r] = IF m[r] = 0 THEN Width + r ELSE m[r]
    BY DEF Cover
  <2>3. Value(m)[r] = IF m[r] = 0 THEN DummyCost ELSE cost[r][m[r]]
    BY <1>1 DEF Value
  <2>4. CASE m[r] = 0
    <3>1. Cover(m)[r] \notin Cols
      BY <1>1, <2>2, <2>4
    <3> QED BY <2>3, <2>4, <3>1 DEF WorkCost
  <2>5. CASE m[r] # 0
    <3>1. Cover(m)[r] = m[r] /\ m[r] \in Cols
      BY <1>1, <2>1, <2>2, <2>5
    <3> QED BY <2>1, <2>3, <2>5, <3>1 DEF WorkCost
  <2> QED BY <2>4, <2>5
<1>8. Value(links)[r] \in Int /\ Value(links)[r] <= WorkCost(r, Place[r])
  <2>1. links[r] = IF Place[r] \in Cols /\ Allowed(r, Place[r]) THEN Place[r] ELSE 0
    BY <1>1, LinksArePlaces
  <2>2. Value(links)[r] = IF links[r] = 0 THEN DummyCost ELSE cost[r][links[r]]
    BY <1>1 DEF Value
  <2>3. DummyCost \in Int /\ BlockedCost \in Int /\ DummyCost <= BlockedCost
    BY <1>1, CostsAreNumbers
  <2>4. CASE Place[r] \in Cols /\ Allowed(r, Place[r])
    <3>1. Place[r] # 0
      BY <1>1, <1>3
    <3>2. Value(links)[r] = WorkCost(r, Place[r])
      BY <2>1, <2>2, <2>4, <3>1 DEF WorkCost
    <3> QED BY <1>3, <1>4, <3>2
  <2>5. CASE ~(Place[r] \in Cols /\ Allowed(r, Place[r]))
    <3>1. Value(links)[r] = DummyCost
      BY <2>1, <2>2, <2>5
    <3>2. WorkCost(r, Place[r]) \in {DummyCost, BlockedCost}
      BY <2>5 DEF WorkCost
    <3> QED BY <2>3, <3>1, <3>2
  <2> QED BY <2>4, <2>5
<1>9. WorkCost(r, Place[r]) \in Int /\ WorkCost(r, Cover(m)[r]) \in Int
  BY <1>3, <1>4
<1>10. \A a, b, x, y, z, w, n \in Int :
         a <= x /\ x = n + z /\ n + w <= b => a + w <= b + z
  OBVIOUS
<1>11. Value(links)[r] + v[Cover(m)[r]] <= Value(m)[r] + v[Place[r]]
  BY <1>2, <1>3, <1>5, <1>6, <1>7, <1>8, <1>9, <1>10
<1> QED BY <1>2, <1>3, <1>7, <1>8, <1>9, <1>11

LEMMA LinksCostLeast ==
  ASSUME Ended, NEW m \in [Rows -> Cols \cup {0}], IsMatching(m)
  PROVE  Total(links) <= Total(m)
<1> DEFINE n == Height
           k == Height + Width
           A == Value(links)
           C == Value(m)
           B == Along(Prices, Cover(m), n)
           D == Along(Prices, Place, n)
<1>1. n \in Nat /\ k \in Nat /\ Rows = 1 .. n /\ WorkCols = 1 .. k
  BY Shape DEF Ended
<1>2. Prices \in [1 .. k -> Int] /\ \A c \in 1 .. k : Prices[c] <= 0
  <2>1. \A c \in 1 .. k : v[c] \in Int /\ v[c] <= 0
    BY <1>1 DEF Ended, RowInv, Potentials, Paid, AllCols
  <2> QED BY <2>1 DEF Prices
<1>3. /\ A \in [1 .. n -> Int] /\ C \in [1 .. n -> Int]
      /\ B \in [1 .. n -> Int] /\ D \in [1 .. n -> Int]
  <2>1. A \in [1 .. n -> Int] /\ C \in [1 .. n -> Int]
    BY <1>1, LinksAreCheap DEF Value
  <2>2. B \in [1 .. n -> Int] /\ D \in [1 .. n -> Int]
    BY LinksAreCheap DEF Along
  <2> QED BY <2>1, <2>2
<1>4. \A r \in 1 .. n : A[r] + B[r] <= C[r] + D[r]
  BY LinksAreCheap DEF Along
<1>5. PricesFit(Prices, Cover(m), n, n, k)
  <2>1. /\ Cover(m) \in [1 .. n -> 1 .. k]
        /\ \A r, s \in 1 .. n : Cover(m)[r] = Cover(m)[s] => r = s
    BY CoversFit
  <2> HIDE DEF n, k
  <2> QED BY <1>1, <1>2, <2>1, PricesOfRows
<1>6. PricesFit(Prices, Place, n, n, k)
  <2>1. /\ Place \in [1 .. n -> 1 .. k]
        /\ \A r, s \in 1 .. n : Place[r] = Place[s] => r = s
    BY PlacesFit
  <2> HIDE DEF n, k
  <2> QED BY <1>1, <1>2, <2>1, PricesOfRows
<1>7. Sums(D, n)[n] <= Sums(B, n)[n]
  <2>1. Sums(D, n)[n] = Sums(Prices, k)[k]
    BY <1>6, PlacesFit DEF PricesFit
  <2>2. Sums(Prices, k)[k] <= Sums(B, n)[n]
    BY <1>5 DEF PricesFit
  <2> QED BY <2>1, <2>2
<1>8. Total(links) = Sums(A, n)[n] /\ Total(m) = Sums(C, n)[n]
  <2>1. Total(links) = SumTo(A, n) /\ Total(m) = SumTo(C, n)
    BY Zenon DEF Total, Value, Height
  <2> HIDE DEF A, C, n
  <2> QED BY <1>1, <1>3, <2>1, SumsByTurn
<1> HIDE DEF n, A, B, C, D
<1>9. Sums(A, n)[n] + Sums(B, n)[n] <= Sums(C, n)[n] + Sums(D, n)[n]
  <2>1. n \in 0 .. n
    BY <1>1
  <2> QED BY <1>1, <1>3, <1>4, <2>1, SumsCompare
<1>10. /\ Sums(A, n)[n] \in Int /\ Sums(B, n)[n] \in Int
       /\ Sums(C, n)[n] \in Int /\ Sums(D, n)[n] \in Int
  <2>1. n \in 0 .. n
    BY <1>1
  <2> QED BY <1>1, <1>3, <2>1, SumsByTurn DEF SumsOf
<1> QED BY <1>7, <1>8, <1>9, <1>10

LEMMA LinksMatch ==
  ASSUME Ended
  PROVE  IsMatching(links)
<1>1. Rows = 1 .. Height /\ Height \in Nat
  BY Shape DEF Ended
<1>2. ASSUME NEW r \in Rows, NEW s \in Rows, links[r] = links[s], links[r] # 0
      PROVE  r = s
  <2>1. links[r] = Place[r] /\ links[s] = Place[s]
    BY <1>2, LinksArePlaces
  <2>2. Place[r] = Place[s]
    BY <1>2, <2>1
  <2>3. \A i, j \in 1 .. Height : Place[i] = Place[j] => i = j
    BY PlacesFit
  <2> QED BY <1>1, <2>2, <2>3
<1>3. \A r \in Rows : links[r] # 0 => Allowed(r, links[r])
  BY LinksArePlaces
<1> QED BY <1>2, <1>3 DEF IsMatching

\* What solve_rectangular_assignment promises: its result matches allowed pairs
\* only, each column once, and no matching costs less, whatever the costs are.
THEOREM LinksStayOptimal == AssocSpec => []LinksAreOptimal
<1>1. AssocInv => LinksAreOptimal
  <2>1. AssocInv /\ pc = "done" /\ Cols # {} => Ended
    BY DEF AssocInv, Ended
  <2> QED BY <2>1, LinksMatch, LinksCostLeast DEF LinksAreOptimal
<1> QED BY <1>1, AssocInvariant, PTL
=============================================================================
