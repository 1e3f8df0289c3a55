------------------------- MODULE RecognitionProofs -------------------------
(***************************************************************************)
(* Theorems about RecognitionLoop and the ByteTracker it drives.           *)
(*                                                                         *)
(* A call of the tracker changes a track in one of a few ways, stated for  *)
(* one track at a time (GoesOn, RecordedSound, ForgottenSound); the loop's *)
(* invariant Inv then follows action by action.  Beside what the run       *)
(* checks Inv says which parts of the state are empty with and without a   *)
(* tracker, and that a track with a session has been confirmed once: a     *)
(* track confirmed only now cannot take over a session with an identity.   *)
(***************************************************************************)
EXTENDS RecognitionLoop, Integers, WellFoundedInduction, TLAPS

-----------------------------------------------------------------------------
(* Tracks by their fields.                                                  *)

TrackOf(state, hits, missed, since, predicted, resident, latched, tried) ==
  [state |-> state, hits |-> hits, missed |-> missed, since |-> since,
   predicted |-> predicted, resident |-> resident, latched |-> latched,
   tried |-> tried]

LEMMA TrackByFields ==
  ASSUME NEW t \in Track
  PROVE  t = TrackOf(t.state, t.hits, t.missed, t.since, t.predicted,
                     t.resident, t.latched, t.tried)
BY DEF Track, TrackOf

LEMMA FieldsOf ==
  ASSUME NEW a, NEW b, NEW c, NEW d, NEW e, NEW f, NEW g, NEW h
  PROVE  LET t == TrackOf(a, b, c, d, e, f, g, h)
         IN /\ t.state = a /\ t.hits = b /\ t.missed = c /\ t.since = d
            /\ t.predicted = e /\ t.resident = f /\ t.latched = g
            /\ t.tried = h
BY DEF TrackOf

LEMMA SetState ==
  \A a, b, c, d, e, f, g, h, x :
    [TrackOf(a, b, c, d, e, f, g, h) EXCEPT !.state = x]
    = TrackOf(x, b, c, d, e, f, g, h)
BY DEF TrackOf

LEMMA SetHits ==
  \A a, b, c, d, e, f, g, h, x :
    [TrackOf(a, b, c, d, e, f, g, h) EXCEPT !.hits = x]
    = TrackOf(a, x, c, d, e, f, g, h)
BY DEF TrackOf

LEMMA SetMissed ==
  \A a, b, c, d, e, f, g, h, x :
    [TrackOf(a, b, c, d, e, f, g, h) EXCEPT !.missed = x]
    = TrackOf(a, b, x, d, e, f, g, h)
BY DEF TrackOf

LEMMA SetSince ==
  \A a, b, c, d, e, f, g, h, x :
    [TrackOf(a, b, c, d, e, f, g, h) EXCEPT !.since = x]
    = TrackOf(a, b, c, x, e, f, g, h)
BY DEF TrackOf

LEMMA SetPredicted ==
  \A a, b, c, d, e, f, g, h, x :
    [TrackOf(a, b, c, d, e, f, g, h) EXCEPT !.predicted = x]
    = TrackOf(a, b, c, d, x, f, g, h)
BY DEF TrackOf

LEMMA SetResident ==
  \A a, b, c, d, e, f, g, h, x :
    [TrackOf(a, b, c, d, e, f, g, h) EXCEPT !.resident = x]
    = TrackOf(a, b, c, d, e, x, g, h)
BY DEF TrackOf

LEMMA SetLatched ==
  \A a, b, c, d, e, f, g, h, x :
    [TrackOf(a, b, c, d, e, f, g, h) EXCEPT !.latched = x]
    = TrackOf(a, b, c, d, e, f, x, h)
BY DEF TrackOf

LEMMA SetTried ==
  \A a, b, c, d, e, f, g, h, x :
    [TrackOf(a, b, c, d, e, f, g, h) EXCEPT !.tried = x]
    = TrackOf(a, b, c, d, e, f, g, x)
BY DEF TrackOf

LEMMA AgedFields ==
  ASSUME NEW t \in Track, NEW dt
  PROVE  [t EXCEPT !.since = Later(@, dt, LostTimeout),
                   !.tried = Later(@, dt, UnknownRetry)]
         = TrackOf(t.state, t.hits, t.missed,
                   Later(t.since, dt, LostTimeout), t.predicted, t.resident,
                   t.latched, Later(t.tried, dt, UnknownRetry))
<1> DEFINE s == Later(t.since, dt, LostTimeout)
           r == Later(t.tried, dt, UnknownRetry)
           t0 == TrackOf(t.state, t.hits, t.missed, t.since, t.predicted,
                         t.resident, t.latched, t.tried)
           t1 == TrackOf(t.state, t.hits, t.missed, s, t.predicted,
                         t.resident, t.latched, t.tried)
           t2 == TrackOf(t.state, t.hits, t.missed, s, t.predicted,
                         t.resident, t.latched, r)
<1>1. t = t0
  BY TrackByFields
<1> HIDE DEF s, r
<1>2. [t EXCEPT !.since = s] = t1
  BY <1>1, SetSince
<1>3. [t1 EXCEPT !.tried = r] = t2
  BY SetTried
<1> HIDE DEF t0, t1, t2
<1>4. [t EXCEPT !.since = s, !.tried = r]
      = [[t EXCEPT !.since = s] EXCEPT !.tried = r]
  BY Zenon
<1>5. @ = t2
  BY <1>2, <1>3, Zenon
<1> QED BY <1>4, <1>5, Zenon DEF s, r, t2

LEMMA MatchedFields ==
  ASSUME NEW t \in Track
  PROVE  [t EXCEPT !.hits = @ + 1, !.missed = 0, !.since = 0,
                   !.predicted = FALSE]
         = TrackOf(t.state, t.hits + 1, 0, 0, FALSE, t.resident, t.latched,
                   t.tried)
<1> DEFINE n == t.hits + 1
           no == FALSE
           t0 == TrackOf(t.state, t.hits, t.missed, t.since, t.predicted,
                         t.resident, t.latched, t.tried)
           t1 == TrackOf(t.state, n, t.missed, t.since, t.predicted,
                         t.resident, t.latched, t.tried)
           t2 == TrackOf(t.state, n, 0, t.since, t.predicted, t.resident,
                         t.latched, t.tried)
           t3 == TrackOf(t.state, n, 0, 0, t.predicted, t.resident,
                         t.latched, t.tried)
           t4 == TrackOf(t.state, n, 0, 0, no, t.resident, t.latched, t.tried)
<1>1. t = t0
  BY TrackByFields
<1> HIDE DEF n, no
<1>2. [t EXCEPT !.hits = n] = t1
  BY <1>1, SetHits
<1>3. [t1 EXCEPT !.missed = 0] = t2
  BY SetMissed
<1>4. [t2 EXCEPT !.since = 0] = t3
  BY SetSince
<1>5. [t3 EXCEPT !.predicted = no] = t4
  BY SetPredicted
<1> HIDE DEF t0, t1, t2, t3, t4
<1>6. [t EXCEPT !.hits = n, !.missed = 0, !.since = 0, !.predicted = no]
      = [[[[t EXCEPT !.hits = n] EXCEPT !.missed = 0]
           EXCEPT !.since = 0] EXCEPT !.predicted = no]
  BY Zenon
<1>7. @ = t4
  BY <1>2, <1>3, <1>4, <1>5, Zenon
<1> QED BY <1>6, <1>7, Zenon DEF n, no, t4

LEMMA ConfirmedFields ==
  ASSUME NEW t \in Track
  PROVE  [t EXCEPT !.state = "Tracked", !.resident = Nobody,
                   !.latched = FALSE, !.tried = UnknownRetry]
         = TrackOf("Tracked", t.hits, t.missed, t.since, t.predicted, Nobody,
                   FALSE, UnknownRetry)
<1> DEFINE no == FALSE
           t0 == TrackOf(t.state, t.hits, t.missed, t.since, t.predicted,
                         t.resident, t.latched, t.tried)
           t1 == TrackOf("Tracked", t.hits, t.missed, t.since, t.predicted,
                         t.resident, t.latched, t.tried)
           t2 == TrackOf("Tracked", t.hits, t.missed, t.since, t.predicted,
                         Nobody, t.latched, t.tried)
           t3 == TrackOf("Tracked", t.hits, t.missed, t.since, t.predicted,
                         Nobody, no, t.tried)
           t4 == TrackOf("Tracked", t.hits, t.missed, t.since, t.predicted,
                         Nobody, no, UnknownRetry)
<1>1. t = t0
  BY TrackByFields
<1> HIDE DEF no
<1>2. [t EXCEPT !.state = "Tracked"] = t1
  BY <1>1, SetState
<1>3. [t1 EXCEPT !.resident = Nobody] = t2
  BY SetResident
<1>4. [t2 EXCEPT !.latched = no] = t3
  BY SetLatched
<1>5. [t3 EXCEPT !.tried = UnknownRetry] = t4
  BY SetTried
<1> HIDE DEF t0, t1, t2, t3, t4
<1>6. [t EXCEPT !.state = "Tracked", !.resident = Nobody, !.latched = no,
                !.tried = UnknownRetry]
      = [[[[t EXCEPT !.state = "Tracked"] EXCEPT !.resident = Nobody]
           EXCEPT !.latched = no] EXCEPT !.tried = UnknownRetry]
  BY Zenon
<1>7. @ = t4
  BY <1>2, <1>3, <1>4, <1>5, Zenon
<1> QED BY <1>6, <1>7, Zenon DEF no, t4

LEMMA MissedFields ==
  ASSUME NEW t \in Track
  PROVE  [t EXCEPT !.missed = Later(@, 1, LostGraceUpdates),
                   !.predicted = TRUE]
         = TrackOf(t.state, t.hits, Later(t.missed, 1, LostGraceUpdates),
                   t.since, TRUE, t.resident, t.latched, t.tried)
<1> DEFINE n == Later(t.missed, 1, LostGraceUpdates)
           yes == TRUE
           t0 == TrackOf(t.state, t.hits, t.missed, t.since, t.predicted,
                         t.resident, t.latched, t.tried)
           t1 == TrackOf(t.state, t.hits, n, t.since, t.predicted,
                         t.resident, t.latched, t.tried)
           t2 == TrackOf(t.state, t.hits, n, t.since, yes, t.resident,
                         t.latched, t.tried)
<1>1. t = t0
  BY TrackByFields
<1> HIDE DEF n, yes
<1>2. [t EXCEPT !.missed = n] = t1
  BY <1>1, SetMissed
<1>3. [t1 EXCEPT !.predicted = yes] = t2
  BY SetPredicted
<1> HIDE DEF t0, t1, t2
<1>4. [t EXCEPT !.missed = n, !.predicted = yes]
      = [[t EXCEPT !.missed = n] EXCEPT !.predicted = yes]
  BY Zenon
<1>5. @ = t2
  BY <1>2, <1>3, Zenon
<1> QED BY <1>4, <1>5, Zenon DEF n, yes, t2

LEMMA RecordedFields ==
  ASSUME NEW t \in Track, NEW rid
  PROVE  [t EXCEPT !.tried = 0,
                   !.resident = IF rid = Nobody /\ @ # Nobody THEN @ ELSE rid,
                   !.latched = @ \/ rid # Nobody]
         = TrackOf(t.state, t.hits, t.missed, t.since, t.predicted,
                   IF rid = Nobody /\ t.resident # Nobody THEN t.resident
                   ELSE rid, (t.latched \/ rid # Nobody), 0)
<1> DEFINE k == IF rid = Nobody /\ t.resident # Nobody THEN t.resident ELSE rid
           l == (t.latched \/ rid # Nobody)
           t0 == TrackOf(t.state, t.hits, t.missed, t.since, t.predicted,
                         t.resident, t.latched, t.tried)
           t1 == TrackOf(t.state, t.hits, t.missed, t.since, t.predicted,
                         t.resident, t.latched, 0)
           t2 == TrackOf(t.state, t.hits, t.missed, t.since, t.predicted, k,
                         t.latched, 0)
           t3 == TrackOf(t.state, t.hits, t.missed, t.since, t.predicted, k,
                         l, 0)
<1>1. t = t0
  BY TrackByFields
<1> HIDE DEF k, l
<1>2. [t EXCEPT !.tried = 0] = t1
  BY <1>1, SetTried
<1>3. [t1 EXCEPT !.resident = k] = t2
  BY SetResident
<1>4. [t2 EXCEPT !.latched = l] = t3
  BY SetLatched
<1> HIDE DEF t0, t1, t2, t3
<1>5. [t EXCEPT !.tried = 0, !.resident = k, !.latched = l]
      = [[[t EXCEPT !.tried = 0] EXCEPT !.resident = k] EXCEPT !.latched = l]
  BY Zenon
<1>6. @ = t3
  BY <1>2, <1>3, <1>4, Zenon
<1> QED BY <1>5, <1>6, Zenon DEF k, l, t3

LEMMA ForgottenFields ==
  ASSUME NEW t \in Track
  PROVE  [t EXCEPT !.resident = Nobody, !.latched = FALSE,
                   !.tried = UnknownRetry]
         = TrackOf(t.state, t.hits, t.missed, t.since, t.predicted, Nobody,
                   FALSE, UnknownRetry)
<1> DEFINE no == FALSE
           t0 == TrackOf(t.state, t.hits, t.missed, t.since, t.predicted,
                         t.resident, t.latched, t.tried)
           t1 == TrackOf(t.state, t.hits, t.missed, t.since, t.predicted,
                         Nobody, t.latched, t.tried)
           t2 == TrackOf(t.state, t.hits, t.missed, t.since, t.predicted,
                         Nobody, no, t.tried)
           t3 == TrackOf(t.state, t.hits, t.missed, t.since, t.predicted,
                         Nobody, no, UnknownRetry)
<1>1. t = t0
  BY TrackByFields
<1> HIDE DEF no
<1>2. [t EXCEPT !.resident = Nobody] = t1
  BY <1>1, SetResident
<1>3. [t1 EXCEPT !.latched = no] = t2
  BY SetLatched
<1>4. [t2 EXCEPT !.tried = UnknownRetry] = t3
  BY SetTried
<1> HIDE DEF t0, t1, t2, t3
<1>5. [t EXCEPT !.resident = Nobody, !.latched = no, !.tried = UnknownRetry]
      = [[[t EXCEPT !.resident = Nobody] EXCEPT !.latched = no]
          EXCEPT !.tried = UnknownRetry]
  BY Zenon
<1>6. @ = t3
  BY <1>2, <1>3, <1>4, Zenon
<1> QED BY <1>5, <1>6, Zenon DEF no, t3

LEMMA LaterTyped ==
  ASSUME NEW limit \in Nat, NEW n \in 0 .. limit, NEW dt \in Nat
  PROVE  /\ Later(n, dt, limit) \in 0 .. limit
         /\ Later(n, dt, limit) < limit => n < limit
BY DEF Later

-----------------------------------------------------------------------------
(* What one call does to one track.                                         *)

\* A track as TrackerTypeOK has it.
Sound(t) ==
  /\ t \in Track
  /\ t.latched <=> t.resident # Nobody
  /\ t.latched => Confirmed(t)
  /\ Confirmed(t) => t.since < LostTimeout
  /\ t.state = "Tracked" /\ t.missed > 0 => t.predicted

New(t) == t.state \in {"None", "Tentative"}

\* What predict and update may make of a track: a track that is confirmed
\* goes on with its identity, and what it waits for it has waited for
\* before, or it is confirmed now and waits for nothing.
GoesOn(t, u) ==
  /\ Sound(u)
  /\ Confirmed(u) =>
       \/ /\ Confirmed(t)
          /\ u.resident = t.resident /\ u.latched = t.latched
          /\ u.tried < UnknownRetry => t.tried < UnknownRetry
       \/ New(t) /\ ~u.latched /\ u.tried = UnknownRetry
  /\ New(u) => New(t)

LEMMA BlankSound ==
  ASSUME NEW state \in {"None", "Tentative", "Removed"}
  PROVE  /\ Sound(Blank(state))
         /\ ~Confirmed(Blank(state))
         /\ Blank(state).state = state
BY TrackerAssumption DEF Blank, Sound, Track, Confirmed

LEMMA SoundGoesOn ==
  ASSUME NEW t, Sound(t)
  PROVE  GoesOn(t, t)
BY DEF GoesOn

LEMMA RemovedGoesOn ==
  ASSUME NEW t
  PROVE  GoesOn(t, Blank("Removed"))
BY BlankSound DEF GoesOn, New

LEMMA PredictedGoesOn ==
  ASSUME NEW t, Sound(t), NEW dt \in Nat
  PROVE  GoesOn(t, Predicted(t, dt))
<1> DEFINE s == Later(t.since, dt, LostTimeout)
           r == Later(t.tried, dt, UnknownRetry)
           aged == TrackOf(t.state, t.hits, t.missed, s, t.predicted,
                           t.resident, t.latched, r)
           u == TrackOf(t.state, t.hits, t.missed, s, TRUE, t.resident,
                        t.latched, r)
<1>1. t \in Track
  BY DEF Sound
<1>2. /\ s \in 0 .. LostTimeout
      /\ r \in 0 .. UnknownRetry
      /\ r < UnknownRetry => t.tried < UnknownRetry
  BY <1>1, LaterTyped, TrackerAssumption DEF Track
<1>3. Predicted(t, dt) = IF ~Confirmed(t) THEN t
                         ELSE IF Expired(aged) THEN Blank("Removed") ELSE u
  <2>1. [t EXCEPT !.since = Later(@, dt, LostTimeout),
                  !.tried = Later(@, dt, UnknownRetry)] = aged
    BY <1>1, AgedFields, Zenon
  <2> DEFINE yes == TRUE
  <2> HIDE DEF yes
  <2>2. [aged EXCEPT !.predicted = yes]
        = TrackOf(t.state, t.hits, t.missed, s, yes, t.resident, t.latched, r)
    BY SetPredicted
  <2> QED BY <2>1, <2>2, Zenon DEF Predicted, yes
<1>4. CASE ~Confirmed(t)
  BY <1>3, <1>4, SoundGoesOn
<1>5. CASE Confirmed(t) /\ Expired(aged)
  BY <1>3, <1>5, RemovedGoesOn
<1>6. CASE Confirmed(t) /\ ~Expired(aged)
  <2> HIDE DEF s, r
  <2>1. u \in Track
    BY <1>1, <1>2, TrackerAssumption DEF Track, TrackOf
  <2>2. /\ u.state = t.state /\ u.since = s /\ u.predicted = TRUE
        /\ u.resident = t.resident /\ u.latched = t.latched /\ u.tried = r
        /\ aged.state = t.state /\ aged.since = s
    BY DEF TrackOf
  <2> HIDE DEF u, aged
  <2>3. s < LostTimeout
    BY <1>2, <1>6, <2>2, TrackerAssumption DEF Expired, Confirmed
  <2>4. Sound(u)
    BY <1>6, <2>1, <2>2, <2>3 DEF Sound, Confirmed
  <2>5. GoesOn(t, u)
    BY <1>2, <1>6, <2>2, <2>4 DEF GoesOn, Confirmed, New
  <2> QED BY <1>3, <1>6, <2>5
<1> QED BY <1>4, <1>5, <1>6

LEMMA MatchedGoesOn ==
  ASSUME NEW t, Sound(t), t.hits < MaxHits, New(t) \/ Confirmed(t)
  PROVE  /\ GoesOn(t, Matched(t))
         /\ Confirmed(t) => Confirmed(Matched(t))
<1> DEFINE m == TrackOf(t.state, t.hits + 1, 0, 0, FALSE, t.resident,
                        t.latched, t.tried)
           c == TrackOf("Tracked", m.hits, m.missed, m.since, m.predicted,
                        Nobody, FALSE, UnknownRetry)
           l == TrackOf("Tracked", m.hits, m.missed, m.since, m.predicted,
                        m.resident, m.latched, m.tried)
<1>1. t \in Track /\ t.hits + 1 \in 0 .. MaxHits
  BY TrackerAssumption DEF Sound, Track
<1>2. [t EXCEPT !.hits = @ + 1, !.missed = 0, !.since = 0,
                !.predicted = FALSE] = m
  BY <1>1, MatchedFields, Zenon
<1>3. m \in Track
  BY <1>1, TrackerAssumption DEF Track, TrackOf
<1>4. /\ m.state = t.state /\ m.missed = 0 /\ m.since = 0
      /\ m.resident = t.resident /\ m.latched = t.latched
      /\ m.tried = t.tried
  BY DEF TrackOf
<1> HIDE DEF m
<1>5. Matched(t) = IF t.state = "Tentative" /\ m.hits >= ConfirmHits THEN c
                   ELSE IF t.state = "Lost" THEN l ELSE m
  <2>1. [m EXCEPT !.state = "Tracked", !.resident = Nobody,
                  !.latched = FALSE, !.tried = UnknownRetry] = c
    BY <1>3, ConfirmedFields, Zenon
  <2>2. [m EXCEPT !.state = "Tracked"] = l
    BY <1>3, TrackByFields, SetState
  <2> QED BY <1>2, <2>1, <2>2, Zenon DEF Matched
<1> HIDE DEF c, l
<1>6. c \in Track /\ l \in Track
  BY <1>3, TrackerAssumption DEF Track, TrackOf, c, l
<1>7. /\ c.state = "Tracked" /\ l.state = "Tracked"
      /\ c.missed = 0 /\ l.missed = 0 /\ c.since = 0 /\ l.since = 0
      /\ l.resident = t.resident /\ c.resident = Nobody
      /\ l.latched = t.latched /\ c.latched = FALSE
      /\ l.tried = t.tried /\ c.tried = UnknownRetry
  BY <1>4 DEF TrackOf, c, l
<1>8. CASE t.state = "Tentative" /\ m.hits >= ConfirmHits
  <2>1. Sound(c)
    BY <1>6, <1>7, TrackerAssumption DEF Sound, Confirmed
  <2> QED BY <1>5, <1>7, <1>8, <2>1 DEF GoesOn, Confirmed, New
<1>9. CASE t.state = "Lost"
  <2>1. Sound(l)
    BY <1>6, <1>7, <1>9, TrackerAssumption DEF Sound, Confirmed
  <2> QED BY <1>5, <1>7, <1>9, <2>1 DEF GoesOn, Confirmed, New
<1>10. CASE /\ t.state # "Lost"
            /\ ~(t.state = "Tentative" /\ m.hits >= ConfirmHits)
  <2>1. Sound(m)
    BY <1>3, <1>4, TrackerAssumption DEF Sound, Confirmed
  <2> QED BY <1>4, <1>5, <1>10, <2>1 DEF GoesOn, Confirmed, New
<1> QED BY <1>8, <1>9, <1>10

LEMMA MissedGoesOn ==
  ASSUME NEW t, Sound(t), t.state = "Tracked"
  PROVE  GoesOn(t, Missed(t)) /\ Confirmed(Missed(t))
<1> DEFINE n == Later(t.missed, 1, LostGraceUpdates)
           m == TrackOf(t.state, t.hits, n, t.since, TRUE, t.resident,
                        t.latched, t.tried)
           l == TrackOf("Lost", t.hits, n, t.since, TRUE, t.resident,
                        t.latched, t.tried)
<1>1. t \in Track
  BY DEF Sound
<1>2. Missed(t) = IF m.missed >= LostGraceUpdates /\ t.since >= LostGrace
                  THEN l ELSE m
  <2>1. [t EXCEPT !.missed = Later(@, 1, LostGraceUpdates),
                  !.predicted = TRUE] = m
    BY <1>1, MissedFields, Zenon
  <2>2. [m EXCEPT !.state = "Lost"] = l
    <3> DEFINE yes == TRUE
    <3> HIDE DEF yes, n
    <3>1. [TrackOf(t.state, t.hits, n, t.since, yes, t.resident, t.latched,
                   t.tried) EXCEPT !.state = "Lost"]
          = TrackOf("Lost", t.hits, n, t.since, yes, t.resident, t.latched,
                    t.tried)
      BY SetState
    <3> QED BY <3>1, Zenon DEF yes
  <2> QED BY <2>1, <2>2, Zenon DEF Missed
<1>3. n \in 0 .. LostGraceUpdates
  BY <1>1, LaterTyped, TrackerAssumption DEF Track
<1> HIDE DEF n
<1>4. m \in Track /\ l \in Track
  BY <1>1, <1>3, TrackerAssumption DEF Track, TrackOf
<1>5. /\ m.state = t.state /\ l.state = "Lost"
      /\ m.since = t.since /\ l.since = t.since
      /\ m.predicted = TRUE /\ l.predicted = TRUE
      /\ m.resident = t.resident /\ l.resident = t.resident
      /\ m.latched = t.latched /\ l.latched = t.latched
      /\ m.tried = t.tried /\ l.tried = t.tried
  BY DEF TrackOf
<1> HIDE DEF m, l
<1>6. Sound(m) /\ Sound(l)
  BY <1>4, <1>5 DEF Sound, Confirmed
<1> QED BY <1>2, <1>5, <1>6 DEF GoesOn, Confirmed, New

\* Recording an attempt that was due: the track has now the resident that
\* was found, or stays without one and waits.
LEMMA RecordedSound ==
  ASSUME NEW t, Sound(t), NeedsRecognition(t),
         NEW rid \in Residents \cup {Nobody}
  PROVE  LET u == Recorded(t, rid)
         IN /\ Sound(u)
            /\ u.state = t.state
            /\ u.resident = rid
            /\ u.latched <=> rid # Nobody
<1> DEFINE u == TrackOf(t.state, t.hits, t.missed, t.since, t.predicted,
                        rid, (t.latched \/ rid # Nobody), 0)
<1>1. t \in Track /\ ~t.latched /\ t.resident = Nobody /\ t.state = "Tracked"
  BY DEF Sound, NeedsRecognition
<1>2. Recorded(t, rid) = u
  <2>1. [t EXCEPT !.tried = 0,
                  !.resident = IF rid = Nobody /\ @ # Nobody THEN @ ELSE rid,
                  !.latched = @ \/ rid # Nobody] =
        TrackOf(t.state, t.hits, t.missed, t.since, t.predicted,
                IF rid = Nobody /\ t.resident # Nobody THEN t.resident ELSE rid,
                (t.latched \/ rid # Nobody), 0)
    BY <1>1, RecordedFields, Zenon
  <2>2. (IF rid = Nobody /\ t.resident # Nobody THEN t.resident ELSE rid) = rid
    BY <1>1
  <2> QED BY <1>1, <2>1, <2>2, Zenon DEF Recorded
<1> DEFINE known == (t.latched \/ rid # Nobody)
<1>3. known \in BOOLEAN /\ (known <=> rid # Nobody)
  BY <1>1
<1> HIDE DEF known
<1>4. u \in Track
  BY <1>1, <1>3, TrackerAssumption DEF Track, TrackOf
<1>5. /\ u.state = t.state /\ u.since = t.since /\ u.missed = t.missed
      /\ u.predicted = t.predicted /\ u.resident = rid /\ u.latched = known
  BY DEF TrackOf, known
<1> HIDE DEF u
<1>6. Sound(u)
  BY <1>1, <1>3, <1>4, <1>5 DEF Sound, Confirmed
<1> QED BY <1>2, <1>3, <1>5, <1>6

\* A track that loses its identity in invalidate_residents.
Forgotten(t) ==
  [t EXCEPT !.resident = Nobody, !.latched = FALSE, !.tried = UnknownRetry]

LEMMA ForgottenSound ==
  ASSUME NEW t, Sound(t)
  PROVE  /\ Sound(Forgotten(t))
         /\ Forgotten(t).state = t.state
         /\ Forgotten(t).resident = Nobody
         /\ Forgotten(t).latched = FALSE
         /\ Forgotten(t).tried = UnknownRetry
<1> DEFINE u == TrackOf(t.state, t.hits, t.missed, t.since, t.predicted,
                        Nobody, FALSE, UnknownRetry)
<1>1. t \in Track
  BY DEF Sound
<1>2. Forgotten(t) = u
  BY <1>1, ForgottenFields, Zenon DEF Forgotten
<1>3. u \in Track
  BY <1>1, TrackerAssumption DEF Track, TrackOf
<1>4. /\ u.state = t.state /\ u.since = t.since /\ u.missed = t.missed
      /\ u.predicted = t.predicted /\ u.resident = Nobody
      /\ u.latched = FALSE /\ u.tried = UnknownRetry
  BY DEF TrackOf
<1> HIDE DEF u
<1>5. Sound(u)
  BY <1>3, <1>4 DEF Sound, Confirmed
<1> QED BY <1>2, <1>4, <1>5

-----------------------------------------------------------------------------
(* update: association, and the tracks of one resident that overlap.        *)

LEMMA AssociatedGoesOn ==
  ASSUME NEW ts, \A i \in TrackIds : Sound(ts[i]),
         NEW high, NEW low, NEW new,
         CanMatch(ts, high, low), CanMake(ts, new),
         NEW i \in TrackIds
  PROVE  LET u == Associated(ts, high, low, new)[i]
         IN /\ GoesOn(ts[i], u)
            /\ ts[i].state = "Tracked" => Confirmed(u)
<1> DEFINE u == Associated(ts, high, low, new)[i]
           t == ts[i]
<1>0. Sound(t)
  OBVIOUS
<1>1. u = IF i \in high \cup low THEN Matched(t)
          ELSE IF i \in new THEN [Blank("Tentative") EXCEPT !.hits = 1]
          ELSE IF t.state = "Tentative" THEN Blank("Removed")
          ELSE IF t.state = "Tracked" THEN Missed(t)
          ELSE t
  BY DEF Associated
<1> SUFFICES /\ GoesOn(t, u)
             /\ t.state = "Tracked" => Confirmed(u)
  OBVIOUS
<1> HIDE DEF t, u
<1>2. CASE i \in high \cup low
  <2>1. /\ t.hits < MaxHits
        /\ New(t) \/ Confirmed(t)
    BY <1>2 DEF CanMatch, ConfirmedIds, IdsIn, New, Confirmed, t
  <2>2. /\ GoesOn(t, Matched(t))
        /\ Confirmed(t) => Confirmed(Matched(t))
    BY <1>0, <2>1, MatchedGoesOn
  <2> QED BY <1>1, <1>2, <2>2 DEF Confirmed
<1>3. CASE i \notin high \cup low /\ i \in new
  <2>1. t.state = "None"
    BY <1>3 DEF CanMake, t
  <2> DEFINE b0 == Blank("Tentative")
             b == [b0 EXCEPT !.hits = 1]
  <2>5. b0 \in Track /\ b0.state = "Tentative" /\ b0.latched = FALSE
        /\ b0.resident = Nobody /\ b0.missed = 0
    BY TrackerAssumption DEF Blank, Track
  <2> HIDE DEF b0
  <2>2. /\ b \in Track /\ b.state = "Tentative" /\ b.latched = FALSE
        /\ b.resident = Nobody /\ b.missed = 0
    BY <2>5, TrackerAssumption DEF Track
  <2> HIDE DEF b
  <2>3. Sound(b) /\ ~Confirmed(b)
    BY <2>2 DEF Sound, Confirmed
  <2> QED BY <1>1, <1>3, <2>1, <2>2, <2>3 DEF GoesOn, New, b, b0
<1>4. CASE i \notin high \cup low /\ i \notin new /\ t.state = "Tentative"
  BY <1>1, <1>4, RemovedGoesOn
<1>5. CASE i \notin high \cup low /\ i \notin new /\ t.state = "Tracked"
  <2>1. GoesOn(t, Missed(t)) /\ Confirmed(Missed(t))
    BY <1>0, <1>5, MissedGoesOn
  <2> QED BY <1>1, <1>5, <2>1 DEF Confirmed
<1>6. CASE i \notin high \cup low /\ i \notin new
             /\ t.state \notin {"Tentative", "Tracked"}
  BY <1>0, <1>1, <1>6, SoundGoesOn
<1> QED BY <1>2, <1>3, <1>4, <1>5, <1>6

LEMMA Least ==
  ASSUME NEW T \in SUBSET Nat, T # {}
  PROVE  \E m \in T : \A k \in T : m <= k
<1> DEFINE R == {p \in Nat \X Nat : p[1] < p[2]}
<1>1. IsWellFoundedOn(R, Nat)
  BY NatLessThanWellFounded DEF OpToRel
<1>2. \A a, b \in Nat : a < b => <<a, b>> \in R
  OBVIOUS
<1> HIDE DEF R
<1>3. PICK m \in T : \A y \in T : ~(<<y, m>> \in R)
  BY <1>1, WFMin
<1>4. \A k \in T : k \in Nat /\ m \in Nat /\ ~(k < m)
  BY <1>2, <1>3
<1>5. \A k \in T : m <= k
  BY <1>4
<1> QED BY <1>5

\* The tracks that track n removes in its turn, when those in `gone` have
\* been removed before.
Claimed(ts, overlap, gone, n) ==
  {Weaker(ts, n, b) : b \in {c \in n + 1 .. MaxTracks :
     /\ Confirmed(ts[c]) /\ c \notin gone
     /\ SameKnown(ts[n], ts[c])
     /\ {n, c} \in overlap}}

\* The recursive function DuplicatesUpTo satisfies its equation.
LEMMA DuplicatesByTurn ==
  ASSUME NEW ts, NEW overlap
  PROVE  LET f == DuplicatesUpTo(ts, overlap)
         IN f = [n \in 0 .. MaxTracks |->
                   IF n = 0 THEN {}
                   ELSE IF n \in f[n - 1] \/ ~Confirmed(ts[n]) THEN f[n - 1]
                   ELSE f[n - 1] \cup Claimed(ts, overlap, f[n - 1], n)]
<1> DEFINE D(g, n) ==
             IF n = 0 THEN {}
             ELSE IF n \in g[n - 1] \/ ~Confirmed(ts[n]) THEN g[n - 1]
             ELSE g[n - 1] \cup Claimed(ts, overlap, g[n - 1], n)
           F == DuplicatesUpTo(ts, overlap)
<1>0. MaxTracks \in Nat
  BY TrackerAssumption
<1>1. F = CHOOSE f : f = [n \in 0 .. MaxTracks |-> D(f, n)]
  BY DEF DuplicatesUpTo, Claimed
<1>2. ASSUME NEW g, NEW h, NEW n \in 0 .. MaxTracks,
             n > 0 => g[n - 1] = h[n - 1]
      PROVE  D(g, n) = D(h, n)
  <2>1. CASE n = 0
    BY <2>1
  <2>2. CASE n # 0
    <3>1. g[n - 1] = h[n - 1]
      BY <1>0, <1>2, <2>2
    <3> QED BY <2>2, <3>1, Zenon
  <2> QED BY <2>1, <2>2
<1> HIDE DEF D, F
<1>3. \E f : f = [n \in 0 .. MaxTracks |-> D(f, n)]
  <2> DEFINE Has(k) == \E f : f = [n \in 0 .. k |-> D(f, n)]
             T == {k \in 0 .. MaxTracks : ~Has(k)}
  <2>1. Has(0)
    <3> DEFINE f == [n \in 0 .. 0 |-> D(<<>>, 0)]
    <3>1. \A n \in 0 .. 0 : D(f, n) = D(<<>>, 0)
      BY <1>0, <1>2
    <3> HIDE DEF f
    <3>2. f = [n \in 0 .. 0 |-> D(f, n)]
      BY <3>1 DEF f
    <3> QED BY <3>2
  <2>2. ASSUME NEW k \in 1 .. MaxTracks, Has(k - 1)
        PROVE  Has(k)
    <3>1. PICK f : f = [n \in 0 .. k - 1 |-> D(f, n)]
      BY <2>2
    <3> DEFINE g == [n \in 0 .. k |-> IF n = k THEN D(f, k) ELSE f[n]]
    <3>2. \A n \in 0 .. k - 1 : g[n] = f[n] /\ f[n] = D(f, n)
      <4>1. \A n \in 0 .. k - 1 : f[n] = D(f, n)
        BY <3>1
      <4>2. \A n \in 0 .. k - 1 : n # k /\ n \in 0 .. k
        BY <1>0
      <4> QED BY <4>1, <4>2
    <3>3. g[k] = D(f, k)
      BY <1>0
    <3> HIDE DEF g
    <3>4. ASSUME NEW n \in 0 .. k PROVE g[n] = D(g, n)
      <4>1. (n > 0 => g[n - 1] = f[n - 1]) /\ n \in 0 .. MaxTracks
        BY <1>0, <3>2
      <4>2. D(g, n) = D(f, n)
        BY <1>2, <4>1
      <4>3. g[n] = D(f, n)
        BY <1>0, <3>2, <3>3
      <4> QED BY <4>2, <4>3
    <3>5. g = [n \in 0 .. k |-> g[n]]
      BY DEF g
    <3>6. g = [n \in 0 .. k |-> D(g, n)]
      BY <3>4, <3>5
    <3> QED BY <3>6
  <2> HIDE DEF Has
  <2>3. T = {}
    <3> SUFFICES ASSUME T # {} PROVE FALSE
      OBVIOUS
    <3>1. T \in SUBSET Nat
      BY <1>0
    <3>2. PICK m \in T : \A k \in T : m <= k
      BY <3>1, Least
    <3>3. m # 0 /\ m \in 0 .. MaxTracks
      BY <2>1, <3>2
    <3>4. m - 1 \in 0 .. MaxTracks /\ m \in 1 .. MaxTracks /\ ~(m <= m - 1)
      BY <1>0, <3>3
    <3>5. Has(m - 1)
      BY <3>2, <3>4
    <3> QED BY <2>2, <3>2, <3>4, <3>5
  <2>4. Has(MaxTracks)
    BY <1>0, <2>3
  <2> QED BY <2>4 DEF Has
<1>4. F = [n \in 0 .. MaxTracks |-> D(F, n)]
  BY <1>1, <1>3
<1> QED BY <1>4 DEF D, F

\* a is kept before b.
Stronger(ts, a, b) ==
  ts[a].hits > ts[b].hits \/ (ts[a].hits = ts[b].hits /\ a < b)

\* b is confirmed and has the same known resident as a stronger track.
Outdone(ts, b) ==
  /\ b \in TrackIds /\ Confirmed(ts[b]) /\ ts[b].resident # Nobody
  /\ \E a \in TrackIds : /\ Confirmed(ts[a])
                         /\ ts[a].resident = ts[b].resident
                         /\ Stronger(ts, a, b)

\* Whatever resolve_duplicates removes is outdone.
LEMMA DuplicatesAreOutdone ==
  ASSUME NEW ts, \A i \in TrackIds : ts[i] \in Track, NEW overlap
  PROVE  \A b \in DuplicatesUpTo(ts, overlap)[MaxTracks] : Outdone(ts, b)
<1> DEFINE F == DuplicatesUpTo(ts, overlap)
           T == {k \in 0 .. MaxTracks : ~ \A b \in F[k] : Outdone(ts, b)}
<1>0. MaxTracks \in Nat
  BY TrackerAssumption
<1>1. F = [n \in 0 .. MaxTracks |->
             IF n = 0 THEN {}
             ELSE IF n \in F[n - 1] \/ ~Confirmed(ts[n]) THEN F[n - 1]
             ELSE F[n - 1] \cup Claimed(ts, overlap, F[n - 1], n)]
  BY DuplicatesByTurn
<1> HIDE DEF F
<1>2. ASSUME NEW n \in TrackIds, NEW gone, Confirmed(ts[n]),
             NEW b \in Claimed(ts, overlap, gone, n)
      PROVE  Outdone(ts, b)
  <2>1. PICK c \in n + 1 .. MaxTracks :
               /\ Confirmed(ts[c]) /\ SameKnown(ts[n], ts[c])
               /\ b = Weaker(ts, n, c)
    BY <1>2 DEF Claimed
  <2>2. /\ c \in TrackIds /\ n < c /\ n \in Nat /\ c \in Nat
        /\ ts[n].hits \in Nat /\ ts[c].hits \in Nat
    BY <1>0, TrackerAssumption DEF TrackIds, Track
  <2>3. /\ ts[n].resident # Nobody
        /\ ts[n].resident = ts[c].resident
    BY <2>1 DEF SameKnown
  <2>4. \/ b = c /\ Stronger(ts, n, c)
        \/ b = n /\ Stronger(ts, c, n)
    BY <2>1, <2>2 DEF Weaker, Stronger
  <2> QED BY <1>2, <2>1, <2>2, <2>3, <2>4 DEF Outdone
<1>3. T = {}
  <2> SUFFICES ASSUME T # {} PROVE FALSE
    OBVIOUS
  <2>1. T \in SUBSET Nat
    BY <1>0
  <2>2. PICK m \in T : \A k \in T : m <= k
    BY <2>1, Least
  <2>3. m # 0 /\ m \in 0 .. MaxTracks
    BY <1>0, <1>1, <2>2
  <2>4. m - 1 \in 0 .. MaxTracks /\ m \in TrackIds /\ ~(m <= m - 1)
    BY <1>0, <2>3 DEF TrackIds
  <2>5. \A b \in F[m - 1] : Outdone(ts, b)
    BY <2>2, <2>4
  <2>6. F[m] = IF m \in F[m - 1] \/ ~Confirmed(ts[m]) THEN F[m - 1]
               ELSE F[m - 1] \cup Claimed(ts, overlap, F[m - 1], m)
    BY <1>1, <2>3
  <2>7. \A b \in F[m] : Outdone(ts, b)
    BY <1>2, <2>4, <2>5, <2>6
  <2> QED BY <2>2, <2>7
<1> QED BY <1>0, <1>3 DEF F

\* Of the confirmed tracks of one known resident, the strongest is kept.
LEMMA ResidentIsKept ==
  ASSUME NEW ts, \A i \in TrackIds : ts[i] \in Track, NEW overlap,
         NEW i \in TrackIds, Confirmed(ts[i])
  PROVE  \E j \in TrackIds :
           /\ j \notin DuplicatesUpTo(ts, overlap)[MaxTracks]
           /\ Confirmed(ts[j]) /\ ts[j].resident = ts[i].resident
<1> DEFINE C == {j \in TrackIds : /\ Confirmed(ts[j])
                                  /\ ts[j].resident = ts[i].resident}
           H == {MaxHits - ts[j].hits : j \in C}
<1>1. \A j \in TrackIds : ts[j].hits \in 0 .. MaxHits /\ j \in Nat
  BY TrackerAssumption DEF Track, TrackIds
<1>2. i \in C
  OBVIOUS
<1>3. H \in SUBSET Nat /\ H # {}
  BY <1>1, <1>2, TrackerAssumption
<1>4. PICK h \in H : \A k \in H : h <= k
  BY <1>3, Least
<1> DEFINE B == {j \in C : MaxHits - ts[j].hits = h}
<1>5. B \in SUBSET Nat /\ B # {}
  BY <1>1, <1>4
<1>6. PICK j \in B : \A k \in B : j <= k
  BY <1>5, Least
<1>7. ASSUME NEW a \in C PROVE ~Stronger(ts, a, j)
  <2>1. h <= MaxHits - ts[a].hits
    BY <1>4
  <2>2. MaxHits - ts[a].hits = h => j <= a
    BY <1>6
  <2>3. /\ ts[a].hits \in Nat /\ ts[j].hits \in Nat
        /\ a \in Nat /\ j \in Nat
        /\ MaxHits - ts[j].hits = h
    BY <1>1, TrackerAssumption
  <2> QED BY <2>1, <2>2, <2>3, TrackerAssumption DEF Stronger
<1>8. ~Outdone(ts, j)
  BY <1>7 DEF Outdone
<1> QED BY <1>8, DuplicatesAreOutdone

-----------------------------------------------------------------------------
(* The invariant.                                                           *)

\* With a tracker there is no session for key 0, without one there are no
\* tracks and no other session; only then does a frame stop for an update;
\* and a track that has a session has been confirmed once.
ModeInv ==
  /\ useTracker => sessions[0] = Nobody
  /\ ~useTracker => \A i \in TrackIds : /\ tracks[i] = Blank("None")
                                        /\ sessions[i] = Nobody
  /\ phase = "predicted" => useTracker
  /\ \A i \in TrackIds : sessions[i] # Nobody => ~New(tracks[i])

Inv == LoopTypeOK /\ ModeInv /\ CacheIsCurrent /\ AdditionsAreTried

LEMMA TrackerTyped ==
  TrackerTypeOK <=> /\ tracks \in [TrackIds -> Track]
                    /\ \A i \in TrackIds : Sound(tracks[i])
BY DEF TrackerTypeOK, Sound

LEMMA CatalogTyped ==
  ASSUME NEW c \in Catalog
  PROVE  /\ DOMAIN c \subseteq Residents
         /\ Nobody \notin DOMAIN c
         /\ \A r \in DOMAIN c : c[r] \in Digests
BY TrackerAssumption DEF Catalog

LEMMA KeysSplit ==
  /\ Keys = {0} \cup TrackIds
  /\ 0 \notin TrackIds
BY TrackerAssumption DEF Keys, TrackIds

LEMMA InitInv == Init => Inv
<1> SUFFICES ASSUME Init PROVE Inv
  OBVIOUS
<1>1. tracks \in [TrackIds -> Track] /\ \A i \in TrackIds :
         Sound(tracks[i]) /\ ~Confirmed(tracks[i]) /\ tracks[i] = Blank("None")
  BY BlankSound DEF Init, TrackerInit, Sound
<1>2. LoopTypeOK
  BY <1>1, TrackerTyped, LoopAssumption DEF Init, LoopTypeOK
<1>3. ModeInv
  BY KeysSplit, <1>1 DEF Init, ModeInv
<1>4. CacheIsCurrent /\ AdditionsAreTried
  BY <1>1 DEF Init, CacheIsCurrent, IdentityIsCurrent, SessionIsCurrent,
              AdditionsAreTried, ConfirmedIds
<1> QED BY <1>2, <1>3, <1>4 DEF Inv

\* predict and update: the tracks go on, and nothing else is touched.
LEMMA TracksGoOn ==
  ASSUME Inv,
         tracks' = [i \in TrackIds |-> tracks'[i]],
         \A i \in TrackIds : GoesOn(tracks[i], tracks'[i]),
         useTracker \/ \A i \in TrackIds : tracks'[i] = tracks[i],
         phase' \in {"boundary", "predicted", "detected"},
         phase' = "predicted" => useTracker,
         UNCHANGED <<useTracker, catalog, frameId, sessions, seenAs, triedWith>>
  PROVE  Inv'
<1>1. \A i \in TrackIds : Sound(tracks[i]) /\ Sound(tracks'[i])
  BY TrackerTyped DEF Inv, LoopTypeOK, GoesOn
<1>2. TrackerTypeOK'
  <2>1. tracks' \in [TrackIds -> Track]
    BY <1>1 DEF Sound
  <2> QED BY <1>1, <2>1 DEF TrackerTypeOK, Sound
<1>3. LoopTypeOK'
  BY <1>2 DEF Inv, LoopTypeOK
<1>4. ASSUME NEW i \in TrackIds, Confirmed(tracks'[i])
      PROVE  \/ /\ Confirmed(tracks[i])
                /\ tracks'[i].resident = tracks[i].resident
                /\ tracks'[i].latched = tracks[i].latched
                /\ tracks'[i].tried < UnknownRetry
                     => tracks[i].tried < UnknownRetry
             \/ /\ New(tracks[i]) /\ ~tracks'[i].latched
                /\ tracks'[i].tried = UnknownRetry
  BY <1>4 DEF GoesOn
<1>5. ModeInv'
  BY DEF Inv, ModeInv, GoesOn
<1>6. IdentityIsCurrent'
  <2> SUFFICES ASSUME NEW i \in TrackIds, Confirmed(tracks'[i]),
                      tracks'[i].latched
               PROVE  /\ tracks'[i].resident \in DOMAIN catalog
                      /\ seenAs[i] = catalog[tracks'[i].resident]
    BY DEF IdentityIsCurrent, ConfirmedIds
  <2>1. /\ Confirmed(tracks[i]) /\ tracks[i].latched
        /\ tracks'[i].resident = tracks[i].resident
    BY <1>4
  <2> QED BY <2>1 DEF Inv, CacheIsCurrent, IdentityIsCurrent, ConfirmedIds
<1>7. SessionIsCurrent'
  <2> SUFFICES ASSUME NEW k \in Keys, sessions[k] # Nobody,
                      sessions[k].rid # Nobody,
                      k \in TrackIds => Confirmed(tracks'[k])
               PROVE  /\ sessions[k].rid \in DOMAIN catalog
                      /\ seenAs[k] = catalog[sessions[k].rid]
                      /\ k \in TrackIds => tracks'[k].resident = sessions[k].rid
    BY DEF SessionIsCurrent
  <2>1. k \in TrackIds => /\ Confirmed(tracks[k])
                          /\ tracks'[k].resident = tracks[k].resident
    BY <1>4 DEF Inv, ModeInv
  <2> QED BY <2>1 DEF Inv, CacheIsCurrent, SessionIsCurrent
<1>8. AdditionsAreTried'
  <2> SUFFICES ASSUME NEW i \in TrackIds, Confirmed(tracks'[i]),
                      ~tracks'[i].latched, tracks'[i].tried < UnknownRetry
               PROVE  DOMAIN catalog \subseteq triedWith[i]
    BY DEF AdditionsAreTried, ConfirmedIds
  <2>1. /\ Confirmed(tracks[i]) /\ ~tracks[i].latched
        /\ tracks[i].tried < UnknownRetry
    BY <1>4, TrackerAssumption
  <2> QED BY <2>1 DEF Inv, AdditionsAreTried, ConfirmedIds
<1> QED BY <1>3, <1>5, <1>6, <1>7, <1>8 DEF Inv, CacheIsCurrent

LEMMA PredictInv ==
  ASSUME Inv, NEW dt \in Steps, Predict(dt)
  PROVE  Inv'
<1>1. tracks' = [i \in TrackIds |-> tracks'[i]]
  BY DEF Predict
<1>2. \A i \in TrackIds : GoesOn(tracks[i], tracks'[i])
  BY PredictedGoesOn, TrackerTyped, LoopAssumption DEF Predict, Inv, LoopTypeOK
<1>3. useTracker \/ \A i \in TrackIds : tracks'[i] = tracks[i]
  <2>1. \A t : ~Confirmed(t) => Predicted(t, dt) = t
    BY Zenon DEF Predicted
  <2> QED BY <2>1, BlankSound DEF Predict, Inv, ModeInv
<1>4. /\ phase' \in {"boundary", "predicted", "detected"}
      /\ phase' = "predicted" => useTracker
  BY DEF Predict
<1>5. UNCHANGED <<useTracker, catalog, frameId, sessions, seenAs, triedWith>>
  BY DEF Predict
<1> QED BY <1>1, <1>2, <1>3, <1>4, <1>5, TracksGoOn

\* What update does to a track, association and duplicates together.
LEMMA UpdatedGoesOn ==
  ASSUME NEW ts, \A i \in TrackIds : Sound(ts[i]),
         NEW high, NEW low, NEW new, NEW overlap,
         CanMatch(ts, high, low), CanMake(ts, new),
         NEW i \in TrackIds
  PROVE  GoesOn(ts[i], Resolved(Associated(ts, high, low, new), overlap)[i])
<1> DEFINE as == Associated(ts, high, low, new)
<1>1. GoesOn(ts[i], as[i])
  BY AssociatedGoesOn
<1> HIDE DEF as
<1>2. \/ Resolved(as, overlap)[i] = Blank("Removed")
      \/ Resolved(as, overlap)[i] = as[i]
  BY DEF Resolved
<1>3. GoesOn(ts[i], Resolved(as, overlap)[i])
  BY <1>1, <1>2, RemovedGoesOn
<1> QED BY <1>3 DEF as

LEMMA UpdateInv ==
  ASSUME Inv, NEW high, NEW low, NEW new, NEW overlap,
         Update(high, low, new, overlap)
  PROVE  Inv'
<1>1. tracks' = [i \in TrackIds |-> tracks'[i]]
  BY DEF Update, Resolved
<1>2. \A i \in TrackIds : GoesOn(tracks[i], tracks'[i])
  BY UpdatedGoesOn, TrackerTyped DEF Update, Inv, LoopTypeOK
<1>3. useTracker /\ phase' = "detected"
  BY DEF Update, Inv, ModeInv
<1>4. UNCHANGED <<useTracker, catalog, frameId, sessions, seenAs, triedWith>>
  BY DEF Update
<1> QED BY <1>1, <1>2, <1>3, <1>4, TracksGoOn

LEMMA ReloadInv ==
  ASSUME Inv, NEW new \in Catalog, Reload(new)
  PROVE  Inv'
<1> DEFINE gone == Gone(catalog, new)
           more == Added(catalog, new) # {}
           keys == Subjects(gone, more)
<1>1. /\ tracks' = Invalidated(tracks, keys)
      /\ sessions' = [k \in Keys |-> IF k \in keys THEN Nobody ELSE sessions[k]]
      /\ seenAs' = [k \in Keys |-> IF k \in keys THEN Nobody ELSE seenAs[k]]
      /\ catalog' = new /\ phase = "boundary"
      /\ UNCHANGED <<useTracker, phase, frameId, triedWith>>
  BY DEF Reload
<1>2. keys = IF useTracker THEN Affected(tracks, gone, more)
             ELSE {k \in {0} : sessions[k] # Nobody /\ sessions[k].rid \in gone}
  BY DEF Subjects
<1>3. \A i \in TrackIds : Sound(tracks[i])
  BY TrackerTyped DEF Inv, LoopTypeOK
<1>4. \A r \in DOMAIN catalog :
        r \notin gone => r \in DOMAIN new /\ catalog[r] = new[r]
  BY DEF Gone, Changed, Removed
<1>5. more \/ DOMAIN new \subseteq DOMAIN catalog
  BY DEF Added
<1> HIDE DEF keys, gone, more
<1>6. ASSUME NEW i \in TrackIds
      PROVE  /\ Sound(tracks'[i]) /\ tracks'[i].state = tracks[i].state
             /\ i \notin keys => tracks'[i] = tracks[i]
             /\ i \in keys => /\ tracks'[i].resident = Nobody
                              /\ tracks'[i].latched = FALSE
                              /\ tracks'[i].tried = UnknownRetry
  <2> DEFINE t == tracks[i]
             forgot == Forgotten(t)
  <2>0. Invalidated(tracks, keys)[i] = IF i \in keys THEN forgot ELSE t
    BY Zenon DEF Invalidated, Forgotten
  <2>1. tracks'[i] = IF i \in keys THEN forgot ELSE t
    BY <1>1, <2>0, Zenon
  <2>2. /\ Sound(forgot) /\ forgot.state = tracks[i].state
        /\ forgot.resident = Nobody /\ forgot.latched = FALSE
        /\ forgot.tried = UnknownRetry
    BY <1>3, ForgottenSound
  <2> HIDE DEF forgot
  <2> QED BY <1>3, <2>1, <2>2
<1>7. \A i \in TrackIds : Confirmed(tracks'[i]) <=> Confirmed(tracks[i])
  BY <1>6 DEF Confirmed
<1>8. LoopTypeOK'
  <2>1. TrackerTypeOK'
    <3>1. tracks' \in [TrackIds -> Track]
      <4>1. Invalidated(tracks, keys)
            = [i \in TrackIds |-> Invalidated(tracks, keys)[i]]
        BY Zenon DEF Invalidated
      <4> QED BY <1>1, <1>6, <4>1 DEF Sound
    <3> QED BY <1>6, <3>1 DEF TrackerTypeOK, Sound
  <2>2. sessions' \in [Keys -> Session \cup {Nobody}]
    BY <1>1 DEF Inv, LoopTypeOK
  <2>3. seenAs' \in [Keys -> Digests \cup {Nobody}]
    BY <1>1 DEF Inv, LoopTypeOK
  <2> QED BY <1>1, <2>1, <2>2, <2>3 DEF Inv, LoopTypeOK
<1>9. ModeInv'
  <2>1. useTracker => sessions'[0] = Nobody
    BY <1>1, KeysSplit DEF Inv, ModeInv
  <2>2. ~useTracker => \A i \in TrackIds : /\ tracks'[i] = Blank("None")
                                           /\ sessions'[i] = Nobody
    BY <1>1, <1>2, <1>6, KeysSplit DEF Inv, ModeInv
  <2>3. \A i \in TrackIds : sessions'[i] # Nobody => ~New(tracks'[i])
    BY <1>1, <1>6, KeysSplit DEF Inv, ModeInv, New
  <2> QED BY <1>1, <2>1, <2>2, <2>3 DEF ModeInv
<1>10. IdentityIsCurrent'
  <2> SUFFICES ASSUME NEW i \in TrackIds, Confirmed(tracks'[i]),
                      tracks'[i].latched
               PROVE  /\ tracks'[i].resident \in DOMAIN new
                      /\ seenAs'[i] = new[tracks'[i].resident]
    BY <1>1 DEF IdentityIsCurrent, ConfirmedIds
  <2>1. i \notin keys /\ tracks'[i] = tracks[i] /\ seenAs'[i] = seenAs[i]
    BY <1>1, <1>6, KeysSplit
  <2>2. /\ tracks[i].resident \in DOMAIN catalog
        /\ seenAs[i] = catalog[tracks[i].resident]
    BY <2>1 DEF Inv, CacheIsCurrent, IdentityIsCurrent, ConfirmedIds
  <2>3. useTracker
    BY <2>1, BlankSound DEF Inv, ModeInv
  <2>4. tracks[i].resident \notin gone
    BY <1>2, <2>1, <2>3 DEF Affected, ConfirmedIds
  <2> QED BY <1>4, <2>1, <2>2, <2>4
<1>11. SessionIsCurrent'
  <2> SUFFICES ASSUME NEW k \in Keys, sessions'[k] # Nobody,
                      sessions'[k].rid # Nobody,
                      k \in TrackIds => Confirmed(tracks'[k])
               PROVE  /\ sessions'[k].rid \in DOMAIN new
                      /\ seenAs'[k] = new[sessions'[k].rid]
                      /\ k \in TrackIds => tracks'[k].resident = sessions'[k].rid
    BY <1>1 DEF SessionIsCurrent
  <2>1. k \notin keys /\ sessions'[k] = sessions[k] /\ seenAs'[k] = seenAs[k]
    BY <1>1
  <2>2. k \in TrackIds => Confirmed(tracks[k]) /\ tracks'[k] = tracks[k]
    BY <1>6, <1>7, <2>1
  <2>3. /\ sessions[k].rid \in DOMAIN catalog
        /\ seenAs[k] = catalog[sessions[k].rid]
        /\ k \in TrackIds => tracks[k].resident = sessions[k].rid
    BY <2>1, <2>2 DEF Inv, CacheIsCurrent, SessionIsCurrent
  <2>4. sessions[k].rid \notin gone
    <3>1. CASE useTracker
      <4>1. k \in TrackIds
        BY <2>1, <3>1, KeysSplit DEF Inv, ModeInv
      <4> QED BY <1>2, <2>1, <2>2, <2>3, <3>1, <4>1 DEF Affected, ConfirmedIds
    <3>2. CASE ~useTracker
      <4>1. k = 0
        BY <2>1, <3>2, KeysSplit DEF Inv, ModeInv
      <4> QED BY <1>2, <2>1, <3>2, <4>1
    <3> QED BY <3>1, <3>2
  <2> QED BY <1>4, <2>1, <2>2, <2>3, <2>4
<1>12. AdditionsAreTried'
  <2> SUFFICES ASSUME NEW i \in TrackIds, Confirmed(tracks'[i]),
                      ~tracks'[i].latched, tracks'[i].tried < UnknownRetry
               PROVE  DOMAIN new \subseteq triedWith[i]
    BY <1>1 DEF AdditionsAreTried, ConfirmedIds
  <2>0. ~(UnknownRetry < UnknownRetry)
    BY TrackerAssumption
  <2>1. i \notin keys /\ tracks'[i] = tracks[i]
    BY <1>6, <2>0
  <2>2. DOMAIN catalog \subseteq triedWith[i]
    BY <2>1 DEF Inv, AdditionsAreTried, ConfirmedIds
  <2>3. useTracker
    BY <2>1, BlankSound DEF Inv, ModeInv
  <2>4. tracks[i].resident = Nobody
    BY <1>3, <2>1 DEF Sound
  <2>5. ~more
    BY <1>2, <2>1, <2>3, <2>4 DEF Affected, ConfirmedIds
  <2> QED BY <1>5, <2>2, <2>5
<1> QED BY <1>8, <1>9, <1>10, <1>11, <1>12 DEF Inv, CacheIsCurrent

LEMMA NextFrame ==
  ASSUME NEW n \in 0 .. PersonEvery - 1
  PROVE  (n + 1) % PersonEvery \in 0 .. PersonEvery - 1
BY LoopAssumption

LEMMA FoundTyped ==
  ASSUME Inv
  PROVE  /\ Found \subseteq Residents \cup {Nobody}
         /\ \A r \in Found : r # Nobody =>
              r \in DOMAIN catalog /\ catalog[r] \in Digests
BY CatalogTyped DEF Found, Inv, LoopTypeOK

LEMMA SessionsAfterTyped ==
  ASSUME Inv, NEW rids, NEW reaped, NEW confirmed,
         \A k \in DOMAIN rids : rids[k] \in Residents \cup {Nobody}
  PROVE  SessionsAfter(rids, reaped, confirmed) \in [Keys -> Session \cup {Nobody}]
<1> SUFFICES ASSUME NEW k \in Keys
             PROVE  SessionsAfter(rids, reaped, confirmed)[k] \in Session \cup {Nobody}
  BY DEF SessionsAfter
<1> DEFINE c == /\ rids[k] # Nobody
                /\ \/ k \in confirmed
                   \/ sessions[k] # Nobody /\ sessions[k].confirmed
                        /\ sessions[k].rid # Nobody
<1>1. SessionsAfter(rids, reaped, confirmed)[k] =
        IF k \in DOMAIN rids THEN [rid |-> rids[k], confirmed |-> c]
        ELSE IF k \in reaped THEN Nobody ELSE sessions[k]
  BY DEF SessionsAfter
<1>2. c \in BOOLEAN
  OBVIOUS
<1> HIDE DEF c
<1> QED BY <1>1, <1>2 DEF Session, Inv, LoopTypeOK

LEMMA RecogniseTrackedInv ==
  ASSUME Inv, NEW linked \in SUBSET Linkable, NEW tried \in SUBSET linked,
         NEW match \in [tried -> Found], NEW reaped, NEW confirmed,
         RecogniseTracked(linked, match, reaped, confirmed)
  PROVE  Inv'
<1> DEFINE rids == [i \in linked |-> tracks'[i].resident]
<1>1. /\ DOMAIN match = tried /\ linked \subseteq TrackIds
      /\ tried \subseteq TrackIds /\ tried \subseteq linked
  BY DEF Linkable
<1>2. /\ useTracker
      /\ \A i \in tried : NeedsRecognition(tracks[i])
      /\ tracks' = [i \in TrackIds |->
                      IF i \in tried THEN Recorded(tracks[i], match[i])
                      ELSE tracks[i]]
      /\ seenAs' = [k \in Keys |->
                      IF k \in tried /\ match[k] # Nobody
                      THEN catalog[match[k]] ELSE seenAs[k]]
      /\ triedWith' = [i \in TrackIds |->
                         IF i \in tried THEN DOMAIN catalog ELSE triedWith[i]]
      /\ phase' = "boundary"
      /\ frameId' = (frameId + 1) % PersonEvery
      /\ UNCHANGED <<useTracker, catalog>>
  BY <1>1 DEF RecogniseTracked, EndFrame
<1>3. sessions' = SessionsAfter(rids, reaped, confirmed)
  BY <1>1 DEF RecogniseTracked
<1>4. \A i \in TrackIds : Sound(tracks[i])
  BY TrackerTyped DEF Inv, LoopTypeOK
<1>5. \A i \in tried : match[i] \in Residents \cup {Nobody} /\ match[i] \in Found
  BY FoundTyped
<1>6. ASSUME NEW i \in TrackIds
      PROVE  /\ Sound(tracks'[i]) /\ tracks'[i].state = tracks[i].state
             /\ i \notin tried => tracks'[i] = tracks[i]
             /\ i \in tried => /\ tracks'[i].resident = match[i]
                               /\ tracks'[i].latched <=> match[i] # Nobody
  <2>1. CASE i \in tried
    <3> DEFINE t == tracks[i]
               rid == match[i]
    <3>1. tracks'[i] = Recorded(t, rid)
      BY <1>2, <2>1
    <3>2. Sound(t) /\ NeedsRecognition(t) /\ rid \in Residents \cup {Nobody}
      BY <1>2, <1>4, <1>5, <2>1
    <3> HIDE DEF t, rid
    <3>3. /\ Sound(Recorded(t, rid)) /\ Recorded(t, rid).state = t.state
          /\ Recorded(t, rid).resident = rid
          /\ Recorded(t, rid).latched <=> rid # Nobody
      BY <3>2, RecordedSound
    <3> QED BY <2>1, <3>1, <3>3 DEF t, rid
  <2>2. CASE i \notin tried
    BY <1>2, <1>4, <2>2
  <2> QED BY <2>1, <2>2
<1>7. \A i \in TrackIds : Confirmed(tracks'[i]) <=> Confirmed(tracks[i])
  BY <1>6 DEF Confirmed
<1>8. LoopTypeOK'
  <2>1. TrackerTypeOK'
    <3>1. tracks' \in [TrackIds -> Track]
      BY <1>2, <1>6 DEF Sound
    <3> QED BY <1>6, <3>1 DEF TrackerTypeOK, Sound
  <2>2. sessions' \in [Keys -> Session \cup {Nobody}]
    <3>1. DOMAIN rids = linked
          /\ \A k \in linked : rids[k] \in Residents \cup {Nobody}
      BY <1>1, <1>6 DEF Sound, Track
    <3> HIDE DEF rids
    <3> QED BY <1>3, <3>1, SessionsAfterTyped
  <2>3. seenAs' \in [Keys -> Digests \cup {Nobody}]
    BY <1>2, <1>5, FoundTyped DEF Inv, LoopTypeOK
  <2>4. triedWith' \in [TrackIds -> SUBSET Residents]
    BY <1>2, CatalogTyped DEF Inv, LoopTypeOK
  <2>5. frameId' \in 0 .. PersonEvery - 1
    BY <1>2, NextFrame DEF Inv, LoopTypeOK
  <2> QED BY <1>2, <2>1, <2>2, <2>3, <2>4, <2>5 DEF Inv, LoopTypeOK
<1>9. ASSUME NEW k \in Keys, sessions'[k] # Nobody
      PROVE  \/ k \in linked /\ sessions'[k].rid = tracks'[k].resident
             \/ k \notin linked /\ sessions'[k] = sessions[k]
  <2>1. DOMAIN rids = linked
    OBVIOUS
  <2>2. CASE k \in linked
    <3> DEFINE c == /\ rids[k] # Nobody
                    /\ \/ k \in confirmed
                       \/ sessions[k] # Nobody /\ sessions[k].confirmed
                            /\ sessions[k].rid # Nobody
    <3>1. sessions'[k] = [rid |-> rids[k], confirmed |-> c]
      BY <1>3, <2>1, <2>2 DEF SessionsAfter
    <3> HIDE DEF c
    <3> QED BY <2>2, <3>1
  <2>3. CASE k \notin linked
    BY <1>3, <1>9, <2>1, <2>3 DEF SessionsAfter
  <2> QED BY <2>2, <2>3
<1>10. ModeInv'
  <2>1. sessions'[0] = Nobody
    BY <1>1, <1>2, <1>9, KeysSplit DEF Inv, ModeInv
  <2>2. ASSUME NEW i \in TrackIds, sessions'[i] # Nobody PROVE ~New(tracks'[i])
    <3>1. CASE i \in linked
      BY <1>6, <3>1 DEF Linkable, New
    <3>2. CASE i \notin linked
      BY <1>6, <1>9, <2>2, <3>2, KeysSplit DEF Inv, ModeInv, New
    <3> QED BY <3>1, <3>2
  <2> QED BY <1>2, <2>1, <2>2 DEF ModeInv
<1>11. \A i \in TrackIds : Confirmed(tracks'[i]) /\ tracks'[i].latched =>
          /\ tracks'[i].resident \in DOMAIN catalog
          /\ seenAs'[i] = catalog[tracks'[i].resident]
  <2> SUFFICES ASSUME NEW i \in TrackIds, Confirmed(tracks'[i]),
                      tracks'[i].latched
               PROVE  /\ tracks'[i].resident \in DOMAIN catalog
                      /\ seenAs'[i] = catalog[tracks'[i].resident]
    OBVIOUS
  <2>1. CASE i \in tried
    BY <1>2, <1>5, <1>6, <2>1, KeysSplit, FoundTyped
  <2>2. CASE i \notin tried
    <3>1. tracks'[i] = tracks[i] /\ seenAs'[i] = seenAs[i]
      BY <1>2, <1>6, <2>2, KeysSplit
    <3> QED BY <3>1 DEF Inv, CacheIsCurrent, IdentityIsCurrent, ConfirmedIds
  <2> QED BY <2>1, <2>2
<1>12. IdentityIsCurrent'
  BY <1>2, <1>11 DEF IdentityIsCurrent, ConfirmedIds
<1>13. SessionIsCurrent'
  <2> SUFFICES ASSUME NEW k \in Keys, sessions'[k] # Nobody,
                      sessions'[k].rid # Nobody,
                      k \in TrackIds => Confirmed(tracks'[k])
               PROVE  /\ sessions'[k].rid \in DOMAIN catalog
                      /\ seenAs'[k] = catalog[sessions'[k].rid]
                      /\ k \in TrackIds => tracks'[k].resident = sessions'[k].rid
    BY <1>2 DEF SessionIsCurrent
  <2>1. CASE k \in linked
    <3>1. sessions'[k].rid = tracks'[k].resident /\ k \in TrackIds
      BY <1>1, <1>9, <2>1
    <3>2. tracks'[k].latched
      BY <1>6, <3>1 DEF Sound
    <3> QED BY <1>11, <3>1, <3>2
  <2>2. CASE k \notin linked
    <3>1. sessions'[k] = sessions[k] /\ k \notin tried
      BY <1>1, <1>9, <2>2
    <3>2. seenAs'[k] = seenAs[k] /\ (k \in TrackIds => tracks'[k] = tracks[k])
      BY <1>2, <1>6, <3>1
    <3> QED BY <1>7, <3>1, <3>2 DEF Inv, CacheIsCurrent, SessionIsCurrent
  <2> QED BY <2>1, <2>2
<1>14. AdditionsAreTried'
  <2> SUFFICES ASSUME NEW i \in TrackIds, Confirmed(tracks'[i]),
                      ~tracks'[i].latched, tracks'[i].tried < UnknownRetry
               PROVE  DOMAIN catalog \subseteq triedWith'[i]
    BY <1>2 DEF AdditionsAreTried, ConfirmedIds
  <2>1. CASE i \in tried
    BY <1>2, <2>1
  <2>2. CASE i \notin tried
    <3>1. tracks'[i] = tracks[i] /\ triedWith'[i] = triedWith[i]
      BY <1>2, <1>6, <2>2
    <3> QED BY <3>1 DEF Inv, AdditionsAreTried, ConfirmedIds
  <2> QED BY <2>1, <2>2
<1> QED BY <1>8, <1>10, <1>12, <1>13, <1>14 DEF Inv, CacheIsCurrent

LEMMA RecogniseLargestInv ==
  ASSUME Inv, NEW present \in SUBSET {0}, NEW rids \in [present -> Found],
         NEW reaped \in SUBSET {0}, NEW confirmed \in SUBSET {0},
         RecogniseLargest(rids, reaped, confirmed)
  PROVE  Inv'
<1>1. DOMAIN rids = present /\ present \subseteq Keys
  BY KeysSplit
<1>2. /\ ~useTracker
      /\ sessions' = SessionsAfter(rids, reaped, confirmed)
      /\ seenAs' = [k \in Keys |-> IF k \in present /\ rids[k] # Nobody
                                   THEN catalog[rids[k]] ELSE seenAs[k]]
      /\ phase' = "boundary"
      /\ frameId' = (frameId + 1) % PersonEvery
      /\ UNCHANGED <<tracks, triedWith, useTracker, catalog>>
  BY <1>1 DEF RecogniseLargest, EndFrame
<1>3. \A k \in present : rids[k] \in Residents \cup {Nobody} /\ rids[k] \in Found
  BY FoundTyped
<1>4. ASSUME NEW k \in Keys, sessions'[k] # Nobody
      PROVE  \/ k \in present /\ sessions'[k].rid = rids[k]
             \/ k \notin present /\ sessions'[k] = sessions[k]
  <2>1. CASE k \in present
    <3> DEFINE c == /\ rids[k] # Nobody
                    /\ \/ k \in confirmed
                       \/ sessions[k] # Nobody /\ sessions[k].confirmed
                            /\ sessions[k].rid # Nobody
    <3>1. sessions'[k] = [rid |-> rids[k], confirmed |-> c]
      BY <1>1, <1>2, <2>1 DEF SessionsAfter
    <3> HIDE DEF c
    <3> QED BY <2>1, <3>1
  <2>2. CASE k \notin present
    BY <1>1, <1>2, <1>4, <2>2 DEF SessionsAfter
  <2> QED BY <2>1, <2>2
<1>5. \A i \in TrackIds : tracks[i] = Blank("None") /\ ~Confirmed(tracks[i])
  BY <1>2, BlankSound DEF Inv, ModeInv
<1>6. LoopTypeOK'
  <2>1. TrackerTypeOK'
    BY <1>2 DEF TrackerTypeOK, Inv, LoopTypeOK
  <2>2. sessions' \in [Keys -> Session \cup {Nobody}]
    BY <1>1, <1>2, <1>3, SessionsAfterTyped
  <2>3. seenAs' \in [Keys -> Digests \cup {Nobody}]
    BY <1>2, <1>3, FoundTyped DEF Inv, LoopTypeOK
  <2>4. frameId' \in 0 .. PersonEvery - 1
    BY <1>2, NextFrame DEF Inv, LoopTypeOK
  <2> QED BY <1>2, <2>1, <2>2, <2>3, <2>4 DEF Inv, LoopTypeOK
<1>7. ModeInv'
  <2>1. ASSUME NEW i \in TrackIds PROVE sessions'[i] = Nobody
    <3>1. i \notin present /\ i \in Keys /\ sessions[i] = Nobody
      BY <1>2, KeysSplit DEF Inv, ModeInv
    <3> QED BY <1>4, <3>1
  <2> QED BY <1>2, <1>5, <2>1 DEF ModeInv
<1>8. IdentityIsCurrent' /\ AdditionsAreTried'
  BY <1>2, <1>5 DEF IdentityIsCurrent, AdditionsAreTried, ConfirmedIds
<1>9. SessionIsCurrent'
  <2> SUFFICES ASSUME NEW k \in Keys, sessions'[k] # Nobody,
                      sessions'[k].rid # Nobody,
                      k \in TrackIds => Confirmed(tracks[k])
               PROVE  /\ sessions'[k].rid \in DOMAIN catalog
                      /\ seenAs'[k] = catalog[sessions'[k].rid]
                      /\ k \in TrackIds => tracks[k].resident = sessions'[k].rid
    BY <1>2 DEF SessionIsCurrent
  <2>0. k \notin TrackIds
    BY <1>5
  <2>1. CASE k \in present
    BY <1>2, <1>3, <1>4, <2>0, <2>1, FoundTyped
  <2>2. CASE k \notin present
    <3>1. sessions'[k] = sessions[k] /\ seenAs'[k] = seenAs[k]
      BY <1>2, <1>4, <2>2
    <3> QED BY <2>0, <3>1 DEF Inv, CacheIsCurrent, SessionIsCurrent
  <2> QED BY <2>1, <2>2
<1> QED BY <1>6, <1>7, <1>8, <1>9 DEF Inv, CacheIsCurrent

LEMMA NextInv == Inv /\ [Next]_vars => Inv'
<1> SUFFICES ASSUME Inv, [Next]_vars PROVE Inv'
  OBVIOUS
<1>1. ASSUME NEW new \in Catalog, Reload(new) PROVE Inv'
  BY <1>1, ReloadInv
<1>2. ASSUME NEW dt \in Steps, Predict(dt) PROVE Inv'
  BY <1>2, PredictInv
<1>3. ASSUME NEW high, NEW low, NEW new, NEW overlap,
             Update(high, low, new, overlap)
      PROVE  Inv'
  BY <1>3, UpdateInv
<1>4. ASSUME NEW linked \in SUBSET Linkable, NEW tried \in SUBSET linked,
             NEW match \in [tried -> Found], NEW reaped, NEW confirmed,
             RecogniseTracked(linked, match, reaped, confirmed)
      PROVE  Inv'
  BY <1>4, RecogniseTrackedInv
<1>5. ASSUME NEW present \in SUBSET {0}, NEW rids \in [present -> Found],
             NEW reaped \in SUBSET {0}, NEW confirmed \in SUBSET {0},
             RecogniseLargest(rids, reaped, confirmed)
      PROVE  Inv'
  BY <1>5, RecogniseLargestInv
<1>6. ASSUME UNCHANGED vars PROVE Inv'
  BY <1>6 DEF vars, Inv, LoopTypeOK, TrackerTypeOK, ModeInv, CacheIsCurrent,
              IdentityIsCurrent, SessionIsCurrent, AdditionsAreTried,
              ConfirmedIds
<1> QED BY <1>1, <1>2, <1>3, <1>4, <1>5, <1>6 DEF Next

THEOREM InvHolds == Spec => []Inv
BY InitInv, NextInv, PTL DEF Spec

-----------------------------------------------------------------------------
(* What the program relies on.                                              *)

\* The tracker, the sessions and the catalog are well formed; in particular
\* an identity is latched on a confirmed track only.
THEOREM LoopIsTyped == Spec => []LoopTypeOK
<1>1. Inv => LoopTypeOK
  BY DEF Inv
<1> QED BY <1>1, InvHolds, PTL

\* However reloads, frames and absences interleave, whoever a track or a
\* session is taken for is in the catalog in use, as matched.
THEOREM CacheStaysCurrent == Spec => []CacheIsCurrent
<1>1. Inv => CacheIsCurrent
  BY DEF Inv
<1> QED BY <1>1, InvHolds, PTL

\* Nobody waits for a retry without having been tried with all residents.
THEOREM AdditionsReachTheUnknown == Spec => []AdditionsAreTried
<1>1. Inv => AdditionsAreTried
  BY DEF Inv
<1> QED BY <1>1, InvHolds, PTL

\* A reload leaves alone the sessions of the residents it does not touch.
THEOREM ReloadIsSelective == Spec => ReloadSparesOthers
<1> DEFINE Spared ==
             catalog' # catalog =>
               \A k \in Keys :
                 (sessions[k] # Nobody /\ sessions[k].rid \in DOMAIN catalog
                   /\ sessions[k].rid \in DOMAIN catalog'
                   /\ catalog[sessions[k].rid] = catalog'[sessions[k].rid])
                 => sessions'[k] = sessions[k]
<1>1. ASSUME Inv, NEW new \in Catalog, Reload(new) PROVE Spared
  <2> SUFFICES ASSUME NEW k \in Keys, sessions[k] # Nobody,
                      sessions[k].rid \in DOMAIN catalog,
                      sessions[k].rid \in DOMAIN new,
                      catalog[sessions[k].rid] = new[sessions[k].rid]
               PROVE  sessions'[k] = sessions[k]
    BY <1>1 DEF Reload
  <2> DEFINE gone == Gone(catalog, new)
             more == Added(catalog, new) # {}
             keys == Subjects(gone, more)
  <2>1. sessions'[k] = IF k \in keys THEN Nobody ELSE sessions[k]
    BY <1>1 DEF Reload
  <2>2. keys = IF useTracker THEN Affected(tracks, gone, more)
               ELSE {j \in {0} : sessions[j] # Nobody /\ sessions[j].rid \in gone}
    BY DEF Subjects
  <2>3. sessions[k].rid \notin gone /\ sessions[k].rid # Nobody
    BY <1>1, CatalogTyped DEF Gone, Changed, Removed, Inv, LoopTypeOK
  <2> HIDE DEF gone, more, keys
  <2>4. k \notin keys
    <3>1. CASE useTracker
      <4>1. k \in keys => /\ k \in TrackIds /\ Confirmed(tracks[k])
                          /\ \/ tracks[k].resident \in gone
                             \/ tracks[k].resident = Nobody
        BY <2>2, <3>1 DEF Affected, ConfirmedIds
      <4>2. k \in keys => tracks[k].resident = sessions[k].rid
        BY <1>1, <2>3, <4>1 DEF Inv, CacheIsCurrent, SessionIsCurrent
      <4> QED BY <2>3, <4>1, <4>2
    <3>2. CASE ~useTracker
      BY <2>2, <2>3, <3>2
    <3> QED BY <3>1, <3>2
  <2> QED BY <2>1, <2>4
<1>2. ASSUME catalog' = catalog PROVE Spared
  BY <1>2
<1> HIDE DEF Spared
<1>3. Inv /\ [Next]_vars => [Spared]_vars
  BY <1>1, <1>2 DEF Next, vars, Predict, Update, RecogniseTracked,
                    RecogniseLargest, EndFrame
<1>4. Spec => [][Spared]_vars
  BY <1>3, InvHolds, PTL DEF Spec
<1> QED BY <1>4 DEF Spared, ReloadSparesOthers

\* A person the detector has just seen is not dropped, except for another
\* confirmed track of the same known resident: of all that overlap, the one
\* with the most hits, of equals the oldest, is kept.
THEOREM SeenAreKept == Spec => SeenStaysTracked
<1> DEFINE Kept ==
             \A i \in TrackIds :
               (phase = "predicted" /\ tracks'[i].state = "Removed"
                 /\ tracks[i].state = "Tracked" /\ tracks[i].since < LostTimeout)
               => \E j \in TrackIds : Confirmed(tracks'[j]) /\ tracks[i].latched
                    /\ tracks'[j].resident = tracks[i].resident
<1>1. ASSUME Inv, NEW high, NEW low, NEW new, NEW overlap,
             Update(high, low, new, overlap)
      PROVE  Kept
  <2> DEFINE ts == Associated(tracks, high, low, new)
             gone == DuplicatesUpTo(ts, overlap)[MaxTracks]
  <2>1. \A i \in TrackIds : Sound(tracks[i])
    BY <1>1, TrackerTyped DEF Inv, LoopTypeOK
  <2>2. \A i \in TrackIds : /\ GoesOn(tracks[i], ts[i])
                            /\ tracks[i].state = "Tracked" => Confirmed(ts[i])
    BY <1>1, <2>1, AssociatedGoesOn DEF Update
  <2>3. \A i \in TrackIds :
          tracks'[i] = IF i \in gone THEN Blank("Removed") ELSE ts[i]
    BY <1>1 DEF Update, Resolved
  <2> HIDE DEF ts
  <2>4. \A i \in TrackIds : ts[i] \in Track
    BY <2>2 DEF GoesOn, Sound
  <2>5. \A i \in gone : Outdone(ts, i)
    BY <2>4, DuplicatesAreOutdone
  <2>6. ASSUME NEW i \in TrackIds, Confirmed(ts[i])
        PROVE  \E j \in TrackIds : /\ j \notin gone /\ Confirmed(ts[j])
                                   /\ ts[j].resident = ts[i].resident
    BY <2>4, <2>6, ResidentIsKept
  <2> HIDE DEF gone
  <2> SUFFICES ASSUME NEW i \in TrackIds, tracks'[i].state = "Removed",
                      tracks[i].state = "Tracked"
               PROVE  \E j \in TrackIds : /\ Confirmed(tracks'[j])
                                          /\ tracks[i].latched
                                          /\ tracks'[j].resident = tracks[i].resident
    OBVIOUS
  <2>7. Confirmed(ts[i]) /\ ts[i].resident = tracks[i].resident
    BY <2>2 DEF GoesOn, New
  <2>8. i \in gone
    BY <2>3, <2>7 DEF Confirmed
  <2>9. tracks[i].latched
    BY <2>1, <2>5, <2>7, <2>8 DEF Outdone, Sound
  <2>10. PICK j \in TrackIds : /\ j \notin gone /\ Confirmed(ts[j])
                               /\ ts[j].resident = ts[i].resident
    BY <2>6, <2>7
  <2> QED BY <2>3, <2>7, <2>9, <2>10
<1>2. ASSUME phase # "predicted" \/ tracks' = tracks PROVE Kept
  BY <1>2
<1> HIDE DEF Kept
<1>3. Inv /\ [Next]_vars => [Kept]_vars
  BY <1>1, <1>2 DEF Next, vars, Reload, Predict, RecogniseTracked,
                    RecogniseLargest
<1>4. Spec => [][Kept]_vars
  BY <1>3, InvHolds, PTL DEF Spec
<1> QED BY <1>4 DEF Kept, SeenStaysTracked

=============================================================================
