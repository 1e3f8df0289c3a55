---------------------------- MODULE ByteTracker ----------------------------
(***************************************************************************)
(* ByteTracker, from src/src/byte_tracker.cpp: the tracks of the persons   *)
(* in the cabin, their life from the first detection to removal, and the   *)
(* identity a track has been given.  Geometry is left out: which track is  *)
(* matched with a detection, and which two boxes overlap by 85 per cent,   *)
(* is chosen freely, one detection for one track at most.  Detections in   *)
(* excess of the tracks make new ones, as far as there are ids.            *)
(*                                                                         *)
(* Times are kept as the time since an event, up to the longest one any    *)
(* comparison asks for.                                                    *)
(***************************************************************************)
EXTENDS Naturals, FiniteSets

CONSTANTS
  MaxTracks,          \* bound of the model: tracks ever made
  MaxHits,            \* bound of the model: matches of one track
  Residents,          \* resident ids
  Nobody,             \* a model value: no resident (-1), no session
  ConfirmHits,        \* confirm_hits
  LostGraceUpdates,   \* lost_grace_min_updates
  LostGrace,          \* lost_grace_ms, in ticks
  LostTimeout,        \* lost_timeout_ms, in ticks
  UnknownRetry        \* unknown_retry_ms, in ticks

ASSUME TrackerAssumption ==
  /\ MaxTracks \in Nat /\ MaxHits \in Nat \ {0}
  /\ ConfirmHits \in Nat \ {0, 1}
  /\ LostGraceUpdates \in Nat /\ LostGrace \in Nat
  /\ LostTimeout \in Nat \ {0}
  /\ UnknownRetry \in Nat
  /\ Nobody \notin Residents

VARIABLE tracks  \* tracks_, by id; "None" before the id is given out

TrackIds == 1 .. MaxTracks

Track == [state : {"None", "Tentative", "Tracked", "Lost", "Removed"},
          hits : 0 .. MaxHits,
          missed : 0 .. LostGraceUpdates,
          since : 0 .. LostTimeout,       \* last_match_ms
          predicted : BOOLEAN,            \* predicted_only
          resident : Residents \cup {Nobody},
          latched : BOOLEAN,
          tried : 0 .. UnknownRetry]      \* last_recognition_attempt_ms

Blank(state) ==
  [state |-> state, hits |-> 0, missed |-> 0, since |-> 0, predicted |-> FALSE,
   resident |-> Nobody, latched |-> FALSE, tried |-> UnknownRetry]

Confirmed(t) == t.state \in {"Tracked", "Lost"}
ConfirmedIds(ts) == {i \in TrackIds : Confirmed(ts[i])}
IdsIn(ts, state) == {i \in TrackIds : ts[i].state = state}

\* An identity is given to confirmed tracks only, and it is latched.
TrackerTypeOK ==
  /\ tracks \in [TrackIds -> Track]
  /\ \A i \in TrackIds :
       /\ tracks[i].latched <=> tracks[i].resident # Nobody
       /\ tracks[i].latched => Confirmed(tracks[i])
       /\ Confirmed(tracks[i]) => tracks[i].since < LostTimeout
       /\ tracks[i].state = "Tracked" /\ tracks[i].missed > 0
            => tracks[i].predicted

TrackerInit == tracks = [i \in TrackIds |-> Blank("None")]

Later(n, dt, limit) == IF n + dt < limit THEN n + dt ELSE limit

-----------------------------------------------------------------------------
(* predict: every frame.                                                    *)

Expired(t) == Confirmed(t) /\ t.since >= LostTimeout

\* Slip: only a lost track expires, one that is never updated does not.
PredictedIfLost(t, dt) ==
  LET aged == [t EXCEPT !.since = Later(@, dt, LostTimeout),
                        !.tried = Later(@, dt, UnknownRetry)]
  IN IF ~Confirmed(t) THEN t
     ELSE IF t.state = "Lost" /\ Expired(aged) THEN Blank("Removed")
     ELSE [aged EXCEPT !.predicted = TRUE]

Predicted(t, dt) ==
  LET aged == [t EXCEPT !.since = Later(@, dt, LostTimeout),
                        !.tried = Later(@, dt, UnknownRetry)]
  IN IF ~Confirmed(t) THEN t
     ELSE IF Expired(aged) THEN Blank("Removed")
     ELSE [aged EXCEPT !.predicted = TRUE]

-----------------------------------------------------------------------------
(* update: the frames on which the person detector ran.                     *)

\* A track becomes known to the rest of the program with no identity.
Matched(t) ==
  LET m == [t EXCEPT !.hits = @ + 1, !.missed = 0, !.since = 0,
                     !.predicted = FALSE]
  IN IF t.state = "Tentative" /\ m.hits >= ConfirmHits
     THEN [m EXCEPT !.state = "Tracked", !.resident = Nobody,
                    !.latched = FALSE, !.tried = UnknownRetry]
     ELSE IF t.state = "Lost" THEN [m EXCEPT !.state = "Tracked"]
     ELSE m

Missed(t) ==
  LET m == [t EXCEPT !.missed = Later(@, 1, LostGraceUpdates),
                     !.predicted = TRUE]
  IN IF m.missed >= LostGraceUpdates /\ t.since >= LostGrace
     THEN [m EXCEPT !.state = "Lost"] ELSE m

\* Tracks `high` are matched by the primary pass or, if tentative, by what
\* the primary pass left; `low` by the detections of low score, which can
\* keep a tracked person but not bring a lost one back; `new` are made.
Associated(ts, high, low, new) ==
  [i \in TrackIds |->
     LET t == ts[i]
     IN IF i \in high \cup low THEN Matched(t)
        ELSE IF i \in new THEN [Blank("Tentative") EXCEPT !.hits = 1]
        ELSE IF t.state = "Tentative" THEN Blank("Removed")
        ELSE IF t.state = "Tracked" THEN Missed(t)
        ELSE t]

CanMatch(ts, high, low) ==
  /\ high \subseteq ConfirmedIds(ts) \cup IdsIn(ts, "Tentative")
  /\ low \subseteq IdsIn(ts, "Tracked") \ high
  /\ \A i \in high \cup low : ts[i].hits < MaxHits

\* Ids are given out in order.
CanMake(ts, new) ==
  \A i \in new : ts[i].state = "None"
                   /\ \A j \in 1 .. i - 1 : j \in new \/ ts[j].state # "None"

-----------------------------------------------------------------------------
(* resolve_duplicates, at the end of update; overlap is the set of pairs    *)
(* {a, b} whose boxes overlap by 85 per cent.                               *)

\* Slip: two unknown tracks count as claims on the same resident.
SameKnownOrUnknown(s, t) == s.resident = t.resident

SameKnown(s, t) == s.resident # Nobody /\ s.resident = t.resident

\* Of two, the one with more hits is kept, and of two equal the older.
Weaker(ts, a, b) ==
  IF ts[a].hits > ts[b].hits \/ (ts[a].hits = ts[b].hits /\ a < b)
  THEN b ELSE a

\* What the outer loop has removed after the tracks 1 .. n: a track removed
\* by an earlier one is skipped, one removed in its own turn goes on with
\* the comparisons.
DuplicatesUpTo(ts, overlap) ==
  LET f[n \in 0 .. MaxTracks] ==
        IF n = 0 THEN {}
        ELSE IF n \in f[n - 1] \/ ~Confirmed(ts[n]) THEN f[n - 1]
        ELSE f[n - 1] \cup
             {Weaker(ts, n, b) : b \in {c \in n + 1 .. MaxTracks :
                /\ Confirmed(ts[c]) /\ c \notin f[n - 1]
                /\ SameKnown(ts[n], ts[c])
                /\ {n, c} \in overlap}}
  IN f

Resolved(ts, overlap) ==
  [i \in TrackIds |->
     IF i \in DuplicatesUpTo(ts, overlap)[MaxTracks]
     THEN Blank("Removed") ELSE ts[i]]

-----------------------------------------------------------------------------
(* Recognition.                                                             *)

NeedsRecognition(t) ==
  /\ t.state = "Tracked" /\ ~t.predicted
  /\ ~t.latched
  /\ t.tried >= UnknownRetry

\* A failed attempt never takes a known identity away.
Recorded(t, rid) ==
  IF t.latched /\ rid = Nobody THEN t
  ELSE [t EXCEPT !.tried = 0,
                 !.resident = IF rid = Nobody /\ @ # Nobody THEN @ ELSE rid,
                 !.latched = @ \/ rid # Nobody]

\* Slip: a lost track is not invalidated, it is "not there".
AffectedInView(ts, gone, unknownToo) ==
  {i \in IdsIn(ts, "Tracked") :
     ts[i].resident \in gone \/ (unknownToo /\ ts[i].resident = Nobody)}

\* invalidate_residents: the tracks that lose their identity.
Affected(ts, gone, unknownToo) ==
  {i \in ConfirmedIds(ts) :
     ts[i].resident \in gone \/ (unknownToo /\ ts[i].resident = Nobody)}

\* Slip: the identity goes, the time of the last attempt stays.
ForgottenOnly(ts, affected) ==
  [i \in TrackIds |->
     IF i \in affected
     THEN [ts[i] EXCEPT !.resident = Nobody, !.latched = FALSE]
     ELSE ts[i]]

Invalidated(ts, affected) ==
  [i \in TrackIds |->
     IF i \in affected
     THEN [ts[i] EXCEPT !.resident = Nobody, !.latched = FALSE,
                        !.tried = UnknownRetry]
     ELSE ts[i]]
=============================================================================
