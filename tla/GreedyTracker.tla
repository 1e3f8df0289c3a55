--------------------------- MODULE GreedyTracker ---------------------------
(***************************************************************************)
(* The tracker of --tracker-mode greedy: the class Tracker (tracker.cpp)   *)
(* behind its adapter GreedyIouTracker (tracker_greedy.cpp), as the main   *)
(* loop uses it.  A track carries the display name it was recognised by; a *)
(* known track that is killed leaves a ghost, and a later track that is    *)
(* recognised by the same name takes over the ghost's id.  The adapter     *)
(* keeps the resident ids beside the tracker, by track id.                 *)
(*                                                                         *)
(* Geometry is left out: which tracks are matched by a detection and how   *)
(* many detections are left over is chosen freely, and so is whether the   *)
(* person detector runs in a frame (--person-every).                       *)
(*                                                                         *)
(* A resident's entry in the catalog is its display name; `changed` are    *)
(* the residents whose name or vectors are not what they were.             *)
(***************************************************************************)
EXTENDS Naturals, Sequences, FiniteSets

CONSTANTS
  MaxIds,        \* bound of the model: ids given out
  MaxLive,       \* bound of the model: tracks at a time
  Residents,     \* resident ids
  Nobody,        \* a model value: no resident (-1)
  Names,         \* display names; two residents may share one
  ConfirmHits,   \* confirm_hits
  LostMissed,    \* missed updates before a track is LOST; 3 in the code
  MaxMissed,     \* max_missed
  RecogRetry,    \* recog_retry_frames
  UnknownRetry,  \* recog_unknown_retry
  GhostMaxAge    \* ghost_max_age_frames

ASSUME GreedyAssumption ==
  /\ MaxIds \in Nat /\ MaxLive \in Nat
  /\ Nobody \notin Residents
  /\ {"", "unknown"} \cap Names = {}
  /\ ConfirmHits \in Nat \ {0} /\ LostMissed \in Nat \ {0} /\ MaxMissed \in Nat
  /\ RecogRetry \in Nat \ {0} /\ UnknownRetry \in Nat \ {0}
  /\ GhostMaxAge \in Nat

VARIABLES
  tracks,       \* tracks_, in order
  ghosts,       \* ghosts_, in order
  nextId,       \* next_id_
  residentIds,  \* resident_ids_ of the adapter
  catalog,      \* the catalog in use
  phase         \* between two frames, or after the detector of one

vars == <<tracks, ghosts, nextId, residentIds, catalog, phase>>

Ids == 1 .. MaxIds

\* Counters are kept up to the largest value that is compared with.
LongestRetry == IF RecogRetry > UnknownRetry THEN RecogRetry ELSE UnknownRetry

\* who, current and triedAll are history: the resident the track was last
\* recognised as, whether the catalog still says of it what it said then, and
\* whether every resident of the catalog was there at the last attempt.
Track == [id : Ids,
          state : {"NEW", "CONFIRMED", "LOST"},
          hits : 0 .. ConfirmHits,       \* consecutive_hits
          missed : 0 .. LostMissed + MaxMissed,
          name : Names \cup {"", "unknown"},
          since : 0 .. LongestRetry,     \* frames since last_recog_frame
          who : Residents \cup {Nobody},
          current : BOOLEAN,
          triedAll : BOOLEAN]

Ghost == [id : Ids, name : Names, age : 0 .. GhostMaxAge + 1,
          current : BOOLEAN]

Catalog == UNION {[S -> Names] : S \in SUBSET Residents}

Known(name) == name \notin {"", "unknown"}
Active(t) == t.state \in {"CONFIRMED", "LOST"}

\* Only active tracks are ever recognised, so only they are known.
GreedyTypeOK ==
  /\ tracks \in Seq(Track) /\ Len(tracks) <= MaxLive
  /\ ghosts \in Seq(Ghost)
  /\ nextId \in 1 .. MaxIds + 1
  /\ residentIds \in UNION {[S -> Residents] : S \in SUBSET Ids}
  /\ catalog \in Catalog
  /\ phase \in {"boundary", "detected"}
  /\ \A k \in DOMAIN tracks :
       /\ tracks[k].name # "" => Active(tracks[k])
       /\ tracks[k].state = "CONFIRMED" => tracks[k].missed < LostMissed
       /\ tracks[k].state = "LOST" => tracks[k].missed >= LostMissed

Init ==
  /\ tracks = <<>> /\ ghosts = <<>> /\ nextId = 1
  /\ residentIds = <<>>
  /\ catalog \in Catalog
  /\ phase = "boundary"

\* identity.resident_id of the view of a track.
ViewOf(t) ==
  IF t.id \in DOMAIN residentIds THEN residentIds[t.id] ELSE Nobody

-----------------------------------------------------------------------------
(* A frame: the tracker learns its number and, if the person detector runs, *)
(* the detections.                                                          *)

AtMost(n, limit) == IF n < limit THEN n ELSE limit

Aged(t) == [t EXCEPT !.since = AtMost(@ + 1, LongestRetry)]

Hit(t) ==
  LET h == [t EXCEPT !.missed = 0, !.hits = AtMost(@ + 1, ConfirmHits)]
  IN IF t.state = "LOST" \/ (t.state = "NEW" /\ h.hits >= ConfirmHits)
     THEN [h EXCEPT !.state = "CONFIRMED"] ELSE h

Missed(t) ==
  LET m == [t EXCEPT !.missed = @ + 1, !.hits = 0]
  IN IF t.state = "CONFIRMED" /\ m.missed >= LostMissed
     THEN [m EXCEPT !.state = "LOST"] ELSE m

\* kill_track: a new track at its first miss, a lost one at max_missed.
Killed(t) ==
  \/ t.state = "NEW"
  \/ t.state = "LOST" /\ t.missed + 1 >= MaxMissed

GhostOf(t) == [id |-> t.id, name |-> t.name, age |-> 0, current |-> t.current]

\* Those of a sequence at the given places, in order.
At(s, places) ==
  LET n == Cardinality(places)
      order == CHOOSE f \in [1 .. n -> places] :
                 \A i, j \in 1 .. n : i < j => f[i] < f[j]
  IN [k \in 1 .. n |-> s[order[k]]]

NewTrack(id) ==
  [id |-> id, state |-> "NEW", hits |-> 1, missed |-> 0, name |-> "",
   since |-> 0, who |-> Nobody, current |-> TRUE, triedAll |-> FALSE]

\* kill_track leaves a ghost of a known track; expire_ghosts.
GhostsAfter(aged, dead) ==
  LET known == At(dead, {k \in DOMAIN dead : Known(dead[k].name)})
      all == aged \o [k \in DOMAIN known |-> GhostOf(known[k])]
  IN At(all, {k \in DOMAIN all : all[k].age <= GhostMaxAge})

\* The adapter forgets the residents of tracks that are not active any more.
LiveResidents(ts) ==
  LET live == {ts[k].id : k \in {j \in DOMAIN ts : Active(ts[j])}}
  IN [i \in DOMAIN residentIds \cap live |-> residentIds[i]]

\* expire_ghosts compares frame numbers, so the ghosts age with the frames.
Older == [k \in DOMAIN ghosts |->
            [ghosts[k] EXCEPT !.age = AtMost(@ + 1, GhostMaxAge + 1)]]

Update(matched, made) ==
  LET aged == [k \in DOMAIN tracks |-> Aged(tracks[k])]
      dying == {k \in DOMAIN tracks \ matched : Killed(tracks[k])}
      after == [k \in DOMAIN tracks |->
                  IF k \in matched THEN Hit(aged[k]) ELSE Missed(aged[k])]
      now == At(after, DOMAIN tracks \ dying)
               \o [n \in 1 .. made |-> NewTrack(nextId + n - 1)]
  IN /\ phase = "boundary"
     /\ nextId + made <= MaxIds + 1 /\ Len(now) <= MaxLive
     /\ tracks' = now
     /\ ghosts' = GhostsAfter(Older, At(aged, dying))
     /\ nextId' = nextId + made
     /\ residentIds' = LiveResidents(now)
     /\ phase' = "detected"
     /\ UNCHANGED catalog

\* The detector does not run: only the frame number moves on (predict).
\* Ghosts that are too old by now go at the next update.
Skip ==
  /\ phase = "boundary"
  /\ tracks' = [k \in DOMAIN tracks |-> Aged(tracks[k])]
  /\ ghosts' = Older
  /\ phase' = "detected"
  /\ UNCHANGED <<nextId, residentIds, catalog>>

-----------------------------------------------------------------------------
(* Recognition, one matched face after the other, in the same frame.        *)

\* needs_recog
NeedsRecog(t) ==
  /\ t.state = "CONFIRMED"
  /\ \/ t.name = ""
     \/ t.name = "unknown" /\ t.since >= UnknownRetry
     \/ Known(t.name) /\ t.since >= RecogRetry

\* record_recognition of the Tracker: the name, and the time of the attempt.
Recognised(t, rid) ==
  [t EXCEPT !.name = IF rid = Nobody THEN "unknown" ELSE catalog[rid],
            !.since = 0, !.who = rid, !.current = TRUE, !.triedAll = TRUE]

\* try_inherit_identity: the places of the ghosts it may take; it takes the
\* first.
Heirs(t, name) ==
  IF Known(t.name) \/ ~Known(name) THEN {}
  ELSE {g \in DOMAIN ghosts : ghosts[g].name = name}

\* resident_ids_[track_id] = resident_id
Stored(id, rid) ==
  [i \in DOMAIN residentIds \cup {id} |-> IF i = id THEN rid ELSE residentIds[i]]

\* Slip: the ghost is not erased when its id is taken over.
RecordKeepsGhost(k, rid) ==
  LET t == Recognised(tracks[k], rid)
      heirs == Heirs(tracks[k], t.name)
      first == CHOOSE g \in heirs : \A h \in heirs : g <= h
  IN /\ phase = "detected" /\ NeedsRecog(tracks[k])
     /\ tracks' = [tracks EXCEPT ![k] =
                     IF heirs = {} THEN t
                     ELSE [t EXCEPT !.id = ghosts[first].id]]
     /\ residentIds' = IF rid = Nobody THEN residentIds
                       ELSE Stored(tracks[k].id, rid)
     /\ UNCHANGED <<ghosts, nextId, catalog, phase>>

\* The tracker gives the track the ghost's id first; the adapter then stores
\* the resident under the id it was called with.
Record(k, rid) ==
  LET t == Recognised(tracks[k], rid)
      heirs == Heirs(tracks[k], t.name)
      first == CHOOSE g \in heirs : \A h \in heirs : g <= h
  IN /\ phase = "detected" /\ NeedsRecog(tracks[k])
     /\ tracks' = [tracks EXCEPT ![k] =
                     IF heirs = {} THEN t
                     ELSE [t EXCEPT !.id = ghosts[first].id]]
     /\ ghosts' = IF heirs = {} THEN ghosts ELSE At(ghosts, DOMAIN ghosts \ {first})
     /\ residentIds' = IF rid = Nobody THEN residentIds
                       ELSE Stored(tracks[k].id, rid)
     /\ UNCHANGED <<nextId, catalog, phase>>

EndFrame == /\ phase = "detected" /\ phase' = "boundary"
            /\ UNCHANGED <<tracks, ghosts, nextId, residentIds, catalog>>

-----------------------------------------------------------------------------
(* A new catalog generation, between two frames.                            *)

\* Slip: lost tracks are not looked at.
SelectedConfirmed(t, gone, newcomers) ==
  /\ t.state = "CONFIRMED"
  /\ ViewOf(t) \in gone \/ (newcomers /\ ViewOf(t) = Nobody)

\* invalidate_residents: the tracks it names to the tracker.
Selected(t, gone, newcomers) ==
  /\ Active(t)
  /\ ViewOf(t) \in gone \/ (newcomers /\ ViewOf(t) = Nobody)

\* Slip: a name that was never looked up counts as unknown, a failed look-up
\* does not.
InvalidatedUntried(t, gone, newcomers) ==
  \/ Selected(t, gone, newcomers) /\ t.name # "unknown"
  \/ newcomers /\ t.name = ""

\* invalidate_catalog_cache
Invalidated(t, gone, newcomers) ==
  \/ Selected(t, gone, newcomers)
  \/ newcomers /\ ~Known(t.name)

\* It has no name and is looked up at the next chance.
Forgotten(t) ==
  [t EXCEPT !.name = "", !.since = 0, !.who = Nobody, !.current = TRUE]

\* new is the catalog; changed are the residents in both that have another
\* name or other vectors.  No ghost survives, whatever has changed.
Reload(new, changed) ==
  LET gone == changed \cup (DOMAIN catalog \ DOMAIN new)
      newcomers == DOMAIN new \ DOMAIN catalog # {}
      hit == {k \in DOMAIN tracks : Invalidated(tracks[k], gone, newcomers)}
  IN /\ phase = "boundary"
     /\ tracks' = [k \in DOMAIN tracks |->
          LET t == [tracks[k] EXCEPT !.current = @ /\ tracks[k].who \notin gone,
                                     !.triedAll = @ /\ ~newcomers]
          IN IF k \in hit THEN Forgotten(t) ELSE t]
     /\ ghosts' = <<>>
     /\ residentIds' = [i \in DOMAIN residentIds \ {tracks[k].id : k \in hit} |->
                         residentIds[i]]
     /\ catalog' = new
     /\ UNCHANGED <<nextId, phase>>

Differs(new) == {r \in DOMAIN catalog \cap DOMAIN new : catalog[r] # new[r]}

Next ==
  \/ \E matched \in SUBSET DOMAIN tracks, made \in 0 .. MaxLive :
       Update(matched, made)
  \/ Skip
  \/ \E k \in DOMAIN tracks, rid \in DOMAIN catalog \cup {Nobody} : Record(k, rid)
  \/ EndFrame
  \/ \E new \in Catalog, changed \in SUBSET Residents :
       /\ Differs(new) \subseteq changed
       /\ changed \subseteq DOMAIN catalog \cap DOMAIN new
       /\ Reload(new, changed)

Spec == Init /\ [][Next]_vars

-----------------------------------------------------------------------------
\* However ids are taken over from ghosts, no two tracks, no two ghosts and
\* no track and ghost have the same id: the interaction sessions, the streaks
\* and the resident ids are all kept by id.
IdsAreUnique ==
  /\ \A i, j \in DOMAIN tracks : tracks[i].id = tracks[j].id => i = j
  /\ \A i, j \in DOMAIN ghosts : ghosts[i].id = ghosts[j].id => i = j
  /\ \A i \in DOMAIN tracks, j \in DOMAIN ghosts : tracks[i].id # ghosts[j].id

\* The resident a track's view names while its name is latched is the one it
\* was last recognised as, still in the catalog with the entry of that time,
\* through reloads, id changes and the deaths of other tracks.
ViewIsCurrent ==
  \A k \in DOMAIN tracks :
    LET t == tracks[k]
    IN Active(t) /\ Known(t.name) /\ ViewOf(t) # Nobody =>
         /\ t.current /\ ViewOf(t) = t.who
         /\ ViewOf(t) \in DOMAIN catalog /\ catalog[ViewOf(t)] = t.name

\* A confirmed track that shows nobody and is not to be looked up now has
\* been compared with every resident there is: who enrols while standing in
\* the cabin is not left waiting for the retry.
NewcomersAreTried ==
  \A k \in DOMAIN tracks :
    LET t == tracks[k]
    IN t.state = "CONFIRMED" /\ ViewOf(t) = Nobody /\ ~NeedsRecog(t)
         => t.triedAll

\* What .kiro/specs/resident-hot-reload/requirements.md:126 says: a track of
\* a resident that was removed or changed is recognised again.  A track that
\* took over a ghost's id has its resident stored under the id it had before
\* (tracker_greedy.cpp:80), so the reload does not find it; it keeps the name
\* and later leaves a ghost of that name.
NameIsCurrent ==
  \A k \in DOMAIN tracks :
    Active(tracks[k]) /\ Known(tracks[k].name) => tracks[k].current
=============================================================================
