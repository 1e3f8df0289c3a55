-------------------------- MODULE RecognitionLoop --------------------------
(***************************************************************************)
(* The main loop of main.cpp around ByteTracker: at the boundary of two    *)
(* frames a new catalog may be put into use and reconciled with the tracks *)
(* and the sessions (resident_reconcile.cpp); in a frame the tracks are    *)
(* predicted, updated every PersonEvery frames, the faces are linked to    *)
(* tracks and recognised where a track needs it, and every linked face is  *)
(* one subject of the interaction manager.  Without a tracker the largest  *)
(* face is the only subject, key 0, and is recognised in every frame.      *)
(*                                                                         *)
(* Of a session the resident and whether it was confirmed is kept; streaks,*)
(* cooldowns and the grace are the business of Interaction, so that here   *)
(* a session may be confirmed in any frame and reaped in any frame its     *)
(* subject is absent from.                                                 *)
(***************************************************************************)
EXTENDS ByteTracker

CONSTANTS
  Digests,      \* what the catalog holds of a resident: metadata, embeddings
  PersonEvery,  \* --person-every
  Steps         \* time between two frames, in ticks

ASSUME LoopAssumption ==
  /\ PersonEvery \in Nat \ {0}
  /\ Steps \subseteq Nat

VARIABLES
  useTracker,  \* --tracker was given
  catalog,     \* the catalog in use
  phase,       \* where the frame is
  frameId,     \* frame_id, modulo PersonEvery
  sessions,    \* the interaction manager's sessions, Nobody where none
  seenAs,      \* history: the digest a subject's identity was matched with
  triedWith    \* history: the residents of the catalog it was last tried with

vars == <<tracks, useTracker, catalog, phase, frameId, sessions, seenAs,
          triedWith>>

Keys == 0 .. MaxTracks
Catalog == UNION {[S -> Digests] : S \in SUBSET Residents}
Session == [rid : Residents \cup {Nobody}, confirmed : BOOLEAN]

LoopTypeOK ==
  /\ TrackerTypeOK
  /\ useTracker \in BOOLEAN
  /\ catalog \in Catalog
  /\ phase \in {"boundary", "predicted", "detected"}
  /\ frameId \in 0 .. PersonEvery - 1
  /\ sessions \in [Keys -> Session \cup {Nobody}]
  /\ seenAs \in [Keys -> Digests \cup {Nobody}]
  /\ triedWith \in [TrackIds -> SUBSET Residents]

Init ==
  /\ TrackerInit
  /\ useTracker \in BOOLEAN
  /\ catalog \in Catalog
  /\ phase = "boundary"
  /\ frameId = 0
  /\ sessions = [k \in Keys |-> Nobody]
  /\ seenAs = [k \in Keys |-> Nobody]
  /\ triedWith = [i \in TrackIds |-> {}]

-----------------------------------------------------------------------------
(* A reload, at the boundary of two frames.                                 *)

Added(old, new) == DOMAIN new \ DOMAIN old
Removed(old, new) == DOMAIN old \ DOMAIN new
Changed(old, new) == {r \in DOMAIN old \cap DOMAIN new : old[r] # new[r]}

\* Slip: every resident still there counts as changed.
GoneWithAll(old, new) == DOMAIN old

\* What is said of these residents holds no longer.
Gone(old, new) == Changed(old, new) \cup Removed(old, new)

\* affected_subject_keys.
Subjects(gone, unknownToo) ==
  IF useTracker THEN Affected(tracks, gone, unknownToo)
  ELSE {k \in {0} : sessions[k] # Nobody /\ sessions[k].rid \in gone}

Reload(new) ==
  /\ phase = "boundary"
  /\ new # catalog
  /\ LET keys == Subjects(Gone(catalog, new), Added(catalog, new) # {})
     IN /\ tracks' = Invalidated(tracks, keys)
        /\ sessions' = [k \in Keys |->
                          IF k \in keys THEN Nobody ELSE sessions[k]]
        /\ seenAs' = [k \in Keys |-> IF k \in keys THEN Nobody ELSE seenAs[k]]
  /\ catalog' = new
  /\ UNCHANGED <<useTracker, phase, frameId, triedWith>>

-----------------------------------------------------------------------------
(* A frame.                                                                 *)

Predict(dt) ==
  /\ phase = "boundary"
  /\ tracks' = [i \in TrackIds |-> Predicted(tracks[i], dt)]
  /\ phase' = IF useTracker /\ frameId = 0 THEN "predicted" ELSE "detected"
  /\ UNCHANGED <<useTracker, catalog, frameId, sessions, seenAs, triedWith>>

Update(high, low, new, overlap) ==
  /\ phase = "predicted"
  /\ CanMatch(tracks, high, low) /\ CanMake(tracks, new)
  /\ tracks' = Resolved(Associated(tracks, high, low, new), overlap)
  /\ phase' = "detected"
  /\ UNCHANGED <<useTracker, catalog, frameId, sessions, seenAs, triedWith>>

\* face_track_assoc.cpp links faces to tracks the detector has just seen.
Linkable == {i \in TrackIds : tracks[i].state = "Tracked" /\ ~tracks[i].predicted}

\* What match_engine can say of a face: nothing at all when it holds no
\* embedding or the face could not be aligned or extracted.
Found == DOMAIN catalog \cup {Nobody}

\* interaction.update for the subjects of the frame, whose matches are rids.
\* The others may be reaped; a match may complete a streak.
SessionsAfter(rids, reaped, confirmed) ==
  [k \in Keys |->
     IF k \in DOMAIN rids
     THEN [rid |-> rids[k],
           confirmed |->
             /\ rids[k] # Nobody
             /\ \/ k \in confirmed
                \/ sessions[k] # Nobody /\ sessions[k].confirmed
                     /\ sessions[k].rid # Nobody]
     ELSE IF k \in reaped THEN Nobody ELSE sessions[k]]

EndFrame ==
  /\ phase' = "boundary"
  /\ frameId' = (frameId + 1) % PersonEvery
  /\ UNCHANGED <<useTracker, catalog>>

\* The faces in the frame are linked to the tracks `linked`; those in `tried`
\* are recognised, and match gives what came out.
RecogniseTracked(linked, match, reaped, confirmed) ==
  LET tried == DOMAIN match
      after == [i \in TrackIds |->
                  IF i \in tried THEN Recorded(tracks[i], match[i])
                  ELSE tracks[i]]
  IN /\ phase = "detected" /\ useTracker
     /\ tried \subseteq {i \in linked : NeedsRecognition(tracks[i])}
     /\ tried # {} => DOMAIN catalog # {}
     /\ tracks' = after
     /\ sessions' = SessionsAfter([i \in linked |-> after[i].resident],
                                  reaped, confirmed)
     /\ seenAs' = [k \in Keys |->
                     IF k \in tried /\ match[k] # Nobody
                     THEN catalog[match[k]] ELSE seenAs[k]]
     /\ triedWith' = [i \in TrackIds |->
                        IF i \in tried THEN DOMAIN catalog ELSE triedWith[i]]
     /\ EndFrame

\* Key 0; the frame may have no face at all.
RecogniseLargest(rids, reaped, confirmed) ==
  /\ phase = "detected" /\ ~useTracker
  /\ sessions' = SessionsAfter(rids, reaped, confirmed)
  /\ seenAs' = [k \in Keys |->
                  IF k \in DOMAIN rids /\ rids[k] # Nobody
                  THEN catalog[rids[k]] ELSE seenAs[k]]
  /\ UNCHANGED <<tracks, triedWith>>
  /\ EndFrame

Pairs == {p \in SUBSET TrackIds : Cardinality(p) = 2}

Next ==
  \/ \E new \in Catalog : Reload(new)
  \/ \E dt \in Steps : Predict(dt)
  \/ \E high, low, new \in SUBSET TrackIds, overlap \in SUBSET Pairs :
       Update(high, low, new, overlap)
  \/ \E linked \in SUBSET Linkable : \E tried \in SUBSET linked :
       \E match \in [tried -> Found], reaped, confirmed \in SUBSET TrackIds :
         RecogniseTracked(linked, match, reaped, confirmed)
  \/ \E present \in SUBSET {0} :
       \E rids \in [present -> Found], reaped, confirmed \in SUBSET {0} :
         RecogniseLargest(rids, reaped, confirmed)

Spec == Init /\ [][Next]_vars

-----------------------------------------------------------------------------
(* Properties.                                                              *)

\* requirements.md of resident-hot-reload, R5.2 and R5.3: whoever a track is
\* taken for, the catalog in use still says of that resident what it said
\* when the face was matched, also on a track that was out of sight during
\* the reload.
IdentityIsCurrent ==
  \A i \in ConfirmedIds(tracks) : tracks[i].latched =>
    /\ tracks[i].resident \in DOMAIN catalog
    /\ seenAs[i] = catalog[tracks[i].resident]

\* R5.6 and R5.7: the same of every session that can still be continued, and
\* a session is never about another resident than its track.
SessionIsCurrent ==
  \A k \in Keys :
    (sessions[k] # Nobody /\ sessions[k].rid # Nobody
      /\ (k \in TrackIds => Confirmed(tracks[k]))) =>
      /\ sessions[k].rid \in DOMAIN catalog
      /\ seenAs[k] = catalog[sessions[k].rid]
      /\ k \in TrackIds => tracks[k].resident = sessions[k].rid

\* R5.2, R5.3, R5.6 and R5.7 together: neither a track nor a session shows a
\* resident as the catalog no longer does.
CacheIsCurrent == IdentityIsCurrent /\ SessionIsCurrent

\* R5.1: an unknown person is tried again at the next frame after residents
\* were added: whoever waits for the retry was tried with all of today's.
AdditionsAreTried ==
  \A i \in ConfirmedIds(tracks) :
    ~tracks[i].latched /\ tracks[i].tried < UnknownRetry =>
      DOMAIN catalog \subseteq triedWith[i]

\* R5.6: a reload leaves the session of a resident it says nothing new about
\* as it is, so nobody is greeted or sent to a floor twice for it.
ReloadSparesOthers ==
  [][catalog' # catalog =>
       \A k \in Keys :
         (sessions[k] # Nobody /\ sessions[k].rid \in DOMAIN catalog
           /\ sessions[k].rid \in DOMAIN catalog'
           /\ catalog[sessions[k].rid] = catalog'[sessions[k].rid])
         => sessions'[k] = sessions[k]]_vars

\* byte_tracker.cpp 130-149: a person the detector has just seen stays
\* tracked, unless another confirmed track is taken for the same resident.
SeenStaysTracked ==
  [][\A i \in TrackIds :
       (phase = "predicted" /\ tracks'[i].state = "Removed"
         /\ tracks[i].state = "Tracked" /\ tracks[i].since < LostTimeout)
       => \E j \in TrackIds : Confirmed(tracks'[j]) /\ tracks[i].latched
            /\ tracks'[j].resident = tracks[i].resident]_vars
=============================================================================
