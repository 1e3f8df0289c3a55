---------------------------- MODULE Interaction ----------------------------
(***************************************************************************)
(* InteractionManager, from src/src/interaction.cpp: it groups the matches *)
(* of single frames into one session per subject and says when a resident  *)
(* is confirmed and when a subject is unknown.  Frame is one call of       *)
(* update, with the subjects main.cpp collected in that frame;             *)
(* DropSessions is what a catalog reload does between two frames.          *)
(***************************************************************************)
EXTENDS Integers, Sequences, FiniteSets

CONSTANTS
  Keys,           \* subject keys: track ids, or the one slot without tracker
  Residents,      \* resident ids a match can name
  Nobody,         \* a model value: no resident, no session, no time
  ConfirmStreak,  \* confirm_streak
  Cooldown,       \* cooldown_ms, in clock ticks
  UnknownAfter,   \* unknown_after_ms, in clock ticks
  ReapGrace,      \* reap_grace_ms, in clock ticks
  Steps,          \* time between two frames, in clock ticks
  MaxClock        \* bound of the model: the last frame

ASSUME InteractionAssumption ==
  /\ ConfirmStreak \in Nat \ {0}
  /\ Cooldown \in Nat /\ UnknownAfter \in Nat /\ ReapGrace \in Nat
  /\ Steps \subseteq Nat \ {0}
  /\ MaxClock \in Nat
  /\ Nobody \notin Residents \cup 0 .. MaxClock
  /\ IsFiniteSet(Keys)

VARIABLES
  clock,          \* now_ms of the last frame
  sessions,       \* sessions_, Nobody where there is none
  lastConfirmed,  \* last_confirmed_ms_, Nobody where there is no entry
  outcomes,       \* what the last update returned
  evidence,       \* history: each subject's last ConfirmStreak matches
  confirms,       \* history: every confirmation
  greeted,        \* history: who was confirmed in a subject's session
  recognised,     \* history: has a subject's session ever had a match?
  unknownAt       \* history: a subject's last unknown outcome

histories == <<evidence, confirms, greeted, recognised, unknownAt>>
vars == <<clock, sessions, lastConfirmed, outcomes, histories>>

Time == 0 .. MaxClock
Match == Residents \cup {Nobody}
Session == [state : {"DETECTING", "MATCHED", "CONFIRMED"}, rid : Match,
            streak : Nat, firstSeen : Time, lastSeen : Time,
            unknownEmitted : BOOLEAN]
Outcome == [key : Keys, kind : {"confirmed", "unknown"}, rid : Match]

ASSUME NobodyAssumption == Nobody \notin Session

InteractionTypeOK ==
  /\ clock \in Time
  /\ sessions \in [Keys -> Session \cup {Nobody}]
  /\ lastConfirmed \in [Residents -> Time \cup {Nobody}]
  /\ outcomes \subseteq Outcome
  /\ \A k \in Keys : sessions[k] # Nobody =>
       /\ (sessions[k].state = "DETECTING") <=> (sessions[k].rid = Nobody)
       /\ sessions[k].firstSeen <= sessions[k].lastSeen

Init ==
  /\ clock = 0
  /\ sessions = [k \in Keys |-> Nobody]
  /\ lastConfirmed = [r \in Residents |-> Nobody]
  /\ outcomes = {}
  /\ evidence = [k \in Keys |-> <<>>]
  /\ confirms = {}
  /\ greeted = [k \in Keys |-> {}]
  /\ recognised = [k \in Keys |-> FALSE]
  /\ unknownAt = [k \in Keys |-> Nobody]

-----------------------------------------------------------------------------
(* One call of update at time now; match gives the result of each subject   *)
(* in the frame.                                                            *)

\* Slip: a subject is gone once the grace is used up.
GoneAtGrace(s, now) == s # Nobody /\ now - s.lastSeen >= ReapGrace

\* A session is reaped when its subject has been away longer than the grace.
Gone(s, now) == s # Nobody /\ now - s.lastSeen > ReapGrace

\* The session of a subject in the frame, made if it has none.
Opened(s, now) ==
  IF s = Nobody
  THEN [state |-> "DETECTING", rid |-> Nobody, streak |-> 0,
        firstSeen |-> now, lastSeen |-> now, unknownEmitted |-> FALSE]
  ELSE [s EXCEPT !.lastSeen = now]

UnknownDue(s, now) == ~s.unknownEmitted /\ now - s.firstSeen >= UnknownAfter

\* Slip: the session forgets that it reported an unknown subject.
UnmatchedForgets(s, now) ==
  [s EXCEPT !.state = "DETECTING", !.rid = Nobody, !.streak = 0]

\* A frame without a match takes the identity away.
Unmatched(s, now) ==
  [s EXCEPT !.state = "DETECTING", !.rid = Nobody, !.streak = 0,
            !.unknownEmitted = @ \/ UnknownDue(s, now)]

Matched(s, rid) ==
  [s EXCEPT !.rid = rid,
            !.streak = IF s.rid = rid THEN @ + 1 ELSE 1,
            !.state = IF @ = "DETECTING" THEN "MATCHED" ELSE @]

StreakReached(s) == s.streak >= ConfirmStreak /\ s.state # "CONFIRMED"

InCooldown(rid, now) ==
  lastConfirmed[rid] # Nobody /\ now - lastConfirmed[rid] < Cooldown

\* Slip: a streak that ends in the cooldown is confirmed without an event.
CloseSilently(s, confirmed) ==
  IF confirmed \/ StreakReached(s) THEN [s EXCEPT !.state = "CONFIRMED"] ELSE s

Conclude(s, confirmed) ==
  IF confirmed THEN [s EXCEPT !.state = "CONFIRMED"] ELSE s

\* The subjects of a frame are handled one by one, in the order of the
\* faces: of two that would confirm the same resident the earlier one does,
\* and the other finds the cooldown running, unless it is of length 0.
Confirming(ready, rids) ==
  {win \in SUBSET ready :
     \A k \in ready : IF Cooldown = 0 THEN k \in win
                      ELSE Cardinality({w \in win : rids[w] = rids[k]}) = 1}

LastOf(s, n) == SubSeq(s, IF Len(s) > n THEN Len(s) - n + 1 ELSE 1, Len(s))

Frame(now, match) ==
  LET present == DOMAIN match
      reaped == {k \in Keys \ present : Gone(sessions[k], now)}
      away == {k \in Keys \ present :
                 sessions[k] # Nobody /\ now - sessions[k].lastSeen > ReapGrace}
      old(k) == Opened(sessions[k], now)
      seen(k) == IF match[k] = Nobody THEN Unmatched(old(k), now)
                 ELSE Matched(old(k), match[k])
      ready == {k \in present : /\ match[k] # Nobody
                                /\ StreakReached(seen(k))
                                /\ ~InCooldown(match[k], now)}
      unknown == {k \in present : match[k] = Nobody /\ UnknownDue(old(k), now)}
  IN \E win \in Confirming(ready, match) :
       /\ clock' = now
       /\ sessions' = [k \in Keys |->
                         IF k \in reaped THEN Nobody
                         ELSE IF k \in present
                         THEN IF match[k] = Nobody THEN seen(k)
                              ELSE Conclude(seen(k), k \in win)
                         ELSE sessions[k]]
       /\ lastConfirmed' = [r \in Residents |->
                              IF \E k \in win : match[k] = r THEN now
                              ELSE lastConfirmed[r]]
       /\ outcomes' =
            {[key |-> k, kind |-> "confirmed", rid |-> match[k]] : k \in win}
            \cup {[key |-> k, kind |-> "unknown", rid |-> Nobody] : k \in unknown}
       /\ evidence' = [k \in Keys |->
                         IF k \in present
                         THEN LastOf(Append(evidence[k], match[k]), ConfirmStreak)
                         ELSE IF k \in away THEN <<>> ELSE evidence[k]]
       /\ confirms' = confirms
                        \cup {[rid |-> match[k], at |-> now, key |-> k] : k \in win}
       /\ greeted' = [k \in Keys |->
                        IF k \in away THEN {}
                        ELSE greeted[k] \cup (IF k \in win THEN {match[k]} ELSE {})]
       /\ recognised' = [k \in Keys |->
                           IF k \in present
                           THEN recognised[k] \/ match[k] # Nobody
                           ELSE recognised[k] /\ k \notin away]
       /\ unknownAt' = [k \in Keys |-> IF k \in unknown THEN now ELSE unknownAt[k]]

-----------------------------------------------------------------------------
(* drop_sessions: the subjects whose resident a reload has changed start    *)
(* over; the cooldowns stay.                                                *)

DropSessions(keys) ==
  /\ sessions' = [k \in Keys |-> IF k \in keys THEN Nobody ELSE sessions[k]]
  /\ outcomes' = {}
  /\ evidence' = [k \in Keys |-> IF k \in keys THEN <<>> ELSE evidence[k]]
  /\ greeted' = [k \in Keys |-> IF k \in keys THEN {} ELSE greeted[k]]
  /\ recognised' = [k \in Keys |-> recognised[k] /\ k \notin keys]
  /\ UNCHANGED <<clock, lastConfirmed, confirms, unknownAt>>

Next ==
  \/ \E dt \in Steps, present \in SUBSET Keys :
       \E match \in [present -> Match] :
         clock + dt <= MaxClock /\ Frame(clock + dt, match)
  \/ \E keys \in SUBSET Keys \ {{}} : DropSessions(keys)

Spec == Init /\ [][Next]_vars

-----------------------------------------------------------------------------
(* Properties.                                                              *)

\* interaction.h 15-17 and 41-46: a session's streak is the number of its
\* subject's last consecutive matches of one resident, over dropouts within
\* the grace, never over a longer absence, a lost match or a reload.
Run(k, rid) ==
  {n \in 1 .. Len(evidence[k]) :
     \A i \in n .. Len(evidence[k]) : evidence[k][i] = rid}

StreakIsEvidence ==
  \A k \in Keys : sessions[k] # Nobody =>
    LET s == sessions[k]
    IN \A rid \in Residents :
         Cardinality(Run(k, rid)) =
           IF s.rid # rid THEN 0
           ELSE IF s.streak > ConfirmStreak THEN ConfirmStreak ELSE s.streak

\* interaction.h 42 and 86-87: two confirmations of a resident are at least
\* the cooldown apart, on whichever subjects, through new sessions, reaped
\* ones and catalog reloads.
CooldownHolds ==
  \A a, b \in confirms :
    a.rid = b.rid /\ a # b =>
      a.at - b.at >= Cooldown \/ b.at - a.at >= Cooldown

\* interaction.h 18-20: a subject is reported unknown once per session, so a
\* whole window lies between two reports, whatever ended the first session.
UnknownSpaced ==
  [][\A o \in outcomes' :
       outcomes' # outcomes /\ o.kind = "unknown" /\ unknownAt[o.key] # Nobody
         => clock' - unknownAt[o.key] > UnknownAfter]_vars

\* What reaches the Edge Core and the database is spaced: the two together.
ReportsSpaced == []CooldownHolds /\ UnknownSpaced

InFrame(k) == sessions[k] # Nobody /\ sessions[k].lastSeen = clock

HasStreak(k) ==
  InFrame(k) /\ sessions[k].streak >= ConfirmStreak

\* The resident of a subject in the frame was confirmed in this session, or
\* so recently that the cooldown still runs.
ResidentGreeted(k) ==
  LET r == sessions[k].rid
  IN \/ r \in greeted[k]
     \/ lastConfirmed[r] # Nobody /\ clock - lastConfirmed[r] < Cooldown

\* interaction.cpp 118-123: a streak that the cooldown blocked is confirmed
\* as soon as the cooldown is over, unless the session had already confirmed
\* somebody else.
StreakConfirmed ==
  \A k \in Keys :
    HasStreak(k) /\ greeted[k] \subseteq {sessions[k].rid} => ResidentGreeted(k)

\* interaction.h 15-17, with no exception: whoever has the streak and no
\* cooldown is confirmed.
EveryStreakConfirmed == \A k \in Keys : HasStreak(k) => ResidentGreeted(k)

\* interaction.h 18-20 and the comment at interaction.cpp 86-89: only a
\* subject that never matched in its session is reported unknown.
UnknownNeverMatched ==
  \A o \in outcomes : o.kind = "unknown" => ~recognised[o.key]
=============================================================================
