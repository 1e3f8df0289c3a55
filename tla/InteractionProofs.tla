------------------------- MODULE InteractionProofs -------------------------
(***************************************************************************)
(* Confirmations of a resident are a cooldown apart, unknown reports of a  *)
(* subject a window, and a streak is confirmed unless the cooldown runs,   *)
(* for any subjects, residents, streak length and times; and a streak is   *)
(* the number of matches of its resident the session ends in.              *)
(*                                                                         *)
(* The histories are bounded by the state the code keeps: no confirmation  *)
(* of a resident is later than lastConfirmed, and the last unknown report  *)
(* of a subject is either from its session or from before it.              *)
(***************************************************************************)
EXTENDS Interaction, FiniteSetTheorems, SequenceTheorems, TLAPS

Histories ==
  /\ confirms \subseteq [rid : Residents, at : Time, key : Keys]
  /\ greeted \in [Keys -> SUBSET Residents]
  /\ unknownAt \in [Keys -> Time \cup {Nobody}]

\* Nothing is remembered of the future.
PastOnly ==
  /\ \A k \in Keys : sessions[k] # Nobody => sessions[k].lastSeen <= clock
  /\ \A r \in Residents : lastConfirmed[r] # Nobody => lastConfirmed[r] <= clock
  /\ \A k \in Keys : unknownAt[k] # Nobody => unknownAt[k] <= clock

ConfirmsBounded ==
  \A c \in confirms :
    lastConfirmed[c.rid] # Nobody /\ c.at <= lastConfirmed[c.rid]

ReportedBefore ==
  \A k \in Keys : sessions[k] # Nobody /\ unknownAt[k] # Nobody =>
    sessions[k].unknownEmitted \/ sessions[k].firstSeen > unknownAt[k]

ConfirmedGreeted ==
  \A k \in Keys :
    sessions[k] # Nobody /\ sessions[k].state = "CONFIRMED" => greeted[k] # {}

IInv ==
  /\ InteractionTypeOK /\ Histories /\ PastOnly
  /\ ConfirmsBounded /\ CooldownHolds
  /\ ReportedBefore
  /\ ConfirmedGreeted /\ StreakConfirmed

-----------------------------------------------------------------------------
(* What becomes of one session in a frame.                                  *)

Sound(s) == s \in Session /\ ((s.state = "DETECTING") <=> (s.rid = Nobody))
              /\ s.firstSeen <= s.lastSeen

LEMMA OpenedSound ==
  ASSUME NEW s \in Session \cup {Nobody}, NEW now \in Time,
         s # Nobody => Sound(s) /\ s.lastSeen <= now
  PROVE  /\ Sound(Opened(s, now)) /\ Opened(s, now).lastSeen = now
         /\ s # Nobody => /\ Opened(s, now).firstSeen = s.firstSeen
                          /\ Opened(s, now).unknownEmitted = s.unknownEmitted
                          /\ Opened(s, now).state = s.state
         /\ s = Nobody => /\ Opened(s, now).firstSeen = now
                          /\ Opened(s, now).state = "DETECTING"
<1>1. CASE s = Nobody
  BY <1>1, InteractionAssumption DEF Opened, Sound, Session, Match, Time
<1>2. CASE s # Nobody
  <2>1. s \in Session /\ s.firstSeen <= s.lastSeen /\ s.lastSeen <= now
        /\ s.firstSeen \in Time /\ s.lastSeen \in Time
    BY <1>2 DEF Sound, Session
  <2>2. /\ Opened(s, now) = [s EXCEPT !.lastSeen = now]
        /\ Opened(s, now) \in Session
    BY <1>2, <2>1 DEF Opened, Session
  <2> QED
    BY <1>2, <2>1, <2>2, InteractionAssumption DEF Sound, Session, Time
<1> QED
  BY <1>1, <1>2

LEMMA UnmatchedSound ==
  ASSUME NEW s, Sound(s), NEW now \in Time
  PROVE  /\ Sound(Unmatched(s, now))
         /\ Unmatched(s, now).lastSeen = s.lastSeen
         /\ Unmatched(s, now).firstSeen = s.firstSeen
         /\ Unmatched(s, now).state = "DETECTING"
         /\ Unmatched(s, now).streak = 0
         /\ Unmatched(s, now).unknownEmitted = (s.unknownEmitted \/ UnknownDue(s, now))
<1> DEFINE due == UnknownDue(s, now)
           emitted == s.unknownEmitted \/ due
<1>1. s \in Session /\ emitted \in BOOLEAN
  BY DEF Sound, Session
<1>2. Unmatched(s, now) = [s EXCEPT !.state = "DETECTING", !.rid = Nobody,
                                    !.streak = 0, !.unknownEmitted = emitted]
  BY <1>1 DEF Unmatched
<1> HIDE DEF emitted
<1> DEFINE t == [[s EXCEPT !.state = "DETECTING"] EXCEPT !.rid = Nobody]
<1>3. /\ t \in Session /\ t.state = "DETECTING" /\ t.rid = Nobody
      /\ t.firstSeen = s.firstSeen /\ t.lastSeen = s.lastSeen
  BY <1>1 DEF Session, Match
<1> DEFINE r == [t EXCEPT !.streak = 0]
<1>4. Unmatched(s, now) = [r EXCEPT !.unknownEmitted = emitted]
  BY <1>2
<1>5. s.firstSeen <= s.lastSeen
  BY DEF Sound
<1> HIDE DEF t
<1>6. /\ r \in Session /\ r.state = "DETECTING" /\ r.rid = Nobody /\ r.streak = 0
      /\ r.firstSeen = s.firstSeen /\ r.lastSeen = s.lastSeen
  BY <1>3 DEF Session
<1> HIDE DEF r
<1>7. /\ Sound(Unmatched(s, now))
      /\ Unmatched(s, now).lastSeen = s.lastSeen
      /\ Unmatched(s, now).firstSeen = s.firstSeen
      /\ Unmatched(s, now).state = "DETECTING"
      /\ Unmatched(s, now).streak = 0
      /\ Unmatched(s, now).unknownEmitted = emitted
  BY <1>1, <1>4, <1>5, <1>6 DEF Sound, Session
<1> QED
  BY <1>7 DEF emitted

LEMMA MatchedSound ==
  ASSUME NEW s, Sound(s), NEW rid \in Residents
  PROVE  /\ Sound(Matched(s, rid))
         /\ Matched(s, rid).lastSeen = s.lastSeen
         /\ Matched(s, rid).firstSeen = s.firstSeen
         /\ Matched(s, rid).unknownEmitted = s.unknownEmitted
         /\ Matched(s, rid).rid = rid
         /\ (Matched(s, rid).state = "CONFIRMED") <=> (s.state = "CONFIRMED")
         /\ Matched(s, rid).streak \in Nat
<1> DEFINE streak == IF s.rid = rid THEN s.streak + 1 ELSE 1
           state == IF s.state = "DETECTING" THEN "MATCHED" ELSE s.state
<1>1. /\ s \in Session /\ streak \in Nat
      /\ state \in {"MATCHED", "CONFIRMED"}
      /\ (state = "CONFIRMED") <=> (s.state = "CONFIRMED")
  BY DEF Sound, Session
<1>2. Matched(s, rid) = [s EXCEPT !.rid = rid, !.streak = streak, !.state = state]
  BY <1>1 DEF Matched
<1> DEFINE t == [s EXCEPT !.rid = rid]
<1>3. /\ t \in Session /\ t.rid = rid /\ t.unknownEmitted = s.unknownEmitted
      /\ t.firstSeen = s.firstSeen /\ t.lastSeen = s.lastSeen
  BY <1>1 DEF Session, Match
<1>4. Matched(s, rid) = [[t EXCEPT !.streak = streak] EXCEPT !.state = state]
  BY <1>2
<1>5. s.firstSeen <= s.lastSeen /\ rid # Nobody
  BY InteractionAssumption DEF Sound
<1> HIDE DEF streak, state
<1> DEFINE u == [t EXCEPT !.streak = streak]
<1> HIDE DEF t
<1>6. /\ u \in Session /\ u.rid = rid /\ u.unknownEmitted = s.unknownEmitted
      /\ u.firstSeen = s.firstSeen /\ u.lastSeen = s.lastSeen /\ u.streak = streak
  BY <1>1, <1>3 DEF Session
<1>7. Matched(s, rid) = [u EXCEPT !.state = state]
  BY <1>4
<1> HIDE DEF u
<1> DEFINE w == [u EXCEPT !.state = state]
<1>8. /\ w \in Session /\ w.rid = rid /\ w.unknownEmitted = s.unknownEmitted
      /\ w.firstSeen = s.firstSeen /\ w.lastSeen = s.lastSeen
      /\ w.state = state /\ w.streak \in Nat
  BY <1>1, <1>6 DEF Session
<1> HIDE DEF w
<1> QED
  BY <1>1, <1>5, <1>7, <1>8 DEF Sound, w

LEMMA ConcludeSound ==
  ASSUME NEW s, Sound(s), s.rid # Nobody, NEW confirmed \in BOOLEAN
  PROVE  /\ Sound(Conclude(s, confirmed))
         /\ Conclude(s, confirmed).lastSeen = s.lastSeen
         /\ Conclude(s, confirmed).firstSeen = s.firstSeen
         /\ Conclude(s, confirmed).unknownEmitted = s.unknownEmitted
         /\ Conclude(s, confirmed).rid = s.rid
         /\ Conclude(s, confirmed).streak = s.streak
         /\ Conclude(s, confirmed).state = "CONFIRMED" =>
              confirmed \/ s.state = "CONFIRMED"
BY DEF Conclude, Sound, Session

-----------------------------------------------------------------------------
LEMMA InitSound == Init => IInv
BY InteractionAssumption
   DEF Init, IInv, InteractionTypeOK, Histories, PastOnly, ConfirmsBounded,
       CooldownHolds, ReportedBefore, ConfirmedGreeted, StreakConfirmed, HasStreak,
       InFrame, Time

\* One of several subjects that would confirm the same resident does.
LEMMA Winners ==
  ASSUME NEW ready \in SUBSET Keys, NEW rids, NEW win \in Confirming(ready, rids),
         NEW k \in ready
  PROVE  /\ win \subseteq ready
         /\ \E w \in win : rids[w] = rids[k]
         /\ Cooldown = 0 => k \in win
         /\ Cooldown # 0 /\ k \in win =>
              \A w \in win : rids[w] = rids[k] => w = k
<1>1. win \subseteq ready
  BY DEF Confirming
<1>2. CASE Cooldown = 0
  BY <1>1, <1>2 DEF Confirming
<1>3. CASE Cooldown # 0
  <2> DEFINE same == {w \in win : rids[w] = rids[k]}
  <2>1. Cardinality(same) = 1
    BY <1>3 DEF Confirming
  <2>2. IsFiniteSet(same)
    BY <1>1, FS_Subset, InteractionAssumption
  <2>3. \E w : same = {w}
    BY <2>1, <2>2, FS_Singleton
  <2> QED
    BY <1>1, <1>3, <2>3
<1> QED
  BY <1>2, <1>3

\* What a frame does to the session of each subject.
LEMMA FrameSessions ==
  ASSUME InteractionTypeOK, PastOnly, NEW now \in Time, clock < now,
         NEW present \in SUBSET Keys, NEW match \in [present -> Match],
         NEW k \in present, NEW confirmed \in BOOLEAN,
         NEW old, old = Opened(sessions[k], now),
         NEW new,
         new = IF match[k] = Nobody THEN Unmatched(old, now)
               ELSE Conclude(Matched(old, match[k]), confirmed)
  PROVE  /\ Sound(old) /\ Sound(new)
         /\ new.lastSeen = now /\ new.firstSeen = old.firstSeen
         /\ IF match[k] = Nobody
            THEN /\ new.state = "DETECTING" /\ new.streak = 0
                 /\ new.unknownEmitted = (old.unknownEmitted \/ UnknownDue(old, now))
            ELSE /\ new.unknownEmitted = old.unknownEmitted
                 /\ new.rid = match[k]
                 /\ new.streak = Matched(old, match[k]).streak
                 /\ new.state = "CONFIRMED" => confirmed \/ old.state = "CONFIRMED"
                 /\ (Matched(old, match[k]).state = "CONFIRMED")
                       <=> (old.state = "CONFIRMED")
<1>1. /\ sessions[k] \in Session \cup {Nobody}
      /\ sessions[k] # Nobody => Sound(sessions[k]) /\ sessions[k].lastSeen <= now
  BY DEF InteractionTypeOK, PastOnly, Sound, Session, Time
<1>2. Sound(old) /\ old.lastSeen = now
  BY <1>1, OpenedSound
<1>3. CASE match[k] = Nobody
  BY <1>2, <1>3, UnmatchedSound
<1>4. CASE match[k] # Nobody
  <2>1. match[k] \in Residents
    BY <1>4 DEF Match
  <2> DEFINE m == Matched(old, match[k])
  <2>2. /\ Sound(m) /\ m.lastSeen = now /\ m.firstSeen = old.firstSeen
        /\ m.unknownEmitted = old.unknownEmitted /\ m.rid = match[k]
        /\ (m.state = "CONFIRMED") <=> (old.state = "CONFIRMED")
    BY <1>2, <2>1, MatchedSound
  <2>3. new = Conclude(m, confirmed)
    BY <1>4
  <2> HIDE DEF m
  <2>4. /\ Sound(new) /\ new.lastSeen = now /\ new.firstSeen = old.firstSeen
        /\ new.unknownEmitted = old.unknownEmitted /\ new.rid = match[k]
        /\ new.streak = m.streak
        /\ new.state = "CONFIRMED" => confirmed \/ old.state = "CONFIRMED"
    BY <1>4, <2>2, <2>3, ConcludeSound
  <2> QED
    BY <1>2, <1>4, <2>2, <2>4 DEF m
<1> QED
  BY <1>3, <1>4

-----------------------------------------------------------------------------
\* A whole frame keeps the invariant.
LEMMA FrameKeeps ==
  ASSUME IInv, NEW now \in Time, clock < now, NEW match,
         DOMAIN match \in SUBSET Keys, match \in [DOMAIN match -> Match],
         Frame(now, match)
  PROVE  IInv'
<1> DEFINE present == DOMAIN match
           reaped == {k \in Keys \ present : Gone(sessions[k], now)}
           away == {k \in Keys \ present :
                      sessions[k] # Nobody /\ now - sessions[k].lastSeen > ReapGrace}
           old(k) == Opened(sessions[k], now)
           seen(k) == IF match[k] = Nobody THEN Unmatched(old(k), now)
                      ELSE Matched(old(k), match[k])
           ready == {k \in present : /\ match[k] # Nobody
                                     /\ StreakReached(seen(k))
                                     /\ ~InCooldown(match[k], now)}
           unknown == {k \in present : match[k] = Nobody /\ UnknownDue(old(k), now)}
<1>1. PICK win \in Confirming(ready, match) :
        /\ clock' = now
        /\ sessions' = [k \in Keys |->
                          IF k \in reaped THEN Nobody
                          ELSE IF k \in present
                          THEN IF match[k] = Nobody THEN seen(k)
                               ELSE Conclude(seen(k), k \in win)
                          ELSE sessions[k]]
        /\ lastConfirmed' = [r \in Residents |->
                               IF \E k \in win : match[k] = r THEN now
                               ELSE lastConfirmed[r]]
        /\ outcomes' =
             {[key |-> k, kind |-> "confirmed", rid |-> match[k]] : k \in win}
             \cup {[key |-> k, kind |-> "unknown", rid |-> Nobody] : k \in unknown}
        /\ confirms' = confirms
                         \cup {[rid |-> match[k], at |-> now, key |-> k] : k \in win}
        /\ greeted' = [k \in Keys |->
                         IF k \in away THEN {}
                         ELSE greeted[k] \cup (IF k \in win THEN {match[k]} ELSE {})]
        /\ unknownAt' = [k \in Keys |-> IF k \in unknown THEN now ELSE unknownAt[k]]
  BY DEF Frame
<1> DEFINE new(k) == IF match[k] = Nobody THEN Unmatched(old(k), now)
                     ELSE Conclude(Matched(old(k), match[k]), k \in win)
<1>2. /\ win \subseteq ready /\ ready \subseteq present /\ unknown \subseteq present
      /\ present \subseteq Keys /\ reaped = away /\ away \subseteq Keys \ present
      /\ clock \in Nat /\ now \in Nat /\ Cooldown \in Nat
  BY <1>1, InteractionAssumption DEF Confirming, Gone, IInv, InteractionTypeOK, Time
<1>3. /\ \A k \in ready : /\ match[k] \in Residents
                          /\ StreakReached(Matched(old(k), match[k]))
                          /\ ~InCooldown(match[k], now)
      /\ \A k \in present : /\ match[k] # Nobody => match[k] \in Residents
                            /\ match[k] # Nobody /\ ~InCooldown(match[k], now)
                               /\ StreakReached(Matched(old(k), match[k])) => k \in ready
      /\ \A k \in present : match[k] = Nobody /\ UnknownDue(old(k), now) <=> k \in unknown
  BY DEF Match
<1>4. \A k \in present :
        /\ sessions'[k] = new(k)
        /\ Sound(old(k)) /\ Sound(new(k))
        /\ new(k).lastSeen = now /\ new(k).firstSeen = old(k).firstSeen
        /\ match[k] = Nobody =>
             /\ new(k).state = "DETECTING" /\ new(k).streak = 0
             /\ new(k).unknownEmitted = (old(k).unknownEmitted \/ UnknownDue(old(k), now))
        /\ match[k] # Nobody =>
             /\ new(k).unknownEmitted = old(k).unknownEmitted
             /\ new(k).rid = match[k]
             /\ new(k).streak = Matched(old(k), match[k]).streak
             /\ new(k).state = "CONFIRMED" => k \in win \/ old(k).state = "CONFIRMED"
             /\ (Matched(old(k), match[k]).state = "CONFIRMED")
                   <=> (old(k).state = "CONFIRMED")
  <2> TAKE k \in present
  <2>1. InteractionTypeOK /\ PastOnly /\ (k \in win) \in BOOLEAN
    BY DEF IInv
  <2>2. sessions'[k] = new(k)
    BY <1>1, <1>2
  <2>3. new(k) = IF match[k] = Nobody THEN Unmatched(old(k), now)
                 ELSE Conclude(Matched(old(k), match[k]), k \in win)
    OBVIOUS
  <2>4. /\ present \in SUBSET Keys /\ match \in [present -> Match]
        /\ old(k) = Opened(sessions[k], now)
    OBVIOUS
  <2> DEFINE o == old(k)
             n == new(k)
             won == k \in win
  <2>6. /\ won \in BOOLEAN /\ o = Opened(sessions[k], now)
        /\ n = IF match[k] = Nobody THEN Unmatched(o, now)
               ELSE Conclude(Matched(o, match[k]), won)
    OBVIOUS
  <2> HIDE DEF reaped, away, ready, unknown, seen, old, new, present, o, n, won
  <2>5. /\ Sound(o) /\ Sound(n)
        /\ n.lastSeen = now /\ n.firstSeen = o.firstSeen
        /\ IF match[k] = Nobody
           THEN /\ n.state = "DETECTING" /\ n.streak = 0
                /\ n.unknownEmitted = (o.unknownEmitted \/ UnknownDue(o, now))
           ELSE /\ n.unknownEmitted = o.unknownEmitted
                /\ n.rid = match[k]
                /\ n.streak = Matched(o, match[k]).streak
                /\ n.state = "CONFIRMED" => won \/ o.state = "CONFIRMED"
                /\ (Matched(o, match[k]).state = "CONFIRMED")
                      <=> (o.state = "CONFIRMED")
    BY <2>1, <2>4, <2>6, FrameSessions
  <2> QED
    BY <2>2, <2>5 DEF o, n, won
<1>5. \A k \in present :
        /\ sessions[k] # Nobody => /\ old(k).firstSeen = sessions[k].firstSeen
                                   /\ old(k).unknownEmitted = sessions[k].unknownEmitted
                                   /\ old(k).state = sessions[k].state
        /\ sessions[k] = Nobody => old(k).firstSeen = now /\ old(k).state = "DETECTING"
  <2> TAKE k \in present
  <2>1. /\ sessions[k] \in Session \cup {Nobody}
        /\ sessions[k] # Nobody => Sound(sessions[k]) /\ sessions[k].lastSeen <= now
    BY <1>2 DEF IInv, InteractionTypeOK, PastOnly, Sound, Session, Time
  <2> QED
    BY <2>1, OpenedSound
<1>6. \A k \in Keys \ present :
        /\ sessions'[k] = Nobody \/ sessions'[k] = sessions[k]
        /\ sessions'[k] # Nobody => sessions'[k] = sessions[k] /\ greeted'[k] = greeted[k]
        /\ unknownAt'[k] = unknownAt[k]
  BY <1>1, <1>2, InteractionAssumption DEF IInv, InteractionTypeOK, Session
<1>7. /\ \A k \in present :
            /\ greeted'[k] = greeted[k] \cup (IF k \in win THEN {match[k]} ELSE {})
            /\ unknownAt'[k] = IF k \in unknown THEN now ELSE unknownAt[k]
      /\ \A r \in Residents : /\ (\E k \in win : match[k] = r) => lastConfirmed'[r] = now
                              /\ lastConfirmed'[r] \in {now, lastConfirmed[r]}
      /\ clock' = now
  BY <1>1, <1>2
<1>8. \A c \in confirms' : c \in confirms
        \/ \E k \in win : c = [rid |-> match[k], at |-> now, key |-> k]
  BY <1>1
<1>9. Nobody \notin Time
  BY InteractionAssumption DEF Time
<1> HIDE DEF present, reaped, away, old, seen, ready, unknown, new
<1>10. InteractionTypeOK'
  <2>1. clock' \in Time
    BY <1>7
  <2>2. sessions' \in [Keys -> Session \cup {Nobody}]
        /\ \A k \in Keys : sessions'[k] # Nobody => Sound(sessions'[k])
    <3>1. \A k \in Keys : \/ sessions'[k] = Nobody
                          \/ sessions'[k] \in Session /\ Sound(sessions'[k])
      BY <1>2, <1>4, <1>6 DEF IInv, InteractionTypeOK, Sound
    <3>2. \E f : sessions' = [k \in Keys |-> f[k]]
      BY <1>1
    <3> QED
      BY <3>1, <3>2
  <2>3. lastConfirmed' \in [Residents -> Time \cup {Nobody}]
    BY <1>1 DEF IInv, InteractionTypeOK
  <2>4. outcomes' \subseteq Outcome
    BY <1>1, <1>2, <1>3 DEF Outcome, Match
  <2> QED
    BY <2>1, <2>2, <2>3, <2>4 DEF InteractionTypeOK, Sound
<1>11. Histories'
  <2>1. confirms' \subseteq [rid : Residents, at : Time, key : Keys]
    BY <1>1, <1>2, <1>3 DEF IInv, Histories
  <2>2. greeted' \in [Keys -> SUBSET Residents]
    BY <1>1, <1>2, <1>3 DEF IInv, Histories
  <2>3. unknownAt' \in [Keys -> Time \cup {Nobody}]
    BY <1>1 DEF IInv, Histories
  <2> QED
    BY <2>1, <2>2, <2>3 DEF Histories
<1>12. PastOnly'
  <2>1. \A k \in Keys : sessions'[k] # Nobody => sessions'[k].lastSeen <= now
    <3> TAKE k \in Keys
    <3>1. CASE k \in present
      BY <3>1, <1>2, <1>4
    <3>2. CASE k \notin present
      BY <3>2, <1>2, <1>6 DEF IInv, InteractionTypeOK, PastOnly, Session, Time
    <3> QED
      BY <3>1, <3>2
  <2>2. \A r \in Residents : lastConfirmed'[r] # Nobody => lastConfirmed'[r] <= now
    BY <1>2, <1>7 DEF IInv, InteractionTypeOK, PastOnly, Time
  <2>3. \A k \in Keys : unknownAt'[k] # Nobody => unknownAt'[k] <= now
    BY <1>1, <1>2 DEF IInv, Histories, PastOnly, Time
  <2> QED
    BY <1>7, <2>1, <2>2, <2>3 DEF PastOnly
<1>13. ConfirmsBounded'
  <2> SUFFICES ASSUME NEW c \in confirms'
               PROVE  lastConfirmed'[c.rid] # Nobody /\ c.at <= lastConfirmed'[c.rid]
    BY DEF ConfirmsBounded
  <2>1. CASE c \in confirms
    <3>1. /\ c.rid \in Residents /\ c.at \in Nat
          /\ lastConfirmed[c.rid] # Nobody /\ c.at <= lastConfirmed[c.rid]
          /\ lastConfirmed[c.rid] <= clock /\ lastConfirmed[c.rid] \in Nat
      BY <2>1 DEF IInv, InteractionTypeOK, Histories, ConfirmsBounded, PastOnly, Time
    <3> QED
      BY <3>1, <1>2, <1>7, <1>9
  <2>2. CASE c \notin confirms
    <3>1. PICK k \in win : c = [rid |-> match[k], at |-> now, key |-> k]
      BY <2>2, <1>8
    <3>2. match[k] \in Residents
      BY <1>2, <1>3
    <3> QED
      BY <3>1, <3>2, <1>2, <1>7, <1>9
  <2> QED
    BY <2>1, <2>2
<1>14. CooldownHolds'
  <2> SUFFICES ASSUME NEW a \in confirms', NEW b \in confirms', a.rid = b.rid, a # b
               PROVE  a.at - b.at >= Cooldown \/ b.at - a.at >= Cooldown
    BY DEF CooldownHolds
  <2>1. ASSUME NEW k \in win, NEW c \in confirms, c.rid = match[k]
        PROVE  c.at \in Nat /\ now - c.at >= Cooldown
    <3>1. /\ c.rid \in Residents /\ c.at \in Nat
          /\ lastConfirmed[c.rid] # Nobody /\ c.at <= lastConfirmed[c.rid]
          /\ lastConfirmed[c.rid] \in Nat
      BY <2>1 DEF IInv, InteractionTypeOK, Histories, ConfirmsBounded, Time
    <3>2. ~InCooldown(match[k], now)
      BY <1>2, <1>3
    <3> QED
      BY <2>1, <3>1, <3>2, <1>2 DEF InCooldown
  <2>2. CASE a \in confirms /\ b \in confirms
    BY <2>2 DEF IInv, CooldownHolds
  <2>3. CASE a \in confirms /\ b \notin confirms
    BY <2>1, <2>3, <1>8
  <2>4. CASE a \notin confirms /\ b \in confirms
    BY <2>1, <2>4, <1>8
  <2>5. CASE a \notin confirms /\ b \notin confirms
    <3>1. PICK i \in win : a = [rid |-> match[i], at |-> now, key |-> i]
      BY <2>5, <1>8
    <3>2. PICK j \in win : b = [rid |-> match[j], at |-> now, key |-> j]
      BY <2>5, <1>8
    <3>3. match[i] = match[j] /\ i # j
      BY <3>1, <3>2
    <3>4. ready \in SUBSET Keys /\ i \in ready
      BY <1>2
    <3>5. Cooldown = 0
      BY <3>3, <3>4, Winners
    <3> QED
      BY <3>1, <3>2, <3>5, <1>2
  <2> QED
    BY <2>2, <2>3, <2>4, <2>5
<1>15. ReportedBefore'
  <2> SUFFICES ASSUME NEW k \in Keys, sessions'[k] # Nobody, unknownAt'[k] # Nobody
               PROVE  \/ sessions'[k].unknownEmitted
                      \/ sessions'[k].firstSeen > unknownAt'[k]
    BY DEF ReportedBefore
  <2>1. CASE k \notin present
    BY <2>1, <1>6 DEF IInv, ReportedBefore
  <2>2. CASE k \in unknown
    BY <2>2, <1>2, <1>3, <1>4
  <2>3. CASE k \in present \ unknown
    <3>1. unknownAt'[k] = unknownAt[k]
      BY <2>3, <1>7
    <3>2. CASE sessions[k] = Nobody
      BY <2>3, <3>1, <3>2, <1>2, <1>4, <1>5
         DEF IInv, Histories, PastOnly, Time
    <3>3. CASE sessions[k] # Nobody
      <4>1. sessions[k].unknownEmitted \/ sessions[k].firstSeen > unknownAt[k]
        BY <3>1, <3>3 DEF IInv, ReportedBefore
      <4>2. sessions[k].unknownEmitted => new(k).unknownEmitted
        BY <2>3, <3>3, <1>4, <1>5
      <4>3. new(k).firstSeen = sessions[k].firstSeen
        BY <2>3, <3>3, <1>4, <1>5
      <4> QED
        BY <2>3, <3>1, <4>1, <4>2, <4>3, <1>4
    <3> QED
      BY <3>2, <3>3
  <2> QED
    BY <2>1, <2>2, <2>3
<1>16. \A k \in present : new(k).state = "CONFIRMED" => greeted'[k] # {}
  <2> SUFFICES ASSUME NEW k \in present, new(k).state = "CONFIRMED"
               PROVE  greeted'[k] # {}
    OBVIOUS
  <2>1. match[k] # Nobody
    BY <1>4
  <2>2. k \in win \/ old(k).state = "CONFIRMED"
    BY <2>1, <1>4
  <2>3. CASE k \in win
    BY <2>3, <1>7
  <2>4. CASE old(k).state = "CONFIRMED"
    BY <2>4, <1>2, <1>5, <1>7 DEF IInv, ConfirmedGreeted
  <2> QED
    BY <2>2, <2>3, <2>4
<1>17. ConfirmedGreeted'
  BY <1>2, <1>4, <1>6, <1>16 DEF IInv, ConfirmedGreeted
<1>18. StreakConfirmed'
  <2> SUFFICES ASSUME NEW k \in Keys, HasStreak(k)', greeted'[k] \subseteq {sessions'[k].rid}
               PROVE  ResidentGreeted(k)'
    BY DEF StreakConfirmed
  <2>1. sessions'[k] # Nobody /\ sessions'[k].lastSeen = now
        /\ sessions'[k].streak >= ConfirmStreak
    BY <1>7 DEF HasStreak, InFrame
  <2>2. k \in present
    BY <2>1, <1>2, <1>6 DEF IInv, InteractionTypeOK, PastOnly, Session, Time
  <2>3. match[k] # Nobody
    BY <2>1, <2>2, <1>4, InteractionAssumption
  <2> DEFINE r == match[k]
  <2>4. /\ r \in Residents /\ sessions'[k].rid = r
        /\ StreakReached(Matched(old(k), r)) <=> old(k).state # "CONFIRMED"
    BY <2>1, <2>2, <2>3, <1>3, <1>4 DEF StreakReached
  <2>5. CASE k \in win
    BY <2>2, <2>4, <2>5, <1>7 DEF ResidentGreeted
  <2>6. CASE new(k).state = "CONFIRMED"
    BY <2>2, <2>4, <2>6, <1>4, <1>16 DEF ResidentGreeted
  <2>7. CASE InCooldown(r, now)
    <3>1. /\ lastConfirmed[r] # Nobody /\ now - lastConfirmed[r] < Cooldown
          /\ lastConfirmed[r] \in Nat /\ lastConfirmed[r] <= clock
      BY <2>4, <2>7 DEF InCooldown, IInv, InteractionTypeOK, PastOnly, Time
    <3> QED
      BY <2>4, <3>1, <1>2, <1>7, <1>9 DEF ResidentGreeted
  <2>8. CASE k \notin win /\ ~InCooldown(r, now) /\ old(k).state # "CONFIRMED"
    <3>1. k \in ready /\ ready \in SUBSET Keys
      BY <2>2, <2>3, <2>4, <2>8, <1>2, <1>3
    <3>2. Cooldown # 0 /\ \E w \in win : match[w] = r
      BY <2>8, <3>1, Winners
    <3> QED
      BY <2>4, <3>2, <1>2, <1>7, <1>9 DEF ResidentGreeted
  <2>9. CASE old(k).state = "CONFIRMED"
    <3>1. greeted[k] # {}
      BY <2>2, <2>9, <1>2, <1>5 DEF IInv, ConfirmedGreeted
    <3> QED
      BY <2>2, <2>4, <3>1, <1>7 DEF ResidentGreeted
  <2> QED
    BY <2>5, <2>7, <2>8, <2>9
<1> QED
  BY <1>10, <1>11, <1>12, <1>13, <1>14, <1>15, <1>17, <1>18 DEF IInv

\* An unknown outcome comes more than a window after the subject's last one.
LEMMA FrameSpaces ==
  ASSUME IInv, NEW now \in Time, clock < now, NEW match,
         DOMAIN match \in SUBSET Keys, match \in [DOMAIN match -> Match],
         Frame(now, match),
         NEW o \in outcomes', o.kind = "unknown", unknownAt[o.key] # Nobody
  PROVE  clock' - unknownAt[o.key] > UnknownAfter
<1> DEFINE k == o.key
           old == Opened(sessions[k], now)
<1>1. /\ clock' = now /\ k \in DOMAIN match /\ UnknownDue(old, now)
  BY DEF Frame
<1>2. /\ k \in Keys /\ now \in Nat /\ clock \in Nat /\ UnknownAfter \in Nat
      /\ unknownAt[k] \in Nat /\ unknownAt[k] <= clock
  BY <1>1, InteractionAssumption
     DEF IInv, InteractionTypeOK, Histories, PastOnly, Time
<1>3. /\ sessions[k] \in Session \cup {Nobody}
      /\ sessions[k] # Nobody => Sound(sessions[k]) /\ sessions[k].lastSeen <= now
  BY <1>2 DEF IInv, InteractionTypeOK, PastOnly, Sound, Session, Time
<1>4. /\ Sound(old)
      /\ sessions[k] # Nobody => /\ old.firstSeen = sessions[k].firstSeen
                                 /\ old.unknownEmitted = sessions[k].unknownEmitted
      /\ sessions[k] = Nobody => old.firstSeen = now
  BY <1>3, OpenedSound
<1>5. /\ ~old.unknownEmitted /\ now - old.firstSeen >= UnknownAfter
      /\ old.firstSeen \in Nat
  BY <1>1, <1>4 DEF UnknownDue, Sound, Session, Time
<1>6. old.firstSeen > unknownAt[k]
  BY <1>2, <1>4, <1>5 DEF IInv, ReportedBefore
<1> QED
  BY <1>1, <1>2, <1>5, <1>6

\* A reload only forgets sessions.
LEMMA DropKeeps ==
  ASSUME IInv, NEW keys \in SUBSET Keys, DropSessions(keys)
  PROVE  IInv'
<1>1. \A k \in Keys :
        /\ sessions'[k] = Nobody \/ sessions'[k] = sessions[k]
        /\ sessions'[k] # Nobody => sessions'[k] = sessions[k] /\ greeted'[k] = greeted[k]
  BY DEF DropSessions, IInv, InteractionTypeOK, Histories
<1>2. UNCHANGED <<clock, lastConfirmed, confirms, unknownAt>> /\ outcomes' = {}
  BY DEF DropSessions
<1>3. InteractionTypeOK'
  <2>1. sessions' \in [Keys -> Session \cup {Nobody}]
    BY DEF DropSessions, IInv, InteractionTypeOK
  <2> QED
    BY <1>1, <1>2, <2>1 DEF IInv, InteractionTypeOK
<1>4. Histories'
  BY <1>2 DEF DropSessions, IInv, Histories
<1>5. PastOnly' /\ ConfirmsBounded' /\ CooldownHolds'
  BY <1>1, <1>2 DEF IInv, PastOnly, ConfirmsBounded, CooldownHolds
<1>6. ReportedBefore' /\ ConfirmedGreeted'
  BY <1>1, <1>2 DEF IInv, ReportedBefore, ConfirmedGreeted
<1>7. StreakConfirmed'
  BY <1>1, <1>2
     DEF IInv, StreakConfirmed, HasStreak, InFrame, ResidentGreeted
<1> QED
  BY <1>3, <1>4, <1>5, <1>6, <1>7 DEF IInv

-----------------------------------------------------------------------------
LEMMA FrameArguments ==
  ASSUME InteractionTypeOK, NEW dt \in Steps, NEW present \in SUBSET Keys,
         NEW match \in [present -> Match], clock + dt <= MaxClock
  PROVE  /\ clock + dt \in Time /\ clock < clock + dt
         /\ DOMAIN match \in SUBSET Keys /\ match \in [DOMAIN match -> Match]
BY InteractionAssumption DEF InteractionTypeOK, Time

LEMMA StepKeeps == IInv /\ [Next]_vars => IInv'
<1> SUFFICES ASSUME IInv, [Next]_vars PROVE IInv'
  OBVIOUS
<1>1. ASSUME NEW dt \in Steps, NEW present \in SUBSET Keys,
             NEW match \in [present -> Match],
             clock + dt <= MaxClock, Frame(clock + dt, match)
      PROVE  IInv'
  <2>1. InteractionTypeOK
    BY DEF IInv
  <2> QED
    BY <1>1, <2>1, FrameArguments, FrameKeeps
<1>2. ASSUME NEW keys \in SUBSET Keys \ {{}}, DropSessions(keys)
      PROVE  IInv'
  BY <1>2, DropKeeps
<1>3. CASE UNCHANGED vars
  BY <1>3 DEF vars, histories, IInv, InteractionTypeOK, Histories, PastOnly,
     ConfirmsBounded, CooldownHolds, ReportedBefore, ConfirmedGreeted,
     StreakConfirmed, HasStreak, InFrame, ResidentGreeted
<1> QED
  BY <1>1, <1>2, <1>3 DEF Next

LEMMA StepSpaces ==
  IInv /\ [Next]_vars =>
    [\A o \in outcomes' :
       outcomes' # outcomes /\ o.kind = "unknown" /\ unknownAt[o.key] # Nobody
         => clock' - unknownAt[o.key] > UnknownAfter]_vars
<1> SUFFICES ASSUME IInv, Next, NEW o \in outcomes', outcomes' # outcomes,
                    o.kind = "unknown", unknownAt[o.key] # Nobody
             PROVE  clock' - unknownAt[o.key] > UnknownAfter
  OBVIOUS
<1>1. ASSUME NEW dt \in Steps, NEW present \in SUBSET Keys,
             NEW match \in [present -> Match],
             clock + dt <= MaxClock, Frame(clock + dt, match)
      PROVE  clock' - unknownAt[o.key] > UnknownAfter
  <2>1. InteractionTypeOK
    BY DEF IInv
  <2> QED
    BY <1>1, <2>1, FrameArguments, FrameSpaces
<1>2. ASSUME NEW keys \in SUBSET Keys \ {{}}, DropSessions(keys)
      PROVE  FALSE
  BY <1>2 DEF DropSessions
<1> QED
  BY <1>1, <1>2 DEF Next

\* The invariant of the sessions holds in every reachable state.
THEOREM InteractionInvariant == Spec => []IInv
<1> QED
  BY InitSound, StepKeeps, PTL DEF Spec

\* Every variable of interaction.h keeps its type, and exactly the sessions in
\* the state DETECTING name nobody.
THEOREM InteractionTypeCorrect == Spec => []InteractionTypeOK
<1>1. IInv => InteractionTypeOK
  BY DEF IInv
<1> QED
  BY <1>1, InteractionInvariant, PTL

\* interaction.h 18-20 and 86-87: confirmations of one resident are at least
\* the cooldown apart and unknown reports of one subject more than a window.
THEOREM ReportsAreSpaced == Spec => ReportsSpaced
<1>1. IInv => CooldownHolds
  BY DEF IInv
<1>2. Spec => []CooldownHolds
  BY <1>1, InteractionInvariant, PTL
<1>3. Spec => UnknownSpaced
  BY InteractionInvariant, StepSpaces, PTL DEF Spec, UnknownSpaced
<1> QED
  BY <1>2, <1>3 DEF ReportsSpaced

\* interaction.cpp 118-123: whoever reaches the streak is confirmed, unless the
\* cooldown still runs or the session confirmed somebody else.
THEOREM StreaksAreConfirmed == Spec => []StreakConfirmed
<1>1. IInv => StreakConfirmed
  BY DEF IInv
<1> QED
  BY <1>1, InteractionInvariant, PTL

-----------------------------------------------------------------------------
(* The streak is a run of matches.                                          *)

Capped(n) == IF n > ConfirmStreak THEN ConfirmStreak ELSE n

\* The matches e of a session end in its resident, as often as its streak says.
Follows(e, s) ==
  /\ Len(e) >= 1 /\ e[Len(e)] = s.rid
  /\ s.rid # Nobody =>
       /\ s.streak >= 1 /\ Capped(s.streak) <= Len(e)
       /\ \A j \in 0 .. Capped(s.streak) - 1 : e[Len(e) - j] = s.rid
       /\ Capped(s.streak) < Len(e) => e[Len(e) - Capped(s.streak)] # s.rid

EvidenceInv ==
  \A k \in Keys :
    /\ evidence[k] \in Seq(Match) /\ Len(evidence[k]) <= ConfirmStreak
    /\ IF sessions[k] = Nobody THEN evidence[k] = <<>>
       ELSE Follows(evidence[k], sessions[k])

\* t is e with the match x at its end and the oldest match gone if need be,
\* counted from the end.
Extends(t, e, x) ==
  /\ t \in Seq(Match)
  /\ Len(t) = Capped(Len(e) + 1) /\ Len(t) >= 1
  /\ t[Len(t)] = x
  /\ \A j \in 1 .. Len(t) - 1 : t[Len(t) - j] = e[Len(e) - (j - 1)]

LEMMA LastMatches ==
  ASSUME NEW e \in Seq(Match), Len(e) <= ConfirmStreak, NEW x \in Match
  PROVE  Extends(LastOf(Append(e, x), ConfirmStreak), e, x)
<1> DEFINE t == LastOf(Append(e, x), ConfirmStreak)
           a == Append(e, x)
           low == IF Len(a) > ConfirmStreak THEN Len(a) - ConfirmStreak + 1 ELSE 1
<1>1. /\ Len(e) \in Nat /\ ConfirmStreak \in Nat /\ ConfirmStreak >= 1
      /\ a \in Seq(Match) /\ Len(a) = Len(e) + 1
      /\ a[Len(e) + 1] = x /\ \A i \in 1 .. Len(e) : a[i] = e[i]
  BY AppendProperties, LenProperties, InteractionAssumption
<1>2. /\ t = SubSeq(a, low, Len(a)) /\ low \in 1 .. 2 /\ low <= Len(a)
      /\ Len(a) - low + 1 = Capped(Len(e) + 1)
  BY <1>1 DEF LastOf, Capped
<1> HIDE DEF a, low, t
<1>3. /\ t \in Seq(Match) /\ Len(t) = Len(a) - low + 1
      /\ \A i \in 1 .. Len(t) : t[i] = a[low + i - 1]
  BY <1>1, <1>2, SubSeqProperties
<1>4. Len(t) >= 1 /\ Len(t) \in Nat /\ low + Len(t) - 1 = Len(e) + 1
  BY <1>1, <1>2, <1>3
<1>5. t[Len(t)] = x
  BY <1>1, <1>3, <1>4
<1>6. ASSUME NEW j \in 1 .. Len(t) - 1
      PROVE  t[Len(t) - j] = e[Len(e) - (j - 1)]
  <2>1. /\ Len(t) - j \in 1 .. Len(t)
        /\ low + (Len(t) - j) - 1 = Len(e) - (j - 1)
        /\ Len(e) - (j - 1) \in 1 .. Len(e)
    BY <1>1, <1>2, <1>4
  <2>2. t[Len(t) - j] = a[low + (Len(t) - j) - 1]
    BY <1>3, <2>1
  <2> QED
    BY <1>1, <2>1, <2>2
<1>7. Extends(t, e, x)
  BY <1>2, <1>3, <1>4, <1>5, <1>6 DEF Extends
<1> QED
  BY <1>7 DEF t

\* A match goes on with a run, or begins one.
LEMMA RunGoesOn ==
  ASSUME NEW e \in Seq(Match), Len(e) <= ConfirmStreak,
         NEW s \in Session \cup {Nobody},
         IF s = Nobody THEN e = <<>> ELSE Follows(e, s),
         NEW x \in Match, NEW new, new.rid = x,
         x # Nobody =>
           new.streak = IF s # Nobody /\ s.rid = x THEN s.streak + 1 ELSE 1,
         NEW t, Extends(t, e, x)
  PROVE  t \in Seq(Match) /\ Len(t) <= ConfirmStreak /\ Follows(t, new)
<1>1. /\ t \in Seq(Match) /\ Len(t) = Capped(Len(e) + 1) /\ Len(t) >= 1
      /\ t[Len(t)] = x
      /\ \A j \in 1 .. Len(t) - 1 : t[Len(t) - j] = e[Len(e) - (j - 1)]
  BY DEF Extends
<1>2. /\ Len(e) \in Nat /\ ConfirmStreak \in Nat /\ ConfirmStreak >= 1
      /\ Len(t) \in Nat /\ Len(t) <= ConfirmStreak
  BY <1>1, LenProperties, InteractionAssumption DEF Capped
<1>3. CASE x = Nobody
  BY <1>1, <1>2, <1>3 DEF Follows
<1>4. CASE x # Nobody /\ s # Nobody /\ s.rid = x
  <2> DEFINE n == Capped(s.streak)
             m == Capped(new.streak)
  <2>1. s.streak \in Nat /\ s.streak >= 1 /\ new.streak = s.streak + 1
    BY <1>4 DEF Session, Follows
  <2>2. /\ n \in Nat /\ m \in Nat /\ n >= 1 /\ n <= Len(e)
        /\ m = Capped(n + 1) /\ m <= Len(t)
        /\ m < Len(t) => m = n + 1 /\ n < Len(e)
    <3>1. n <= Len(e) /\ Len(e) <= ConfirmStreak
      BY <1>4 DEF Follows
    <3>2. n \in Nat /\ n >= 1 /\ n = IF s.streak > ConfirmStreak THEN ConfirmStreak ELSE s.streak
      BY <1>2, <2>1 DEF Capped
    <3>3. m = IF s.streak + 1 > ConfirmStreak THEN ConfirmStreak ELSE s.streak + 1
      BY <2>1 DEF Capped
    <3>4. Len(t) = IF Len(e) + 1 > ConfirmStreak THEN ConfirmStreak ELSE Len(e) + 1
      BY <1>1 DEF Capped
    <3>5. Capped(n + 1) = IF n + 1 > ConfirmStreak THEN ConfirmStreak ELSE n + 1
      BY DEF Capped
    <3> HIDE DEF n, m
    <3>6. CASE s.streak >= ConfirmStreak
      <4>1. n = ConfirmStreak /\ m = ConfirmStreak /\ Capped(n + 1) = ConfirmStreak
        BY <1>2, <2>1, <3>2, <3>3, <3>5, <3>6
      <4>2. Len(t) = ConfirmStreak
        BY <1>2, <3>1, <3>4, <4>1
      <4> QED
        BY <1>2, <3>1, <4>1, <4>2
    <3>7. CASE s.streak < ConfirmStreak
      <4>1. n = s.streak /\ m = n + 1 /\ Capped(n + 1) = n + 1
        BY <1>2, <2>1, <3>2, <3>3, <3>5, <3>7
      <4>2. m <= Len(t) /\ (m < Len(t) => n < Len(e))
        BY <1>2, <2>1, <3>1, <3>4, <3>7, <4>1
      <4> QED
        BY <1>2, <2>1, <3>1, <3>2, <4>1, <4>2
    <3> QED
      BY <1>2, <2>1, <3>6, <3>7
  <2>3. /\ \A j \in 0 .. n - 1 : e[Len(e) - j] = x
        /\ n < Len(e) => e[Len(e) - n] # x
    BY <1>4 DEF Follows
  <2> HIDE DEF n, m
  <2>4. ASSUME NEW j \in 0 .. m - 1
        PROVE  t[Len(t) - j] = x
    <3>1. CASE j = 0
      BY <1>1, <1>2, <3>1
    <3>2. CASE j # 0
      <4>1. j \in 1 .. Len(t) - 1 /\ j - 1 \in 0 .. n - 1
        BY <1>2, <2>2, <3>2 DEF Capped
      <4> QED
        BY <1>1, <2>3, <4>1
    <3> QED
      BY <3>1, <3>2
  <2>5. ASSUME m < Len(t)
        PROVE  t[Len(t) - m] # x
    <3>1. m \in 1 .. Len(t) - 1 /\ m - 1 = n /\ n < Len(e)
      BY <1>2, <2>2, <2>5
    <3> QED
      BY <1>1, <2>3, <3>1
  <2>6. new.streak >= 1
    BY <2>1
  <2> QED
    BY <1>1, <1>2, <2>2, <2>4, <2>5, <2>6 DEF Follows, m
<1>5. CASE x # Nobody /\ ~(s # Nobody /\ s.rid = x)
  <2>1. new.streak = 1 /\ Capped(new.streak) = 1
    BY <1>2, <1>5 DEF Capped
  <2>2. \A j \in 0 .. 0 : t[Len(t) - j] = x
    BY <1>1, <1>2
  <2>3. ASSUME 1 < Len(t)
        PROVE  t[Len(t) - 1] # x
    <3>1. Len(e) >= 1 /\ s # Nobody
      BY <1>1, <1>2, <2>3 DEF Capped
    <3>2. t[Len(t) - 1] = e[Len(e) - (1 - 1)] /\ Len(e) - (1 - 1) = Len(e)
      BY <1>1, <1>2, <2>3
    <3>3. e[Len(e)] = s.rid
      BY <3>1 DEF Follows
    <3> QED
      BY <1>5, <3>1, <3>2, <3>3
  <2> QED
    BY <1>1, <1>2, <2>1, <2>2, <2>3 DEF Follows
<1> QED
  BY <1>2, <1>1, <1>3, <1>4, <1>5

\* What a frame writes into a session.
LEMMA StreakOfFrame ==
  ASSUME NEW s \in Session \cup {Nobody}, NEW now \in Time, NEW x \in Match,
         NEW confirmed \in BOOLEAN, NEW new,
         new = IF x = Nobody THEN Unmatched(Opened(s, now), now)
               ELSE Conclude(Matched(Opened(s, now), x), confirmed)
  PROVE  /\ new.rid = x
         /\ x # Nobody => new.streak = IF s # Nobody /\ s.rid = x THEN s.streak + 1 ELSE 1
<1> DEFINE o == Opened(s, now)
<1>1. /\ o = [state |-> o.state, rid |-> o.rid, streak |-> o.streak,
              firstSeen |-> o.firstSeen, lastSeen |-> o.lastSeen,
              unknownEmitted |-> o.unknownEmitted]
      /\ s = Nobody => o.rid = Nobody
      /\ s # Nobody => o.rid = s.rid /\ o.streak = s.streak
  BY DEF Opened, Session
<1>2. new = IF x = Nobody THEN Unmatched(o, now) ELSE Conclude(Matched(o, x), confirmed)
  OBVIOUS
<1> HIDE DEF o
<1>3. CASE x = Nobody
  BY <1>1, <1>2, <1>3 DEF Unmatched
<1>4. CASE x # Nobody
  <2> DEFINE m == Matched(o, x)
             streak == IF o.rid = x THEN o.streak + 1 ELSE 1
             state == IF o.state = "DETECTING" THEN "MATCHED" ELSE o.state
  <2>0. m = [o EXCEPT !.rid = x, !.streak = streak, !.state = state]
    BY <1>1 DEF Matched
  <2> HIDE DEF streak, state, m
  <2>1. /\ m.rid = x /\ m.streak = streak
        /\ m = [state |-> m.state, rid |-> m.rid, streak |-> m.streak,
                firstSeen |-> m.firstSeen, lastSeen |-> m.lastSeen,
                unknownEmitted |-> m.unknownEmitted]
    BY <1>1, <2>0
  <2>2. new = Conclude(m, confirmed)
    BY <1>2, <1>4 DEF m
  <2>3. new.rid = x /\ new.streak = streak
    BY <2>1, <2>2 DEF Conclude
  <2> QED
    BY <1>1, <1>4, <2>3, InteractionAssumption DEF streak
<1> QED
  BY <1>3, <1>4

LEMMA FrameEvidence ==
  ASSUME IInv, EvidenceInv, NEW now \in Time, NEW match,
         DOMAIN match \in SUBSET Keys, match \in [DOMAIN match -> Match],
         Frame(now, match), clock < now
  PROVE  EvidenceInv'
<1> SUFFICES ASSUME NEW k \in Keys
             PROVE  /\ evidence'[k] \in Seq(Match)
                    /\ Len(evidence'[k]) <= ConfirmStreak
                    /\ IF sessions'[k] = Nobody THEN evidence'[k] = <<>>
                       ELSE Follows(evidence'[k], sessions'[k])
  BY DEF EvidenceInv, Follows
<1> DEFINE s == sessions[k]
           e == evidence[k]
<1>1. /\ e \in Seq(Match) /\ Len(e) <= ConfirmStreak
      /\ IF s = Nobody THEN e = <<>> ELSE Follows(e, s)
      /\ s \in Session \cup {Nobody}
  BY DEF EvidenceInv, IInv, InteractionTypeOK
<1>2. <<>> \in Seq(Match) /\ Len(<<>>) = 0 /\ 0 <= ConfirmStreak
  BY InteractionAssumption
<1>3. CASE k \in DOMAIN match
  <2>1. PICK confirmed \in BOOLEAN :
          /\ sessions'[k] = IF match[k] = Nobody THEN Unmatched(Opened(s, now), now)
                            ELSE Conclude(Matched(Opened(s, now), match[k]), confirmed)
          /\ evidence'[k] = LastOf(Append(e, match[k]), ConfirmStreak)
    <3> DEFINE present == DOMAIN match
               reaped == {c \in Keys \ present : Gone(sessions[c], now)}
               seen(c) == IF match[c] = Nobody THEN Unmatched(Opened(sessions[c], now), now)
                          ELSE Matched(Opened(sessions[c], now), match[c])
    <3>1. PICK win :
            /\ sessions' = [c \in Keys |->
                              IF c \in reaped THEN Nobody
                              ELSE IF c \in present
                              THEN IF match[c] = Nobody THEN seen(c)
                                   ELSE Conclude(seen(c), c \in win)
                              ELSE sessions[c]]
            /\ evidence'[k] = LastOf(Append(evidence[k], match[k]), ConfirmStreak)
      BY <1>3 DEF Frame
    <3>2. k \notin reaped /\ k \in present
      BY <1>3
    <3> DEFINE won == k \in win
    <3>3. /\ sessions'[k] = IF match[k] = Nobody THEN Unmatched(Opened(s, now), now)
                            ELSE Conclude(Matched(Opened(s, now), match[k]), won)
          /\ won \in BOOLEAN
      BY <3>1, <3>2
    <3> HIDE DEF won
    <3> QED
      BY <3>1, <3>3
  <2>2. match[k] \in Match
    BY <1>3
  <2> DEFINE new == sessions'[k]
             t == evidence'[k]
  <2>3. /\ new.rid = match[k]
        /\ match[k] # Nobody =>
             new.streak = IF s # Nobody /\ s.rid = match[k] THEN s.streak + 1 ELSE 1
    <3> DEFINE x == match[k]
    <3>1. /\ x \in Match /\ s \in Session \cup {Nobody}
          /\ new = IF x = Nobody THEN Unmatched(Opened(s, now), now)
                   ELSE Conclude(Matched(Opened(s, now), x), confirmed)
      BY <1>1, <2>1, <2>2
    <3> HIDE DEF s, new, x
    <3>2. /\ new.rid = x
          /\ x # Nobody => new.streak = IF s # Nobody /\ s.rid = x THEN s.streak + 1 ELSE 1
      BY <3>1, StreakOfFrame
    <3> QED
      BY <3>2 DEF x
  <2>4. new # Nobody
    <3>1. InteractionTypeOK /\ PastOnly
      BY DEF IInv
    <3>2. Sound(new)
      BY <1>3, <2>1, <3>1, FrameSessions
    <3> QED
      BY <3>2, NobodyAssumption DEF Sound
  <2>5. t \in Seq(Match) /\ Len(t) <= ConfirmStreak /\ Follows(t, new)
    <3> DEFINE x == match[k]
    <3>1. x \in Match /\ t = LastOf(Append(e, x), ConfirmStreak)
      BY <2>1, <2>2
    <3>2. /\ new.rid = x
          /\ x # Nobody => new.streak = IF s # Nobody /\ s.rid = x THEN s.streak + 1 ELSE 1
      BY <2>3
    <3> HIDE DEF s, e, new, t, x
    <3>3. Extends(t, e, x)
      BY <1>1, <3>1, LastMatches
    <3> QED
      BY <1>1, <3>1, <3>2, <3>3, RunGoesOn
  <2> QED
    BY <2>4, <2>5
<1>4. CASE k \notin DOMAIN match
  <2>1. CASE s # Nobody /\ now - s.lastSeen > ReapGrace
    <3>1. sessions'[k] = Nobody /\ evidence'[k] = <<>>
      BY <1>4, <2>1 DEF Frame, Gone
    <3> QED
      BY <1>2, <3>1
  <2>2. CASE ~(s # Nobody /\ now - s.lastSeen > ReapGrace)
    <3>1. sessions'[k] = s /\ evidence'[k] = e
      BY <1>4, <2>2 DEF Frame, Gone
    <3> QED
      BY <1>1, <3>1
  <2> QED
    BY <2>1, <2>2
<1> QED
  BY <1>3, <1>4

LEMMA EvidenceKept == IInv /\ EvidenceInv /\ [Next]_vars => EvidenceInv'
<1> SUFFICES ASSUME IInv, EvidenceInv, [Next]_vars
             PROVE  EvidenceInv'
  OBVIOUS
<1>1. ASSUME NEW dt \in Steps, NEW present \in SUBSET Keys,
             NEW match \in [present -> Match],
             clock + dt <= MaxClock, Frame(clock + dt, match)
      PROVE  EvidenceInv'
  <2>1. InteractionTypeOK
    BY DEF IInv
  <2> QED
    BY <1>1, <2>1, FrameArguments, FrameEvidence
<1>2. ASSUME NEW keys \in SUBSET Keys \ {{}}, DropSessions(keys)
      PROVE  EvidenceInv'
  <2> SUFFICES ASSUME NEW k \in Keys
               PROVE  /\ evidence'[k] \in Seq(Match)
                      /\ Len(evidence'[k]) <= ConfirmStreak
                      /\ IF sessions'[k] = Nobody THEN evidence'[k] = <<>>
                         ELSE Follows(evidence'[k], sessions'[k])
    BY DEF EvidenceInv, Follows
  <2>1. CASE k \in keys
    BY <1>2, <2>1, InteractionAssumption DEF DropSessions
  <2>2. CASE k \notin keys
    BY <1>2, <2>2 DEF DropSessions, EvidenceInv
  <2> QED
    BY <2>1, <2>2
<1>3. CASE UNCHANGED vars
  BY <1>3 DEF vars, histories, EvidenceInv, Follows
<1> QED
  BY <1>1, <1>2, <1>3 DEF Next

\* The longest end of a subject's matches that names one resident.
LEMMA RunOfFollows ==
  ASSUME IInv, EvidenceInv, NEW k \in Keys, sessions[k] # Nobody, NEW rid \in Residents
  PROVE  Cardinality(Run(k, rid)) =
           IF sessions[k].rid # rid THEN 0 ELSE Capped(sessions[k].streak)
<1> DEFINE s == sessions[k]
           e == evidence[k]
           n == Capped(s.streak)
<1>1. /\ e \in Seq(Match) /\ Len(e) \in Nat /\ Len(e) >= 1 /\ e[Len(e)] = s.rid
      /\ s.streak \in Nat /\ rid # Nobody /\ ConfirmStreak \in Nat
  BY LenProperties, InteractionAssumption
     DEF EvidenceInv, Follows, IInv, InteractionTypeOK, Session
<1>2. CASE s.rid # rid
  <2>1. Run(k, rid) = {}
    BY <1>1, <1>2 DEF Run
  <2> QED
    BY <1>2, <2>1, FS_EmptySet
<1>3. CASE s.rid = rid
  <2>1. /\ n \in Nat /\ 1 <= n /\ n <= Len(e)
        /\ \A j \in 0 .. n - 1 : e[Len(e) - j] = rid
        /\ n < Len(e) => e[Len(e) - n] # rid
    <3>1. Follows(e, s) /\ s.rid = rid /\ s.rid # Nobody
      BY <1>1, <1>3 DEF EvidenceInv
    <3>2. /\ s.streak >= 1 /\ n <= Len(e)
          /\ \A j \in 0 .. n - 1 : e[Len(e) - j] = rid
          /\ n < Len(e) => e[Len(e) - n] # rid
      BY <3>1 DEF Follows
    <3>3. n \in Nat /\ 1 <= n
      BY <1>1, <3>2, InteractionAssumption DEF Capped
    <3> QED
      BY <3>2, <3>3
  <2> HIDE DEF n
  <2>2. Run(k, rid) = Len(e) - n + 1 .. Len(e)
    <3>1. ASSUME NEW i \in Len(e) - n + 1 .. Len(e)
          PROVE  i \in 1 .. Len(e) /\ e[i] = rid
      <4> DEFINE j == Len(e) - i
      <4>1. j \in 0 .. n - 1 /\ Len(e) - j = i /\ i \in 1 .. Len(e)
        BY <1>1, <2>1
      <4> HIDE DEF e, j
      <4> QED
        BY <2>1, <4>1
    <3>2. ASSUME NEW i \in 1 .. Len(e), ~(i \in Len(e) - n + 1 .. Len(e))
          PROVE  i \notin Run(k, rid)
      <4>1. n < Len(e) /\ Len(e) - n \in i .. Len(e)
        BY <1>1, <2>1, <3>2
      <4> QED
        BY <2>1, <4>1 DEF Run
    <3>3. \A i \in Len(e) - n + 1 .. Len(e) : i \in Run(k, rid)
      BY <1>1, <2>1, <3>1 DEF Run
    <3>4. Run(k, rid) \subseteq 1 .. Len(e)
      BY DEF Run
    <3> QED
      BY <3>2, <3>3, <3>4
  <2>3. Cardinality(Len(e) - n + 1 .. Len(e)) = n
    <3>1. /\ Len(e) - n + 1 \in Int /\ Len(e) \in Int
          /\ ~(Len(e) - n + 1 > Len(e)) /\ Len(e) - (Len(e) - n + 1) + 1 = n
      BY <1>1, <2>1
    <3> QED
      BY <3>1, FS_Interval
  <2> QED
    BY <1>3, <2>2, <2>3 DEF n
<1> QED
  BY <1>2, <1>3

\* interaction.cpp 104-110: the streak of a session is the number of matches of
\* its resident that it ends in, up to the length that confirms, whatever
\* unmatched frames, other residents, absences and reloads came before.
THEOREM StreaksAreEvidence == Spec => []StreakIsEvidence
<1>1. Init => EvidenceInv
  BY InteractionAssumption DEF Init, EvidenceInv
<1>2. IInv /\ EvidenceInv => StreakIsEvidence
  BY RunOfFollows DEF StreakIsEvidence, Capped
<1> QED
  BY <1>1, <1>2, EvidenceKept, InteractionInvariant, PTL DEF Spec
=============================================================================
