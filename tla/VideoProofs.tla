---------------------------- MODULE VideoProofs ----------------------------
(***************************************************************************)
(* What becomes of the images of the camera: theorems about                *)
(* EventVideoRecorder, and about CabinConfig and VideoSlots.               *)
(*                                                                         *)
(* The recorder: the clips are what the camera saw, for every size of the  *)
(* pre-roll and of the queue, any frames and any moments at which somebody *)
(* comes or goes.  Everything that is still to be handled is one line of   *)
(* items, the queue and what the call under way has yet to put there: a    *)
(* call appends to it, the worker takes its head, and a full queue loses a *)
(* frame somewhere inside.  OrderInv compares the numbers of the frames in *)
(* the clips, in the line, in the pre-roll and in the hand of the capture  *)
(* thread; SessionInv says that each frame of the line follows the Start   *)
(* of its session or a frame of the same session, which survives the loss  *)
(* of any frame, and that the flag the calls look at is what the end of    *)
(* the line says.                                                          *)
(*                                                                         *)
(* The configuration, for every command line and patch: resolved values    *)
(* are in range exactly if the upper bound of the back-off that was chosen *)
(* is.                                                                     *)
(*                                                                         *)
(* The threads, for every number of images and drop-outs and every         *)
(* threshold: images are numbered as they come, and the number goes from   *)
(* the capture thread through two slots to the screen without falling      *)
(* behind itself, although each slot is overwritten at any time.           *)
(***************************************************************************)
EXTENDS EventVideoRecorder, VideoSlots, SequenceTheorems, FiniteSetTheorems,
        WellFoundedInduction, TLAPS

(***************************************************************************)
(* The recorder.                                                           *)
(***************************************************************************)

Line == queue \o todo

Entries(f) == {f[i] : i \in 1 .. Len(f)}
Coming == IF camera = NoFrame THEN {} ELSE {camera}
Taped(cs) == UNION {{cs[c].frames[i] : i \in 1 .. Len(cs[c].frames)} :
                      c \in 1 .. Len(cs)}

Older(A, B) == \A p \in A, q \in B : p.n < q.n

\* The frames among the items ascend.
Ascend(s) ==
  \A i, j \in 1 .. Len(s) :
    i < j /\ s[i].type = "frame" /\ s[j].type = "frame" =>
      s[i].frame.n < s[j].frame.n

Rising(f) == \A i, j \in 1 .. Len(f) : i < j => f[i].n < f[j].n

\* Frames T in the clips, the line s, frames H in the pre-roll and C in the
\* hand of the capture thread, the last of them number n.
Chronological(T, s, H, C, n) ==
  /\ Ascend(s)
  /\ Older(T, Pictures(s)) /\ Older(T, H) /\ Older(T, C)
  /\ Older(Pictures(s), H) /\ Older(Pictures(s), C) /\ Older(H, C)
  /\ \A p \in T \cup Pictures(s) \cup H \cup C : p.n <= n

OrderInv ==
  /\ FramesOnceInOrder /\ Rising(preRoll)
  /\ Chronological(Taped(clips), Line, Entries(preRoll), Coming, taken)

\* A frame of size z may follow item x.
Carries(x, z) ==
  \/ x.type = "start" /\ x.size = z
  \/ x.type = "frame" /\ x.frame.size = z

Chained(s) ==
  \A i \in 2 .. Len(s) :
    s[i].type = "frame" => Carries(s[i - 1], s[i].frame.size)

\* A worker in state w, with the files cs, may be given a frame of size z.
Shooting(w, cs, z) ==
  w = "failed" \/ (w = "open" /\ cs[Len(cs)].size = z)

\* That worker, the line s and the flag and the size the calls look at.
InStep(w, cs, s, on, z) ==
  /\ Chained(s)
  /\ s # <<>> /\ s[1].type = "frame" => Shooting(w, cs, s[1].frame.size)
  /\ on => IF s = <<>> THEN Shooting(w, cs, z) ELSE Carries(s[Len(s)], z)
  /\ ~on => IF s = <<>> THEN w \in {"idle", "exited"}
            ELSE s[Len(s)].type \in {"stop", "shutdown"}

OneSize(f) == \A i, j \in 1 .. Len(f) : f[i].size = f[j].size

SessionInv ==
  /\ skipped = {}
  /\ worker = "open" => clips # <<>>
  /\ closing = "closed" => todo = <<>>
  /\ closing \in {"ending", "join"} => ~active
  /\ InStep(worker, clips, Line, active, sessionSize)
  /\ OneSize(preRoll)
  /\ active => preRoll = <<>>

PersonInv ==
  /\ present \/ active => seenAt >= 0
  /\ active => lastPerson = seenAt \/ (lastPerson = -1 /\ resized)
  /\ present /\ ~active /\ closing = "no" => lastPerson = seenAt
  /\ StopsWhenEmpty

RecorderInv == RecorderTypeOK /\ OrderInv /\ SessionInv /\ PersonInv

-----------------------------------------------------------------------------
(* Items and sequences of them.                                             *)

LEMMA LeastOf ==
  ASSUME NEW T \in SUBSET Nat, T # {}
  PROVE  \E m \in T : \A k \in T : m <= k
<1> DEFINE R == {p \in Nat \X Nat : p[1] < p[2]}
<1>1. IsWellFoundedOn(R, Nat)
  BY NatLessThanWellFounded DEF OpToRel
<1>2. \A a, b \in Nat : a < b => <<a, b>> \in R
  OBVIOUS
<1> HIDE DEF R
<1>3. PICK m \in T : \A y \in T : ~(<<y, m>> \in R)
  BY <1>1, WFMin
<1>4. \A k \in T : k \in Nat /\ m \in Nat /\ ~(k < m)
  BY <1>2, <1>3
<1>5. \A k \in T : m <= k
  BY <1>4
<1> QED BY <1>5

LEMMA ItemKinds ==
  /\ \A x \in Item : /\ x.type \in {"frame", "start", "stop", "shutdown"}
                     /\ x.type = "frame" => x.frame \in Picture
                     /\ x.type = "start" => x.size \in Sizes
  /\ \A p \in Picture : /\ FrameItem(p) \in Item /\ FrameItem(p).type = "frame"
                        /\ FrameItem(p).frame = p
  /\ \A s \in Sizes : /\ StartItem(s) \in Item /\ StartItem(s).type = "start"
                      /\ StartItem(s).size = s
  /\ StopItem \in Item /\ StopItem.type = "stop"
  /\ ShutdownItem \in Item /\ ShutdownItem.type = "shutdown"
BY DEF Item, FrameItem, StartItem, StopItem, ShutdownItem

LEMMA PictureTypes ==
  \A p \in Picture : /\ p.n \in Nat /\ p.at \in Nat /\ p.size \in Sizes
                     /\ p.n \in 1 .. MaxFrames /\ p.at \in 0 .. MaxClock
BY RecorderAssumption DEF Picture

LEMMA OfPictures ==
  ASSUME NEW s \in Seq(Item)
  PROVE  /\ \A p : p \in Pictures(s) <=>
                     \E i \in 1 .. Len(s) : s[i].type = "frame" /\ s[i].frame = p
         /\ Pictures(s) \subseteq Picture
<1>1. \A i \in 1 .. Len(s) : s[i] \in Item
  OBVIOUS
<1>2. \A p : p \in Pictures(s) <=>
               \E i \in 1 .. Len(s) : s[i].type = "frame" /\ s[i].frame = p
  BY DEF Pictures
<1> QED BY <1>1, <1>2, ItemKinds

LEMMA ItemConcat ==
  ASSUME NEW s \in Seq(Item), NEW t \in Seq(Item)
  PROVE  /\ s \o t \in Seq(Item) /\ Len(s \o t) = Len(s) + Len(t)
         /\ Len(s) \in Nat /\ Len(t) \in Nat
         /\ \A i \in 1 .. Len(s) : i \in 1 .. Len(s \o t) /\ (s \o t)[i] = s[i]
         /\ \A i \in 1 .. Len(t) : /\ i + Len(s) \in 1 .. Len(s \o t)
                                   /\ (s \o t)[i + Len(s)] = t[i]
         /\ \A i \in 1 .. Len(s \o t) :
              \/ i \in 1 .. Len(s)
              \/ i - Len(s) \in 1 .. Len(t) /\ (s \o t)[i] = t[i - Len(s)]
OBVIOUS

\* Appending newer frames.
LEMMA ConcatAscends ==
  ASSUME NEW s \in Seq(Item), NEW t \in Seq(Item)
  PROVE  /\ Pictures(s \o t) = Pictures(s) \cup Pictures(t)
         /\ Ascend(s) /\ Ascend(t) /\ Older(Pictures(s), Pictures(t))
              => Ascend(s \o t)
<1> DEFINE c == s \o t
<1>1. /\ c \in Seq(Item) /\ Len(c) = Len(s) + Len(t)
      /\ Len(s) \in Nat /\ Len(t) \in Nat
      /\ \A i \in 1 .. Len(s) : i \in 1 .. Len(c) /\ c[i] = s[i]
      /\ \A i \in 1 .. Len(t) : i + Len(s) \in 1 .. Len(c) /\ c[i + Len(s)] = t[i]
      /\ \A i \in 1 .. Len(c) :
           \/ i \in 1 .. Len(s)
           \/ i - Len(s) \in 1 .. Len(t) /\ c[i] = t[i - Len(s)]
  BY ItemConcat
<1> HIDE DEF c
<1>2. Pictures(c) = Pictures(s) \cup Pictures(t)
  <2>1. ASSUME NEW p \in Pictures(c)
        PROVE  p \in Pictures(s) \cup Pictures(t)
    <3>1. PICK i \in 1 .. Len(c) : c[i].type = "frame" /\ c[i].frame = p
      BY <1>1, OfPictures
    <3>2. CASE i \in 1 .. Len(s)
      <4>1. s[i].type = "frame" /\ s[i].frame = p
        BY <1>1, <3>1, <3>2
      <4> QED BY <3>2, <4>1, OfPictures
    <3>3. CASE i - Len(s) \in 1 .. Len(t) /\ c[i] = t[i - Len(s)]
      <4>1. t[i - Len(s)].type = "frame" /\ t[i - Len(s)].frame = p
        BY <3>1, <3>3
      <4> QED BY <3>3, <4>1, OfPictures
    <3> QED BY <1>1, <3>2, <3>3
  <2>2. ASSUME NEW p \in Pictures(s) PROVE p \in Pictures(c)
    <3>1. PICK i \in 1 .. Len(s) : s[i].type = "frame" /\ s[i].frame = p
      BY OfPictures
    <3>2. i \in 1 .. Len(c) /\ c[i].type = "frame" /\ c[i].frame = p
      BY <1>1, <3>1
    <3> QED BY <1>1, <3>2, OfPictures
  <2>3. ASSUME NEW p \in Pictures(t) PROVE p \in Pictures(c)
    <3>1. PICK i \in 1 .. Len(t) : t[i].type = "frame" /\ t[i].frame = p
      BY OfPictures
    <3> DEFINE k == i + Len(s)
    <3>2. k \in 1 .. Len(c) /\ c[k].type = "frame" /\ c[k].frame = p
      BY <1>1, <3>1
    <3> QED BY <1>1, <3>2, OfPictures
  <2> QED BY <2>1, <2>2, <2>3
<1>3. ASSUME Ascend(s), Ascend(t), Older(Pictures(s), Pictures(t))
      PROVE  Ascend(c)
  <2> SUFFICES ASSUME NEW i \in 1 .. Len(c), NEW j \in 1 .. Len(c), i < j,
                      c[i].type = "frame", c[j].type = "frame"
               PROVE  c[i].frame.n < c[j].frame.n
    BY DEF Ascend
  <2>1. CASE j \in 1 .. Len(s)
    <3>1. i \in 1 .. Len(s)
      BY <2>1
    <3> QED BY <1>1, <1>3, <2>1, <3>1 DEF Ascend
  <2>2. CASE i \in 1 .. Len(s) /\ j \notin 1 .. Len(s)
    <3>1. /\ c[i] = s[i]
          /\ j - Len(s) \in 1 .. Len(t) /\ c[j] = t[j - Len(s)]
      BY <1>1, <2>2
    <3>2. c[i].frame \in Pictures(s) /\ c[j].frame \in Pictures(t)
      BY <2>2, <3>1, OfPictures
    <3> QED BY <1>3, <3>2 DEF Older
  <2>3. CASE i \notin 1 .. Len(s) /\ j \notin 1 .. Len(s)
    <3>1. /\ i - Len(s) \in 1 .. Len(t) /\ c[i] = t[i - Len(s)]
          /\ j - Len(s) \in 1 .. Len(t) /\ c[j] = t[j - Len(s)]
      BY <1>1, <2>3
    <3>2. i - Len(s) < j - Len(s)
      BY <1>1
    <3> QED BY <1>3, <3>1, <3>2 DEF Ascend
  <2> QED BY <2>1, <2>2, <2>3
<1> QED BY <1>2, <1>3 DEF c

\* Of a chain, and a chain that may follow it.
LEMMA ConcatChained ==
  ASSUME NEW s \in Seq(Item), NEW t \in Seq(Item), Chained(s), Chained(t),
         s # <<>> /\ t # <<>> /\ t[1].type = "frame" =>
           Carries(s[Len(s)], t[1].frame.size)
  PROVE  Chained(s \o t)
<1> DEFINE c == s \o t
<1>1. /\ c \in Seq(Item) /\ Len(c) = Len(s) + Len(t)
      /\ Len(s) \in Nat /\ Len(t) \in Nat
      /\ \A i \in 1 .. Len(s) : i \in 1 .. Len(c) /\ c[i] = s[i]
      /\ \A i \in 1 .. Len(t) : i + Len(s) \in 1 .. Len(c) /\ c[i + Len(s)] = t[i]
      /\ \A i \in 1 .. Len(c) :
           \/ i \in 1 .. Len(s)
           \/ i - Len(s) \in 1 .. Len(t) /\ c[i] = t[i - Len(s)]
  BY ItemConcat
<1> HIDE DEF c
<1> SUFFICES ASSUME NEW i \in 2 .. Len(c), c[i].type = "frame"
             PROVE  Carries(c[i - 1], c[i].frame.size)
  BY DEF Chained, c
<1>2. CASE i \in 1 .. Len(s)
  <2>1. i \in 2 .. Len(s) /\ i - 1 \in 1 .. Len(s)
    BY <1>1, <1>2
  <2> QED BY <1>1, <1>2, <2>1 DEF Chained
<1>3. CASE i - Len(s) \in 2 .. Len(t)
  <2> DEFINE k == i - Len(s)
  <2>1. /\ k \in 2 .. Len(t) /\ k \in 1 .. Len(t) /\ k - 1 \in 1 .. Len(t)
        /\ i = k + Len(s) /\ i - 1 = (k - 1) + Len(s)
    BY <1>1, <1>3
  <2> HIDE DEF k
  <2>2. c[i] = t[k] /\ c[i - 1] = t[k - 1]
    BY <1>1, <2>1
  <2> QED BY <2>1, <2>2 DEF Chained
<1>4. CASE i = Len(s) + 1
  <2>1. /\ 1 \in 1 .. Len(t) /\ c[1 + Len(s)] = t[1] /\ t # <<>>
        /\ i - 1 = Len(s) /\ Len(s) \in 1 .. Len(s) /\ s # <<>>
        /\ 1 + Len(s) = i
    BY <1>1, <1>4
  <2> QED BY <1>1, <2>1
<1> QED BY <1>1, <1>2, <1>3, <1>4

\* The worker takes the head.
LEMMA TailOfItems ==
  ASSUME NEW s \in Seq(Item), s # <<>>
  PROVE  /\ Head(s) = s[1] /\ s[1] \in Item /\ Tail(s) \in Seq(Item)
         /\ Len(s) \in Nat /\ Len(s) >= 1 /\ Len(Tail(s)) = Len(s) - 1
         /\ \A i \in 1 .. Len(Tail(s)) : i + 1 \in 2 .. Len(s) /\ Tail(s)[i] = s[i + 1]
OBVIOUS

LEMMA TailKeepsOrder ==
  ASSUME NEW s \in Seq(Item), s # <<>>
  PROVE  /\ Pictures(Tail(s)) \subseteq Pictures(s)
         /\ Ascend(s) => Ascend(Tail(s))
         /\ Chained(s) => Chained(Tail(s))
         /\ s[1].type = "frame" =>
              /\ s[1].frame \in Pictures(s)
              /\ Ascend(s) => Older({s[1].frame}, Pictures(Tail(s)))
<1> DEFINE t == Tail(s)
<1>1. /\ t \in Seq(Item) /\ Len(s) \in Nat /\ Len(s) >= 1 /\ Len(t) = Len(s) - 1
      /\ \A i \in 1 .. Len(t) : i + 1 \in 2 .. Len(s) /\ t[i] = s[i + 1]
      /\ 1 \in 1 .. Len(s)
  BY TailOfItems
<1> HIDE DEF t
<1>2. ASSUME NEW p \in Pictures(t)
      PROVE  \E i \in 2 .. Len(s) : /\ s[i].type = "frame" /\ s[i].frame = p
                                    /\ i \in 1 .. Len(s) /\ 1 < i
  <2>1. PICK i \in 1 .. Len(t) : t[i].type = "frame" /\ t[i].frame = p
    BY <1>1, OfPictures
  <2>2. i + 1 \in 2 .. Len(s) /\ i + 1 \in 1 .. Len(s) /\ 1 < i + 1
    BY <1>1
  <2> QED BY <1>1, <2>1, <2>2
<1>3. Pictures(t) \subseteq Pictures(s)
  BY <1>2, OfPictures
<1>4. ASSUME Ascend(s) PROVE Ascend(t)
  <2> SUFFICES ASSUME NEW i \in 1 .. Len(t), NEW j \in 1 .. Len(t), i < j,
                      t[i].type = "frame", t[j].type = "frame"
               PROVE  t[i].frame.n < t[j].frame.n
    BY DEF Ascend
  <2>1. /\ i + 1 \in 1 .. Len(s) /\ j + 1 \in 1 .. Len(s) /\ i + 1 < j + 1
        /\ t[i] = s[i + 1] /\ t[j] = s[j + 1]
    BY <1>1
  <2> QED BY <1>4, <2>1 DEF Ascend
<1>5. ASSUME Chained(s) PROVE Chained(t)
  <2> SUFFICES ASSUME NEW i \in 2 .. Len(t), t[i].type = "frame"
               PROVE  Carries(t[i - 1], t[i].frame.size)
    BY DEF Chained
  <2>1. /\ i + 1 \in 2 .. Len(s) /\ i \in 1 .. Len(t) /\ i - 1 \in 1 .. Len(t)
        /\ (i - 1) + 1 = i /\ (i + 1) - 1 = i
    BY <1>1
  <2>2. t[i] = s[i + 1] /\ t[i - 1] = s[i]
    BY <1>1, <2>1
  <2> QED BY <1>5, <2>1, <2>2 DEF Chained
<1>6. ASSUME s[1].type = "frame"
      PROVE  /\ s[1].frame \in Pictures(s)
             /\ Ascend(s) => Older({s[1].frame}, Pictures(t))
  <2>1. s[1].frame \in Pictures(s)
    BY <1>1, <1>6, OfPictures
  <2>2. ASSUME Ascend(s), NEW p \in Pictures(t) PROVE s[1].frame.n < p.n
    BY <1>1, <1>2, <1>6, <2>2 DEF Ascend
  <2> QED BY <2>1, <2>2 DEF Older
<1> QED BY <1>3, <1>4, <1>5, <1>6 DEF t

\* s without the item at k.
Lacks(t, s, k) ==
  /\ t \in Seq(Item) /\ Len(t) = Len(s) - 1
  /\ \A i \in 1 .. Len(t) : t[i] = IF i < k THEN s[i] ELSE s[i + 1]

\* A frame is lost inside.
LEMMA LossKeepsOrder ==
  ASSUME NEW s \in Seq(Item), NEW k \in 1 .. Len(s), s[k].type = "frame",
         NEW t, Lacks(t, s, k)
  PROVE  /\ Pictures(t) \subseteq Pictures(s)
         /\ Ascend(s) => Ascend(t)
         /\ Chained(s) => Chained(t)
<1>1. /\ t \in Seq(Item) /\ Len(s) \in Nat /\ Len(t) = Len(s) - 1 /\ k \in Nat
      /\ \A i \in 1 .. Len(t) : /\ i \in 1 .. Len(s) /\ i + 1 \in 1 .. Len(s)
                                /\ i < k => t[i] = s[i]
                                /\ ~(i < k) => t[i] = s[i + 1]
  BY DEF Lacks
<1>2. Pictures(t) \subseteq Pictures(s)
  <2> SUFFICES ASSUME NEW p \in Pictures(t) PROVE p \in Pictures(s)
    OBVIOUS
  <2>1. PICK i \in 1 .. Len(t) : t[i].type = "frame" /\ t[i].frame = p
    BY <1>1, OfPictures
  <2>2. \E j \in 1 .. Len(s) : s[j].type = "frame" /\ s[j].frame = p
    BY <1>1, <2>1
  <2> QED BY <2>2, OfPictures
<1>3. ASSUME Ascend(s) PROVE Ascend(t)
  <2> SUFFICES ASSUME NEW i \in 1 .. Len(t), NEW j \in 1 .. Len(t), i < j,
                      t[i].type = "frame", t[j].type = "frame"
               PROVE  t[i].frame.n < t[j].frame.n
    BY DEF Ascend
  <2> DEFINE a == IF i < k THEN i ELSE i + 1
             b == IF j < k THEN j ELSE j + 1
  <2>1. t[i] = s[a] /\ t[j] = s[b]
    BY <1>1
  <2>2. a \in 1 .. Len(s) /\ b \in 1 .. Len(s) /\ a < b
    <3>1. /\ Len(s) \in Nat /\ Len(t) \in Nat /\ Len(t) = Len(s) - 1 /\ k \in Nat
          /\ i \in Nat /\ j \in Nat
      BY <1>1
    <3>2. a \in 1 .. Len(s) /\ b \in 1 .. Len(s)
      BY <3>1
    <3>3. a < b
      BY <3>1
    <3> QED BY <3>2, <3>3
  <2> HIDE DEF a, b
  <2> QED BY <1>3, <2>1, <2>2 DEF Ascend
<1>4. ASSUME Chained(s) PROVE Chained(t)
  <2> SUFFICES ASSUME NEW i \in 2 .. Len(t), t[i].type = "frame"
               PROVE  Carries(t[i - 1], t[i].frame.size)
    BY DEF Chained
  <2>1. /\ i \in 1 .. Len(t) /\ i - 1 \in 1 .. Len(t) /\ (i - 1) + 1 = i
        /\ i \in 2 .. Len(s) /\ i + 1 \in 2 .. Len(s) /\ (i + 1) - 1 = i
    BY <1>1
  <2>2. CASE i < k
    <3>1. i - 1 < k
      BY <1>1, <2>1, <2>2
    <3>2. t[i] = s[i] /\ t[i - 1] = s[i - 1]
      BY <1>1, <2>1, <2>2, <3>1
    <3> QED BY <1>4, <2>1, <3>2 DEF Chained
  <2>3. CASE i = k
    <3>1. i - 1 < k /\ ~(i < k)
      BY <1>1, <2>1, <2>3
    <3>2. t[i] = s[i + 1] /\ t[i - 1] = s[i - 1]
      BY <1>1, <2>1, <3>1
    <3>3. s[i].type = "frame"
      BY <2>3
    <3>4. Carries(s[i], s[i + 1].frame.size) /\ Carries(s[i - 1], s[i].frame.size)
      BY <1>4, <2>1, <3>2, <3>3 DEF Chained
    <3>5. s[i].frame.size = s[i + 1].frame.size
      BY <3>3, <3>4 DEF Carries
    <3> QED BY <3>2, <3>4, <3>5
  <2>4. CASE i > k
    <3>1. ~(i < k) /\ ~(i - 1 < k)
      BY <1>1, <2>1, <2>4
    <3>2. t[i] = s[i + 1] /\ t[i - 1] = s[i]
      BY <1>1, <2>1, <3>1
    <3> QED BY <1>4, <2>1, <3>2 DEF Chained
  <2> QED BY <1>1, <2>1, <2>2, <2>3, <2>4
<1> QED BY <1>2, <1>3, <1>4

\* enqueue makes room by throwing one frame away.
LEMMA RoomLacksOne ==
  ASSUME NEW s \in Seq(Item), NEW x \in Item
  PROVE  \/ /\ Room(s, x) = s
            /\ \/ x.type # "frame"
               \/ Cardinality({i \in 1 .. Len(s) : s[i].type = "frame"}) < MaxQueued
         \/ \E k \in 1 .. Len(s) : s[k].type = "frame" /\ Lacks(Room(s, x), s, k)
<1> DEFINE F == {i \in 1 .. Len(s) : s[i].type = "frame"}
           least == CHOOSE i \in F : \A j \in F : i <= j
<1>1. F \subseteq 1 .. Len(s) /\ Len(s) \in Nat /\ IsFiniteSet(1 .. Len(s))
  BY FS_Interval
<1>2. IsFiniteSet(F) /\ Cardinality(F) \in Nat
  BY <1>1, FS_Subset, FS_CardinalityType
<1>3. CASE x.type # "frame" \/ Cardinality(F) < MaxQueued
  <2>1. ~(x.type = "frame" /\ Cardinality(F) >= MaxQueued)
    BY <1>2, <1>3, RecorderAssumption
  <2>2. Room(s, x) = s
    BY <2>1 DEF Room
  <2> QED BY <1>3, <2>2
<1>4. CASE x.type = "frame" /\ ~(Cardinality(F) < MaxQueued)
  <2>1. F # {} /\ F \in SUBSET Nat
    <3>1. Cardinality(F) # 0
      BY <1>2, <1>4, RecorderAssumption
    <3>2. F # {}
      BY <3>1, FS_EmptySet
    <3>3. 1 .. Len(s) \subseteq Nat
      BY <1>1
    <3> QED BY <1>1, <3>2, <3>3
  <2>2. least \in F
    <3>1. \E i \in F : \A j \in F : i <= j
      BY <2>1, LeastOf
    <3> QED BY <3>1
  <2> DEFINE k == least
  <2>3. k \in 1 .. Len(s) /\ s[k].type = "frame"
    BY <2>2
  <2>4. Room(s, x) = SubSeq(s, 1, k - 1) \o SubSeq(s, k + 1, Len(s))
    <3>1. x.type = "frame" /\ Cardinality(F) >= MaxQueued
      BY <1>2, <1>4, RecorderAssumption
    <3> QED BY <3>1 DEF Room
  <2> HIDE DEF k
  <2> DEFINE a == SubSeq(s, 1, k - 1)
             b == SubSeq(s, k + 1, Len(s))
  <2>5. /\ a \in Seq(Item) /\ Len(a) = k - 1
        /\ \A i \in 1 .. k - 1 : a[i] = s[i]
    BY <1>1, <2>3
  <2>6. /\ b \in Seq(Item) /\ Len(b) = Len(s) - k
        /\ \A i \in 1 .. Len(s) - k : b[i] = s[i + k]
    BY <1>1, <2>3
  <2> HIDE DEF a, b
  <2>7. Lacks(a \o b, s, k)
    <3> DEFINE t == a \o b
    <3>1. /\ t \in Seq(Item) /\ Len(t) = Len(a) + Len(b)
          /\ \A i \in 1 .. Len(a) : i \in 1 .. Len(t) /\ t[i] = a[i]
          /\ \A i \in 1 .. Len(b) : i + Len(a) \in 1 .. Len(t) /\ t[i + Len(a)] = b[i]
          /\ \A i \in 1 .. Len(t) :
               \/ i \in 1 .. Len(a)
               \/ i - Len(a) \in 1 .. Len(b) /\ t[i] = b[i - Len(a)]
      <4>1. a \in Seq(Item) /\ b \in Seq(Item)
        BY <2>5, <2>6
      <4> QED BY <4>1, ItemConcat
    <3>2. Len(t) = Len(s) - 1
      <4>1. Len(t) = Len(a) + Len(b)
        BY <3>1
      <4>2. Len(a) = k - 1 /\ Len(b) = Len(s) - k /\ k \in Nat
        BY <1>1, <2>3, <2>5, <2>6
      <4> QED BY <1>1, <4>1, <4>2
    <3>3. ASSUME NEW i \in 1 .. Len(t), i < k PROVE t[i] = s[i]
      <4>1. i \in 1 .. Len(a) /\ i \in 1 .. k - 1
        BY <1>1, <2>3, <2>5, <3>2, <3>3
      <4> QED BY <2>5, <3>1, <4>1
    <3>4. ASSUME NEW i \in 1 .. Len(t), ~(i < k) PROVE t[i] = s[i + 1]
      <4>1. i \notin 1 .. Len(a)
        BY <1>1, <2>3, <2>5, <3>2, <3>4
      <4>2. i - Len(a) \in 1 .. Len(s) - k /\ t[i] = b[i - Len(a)]
        BY <2>6, <3>1, <4>1
      <4>3. (i - Len(a)) + k = i + 1
        BY <1>1, <2>3, <2>5
      <4> QED BY <2>6, <4>2, <4>3
    <3> QED BY <3>1, <3>2, <3>3, <3>4 DEF Lacks, t
  <2> QED BY <2>3, <2>4, <2>7 DEF a, b
<1> QED BY <1>3, <1>4

-----------------------------------------------------------------------------
(* The frames before a session.                                             *)

Suffix(t, s) ==
  /\ t \in Seq(Picture)
  /\ \E k \in Nat : /\ Len(t) + k = Len(s)
                    /\ \A i \in 1 .. Len(t) : t[i] = s[i + k]

LEMMA SuffixKeeps ==
  ASSUME NEW s \in Seq(Picture), NEW t, Suffix(t, s)
  PROVE  /\ t \in Seq(Picture) /\ Len(t) <= Len(s) /\ Entries(t) \subseteq Entries(s)
         /\ Rising(s) => Rising(t)
         /\ OneSize(s) => OneSize(t)
<1>1. PICK k \in Nat : Len(t) + k = Len(s) /\ \A i \in 1 .. Len(t) : t[i] = s[i + k]
  BY DEF Suffix
<1>2. t \in Seq(Picture) /\ Len(t) \in Nat /\ Len(s) \in Nat
  BY DEF Suffix
<1>3. \A i \in 1 .. Len(t) : i + k \in 1 .. Len(s)
  BY <1>1, <1>2
<1>4. Len(t) <= Len(s)
  BY <1>1, <1>2
<1>5. Entries(t) \subseteq Entries(s)
  BY <1>1, <1>3 DEF Entries
<1>6. ASSUME Rising(s) PROVE Rising(t)
  <2> SUFFICES ASSUME NEW i \in 1 .. Len(t), NEW j \in 1 .. Len(t), i < j
               PROVE  t[i].n < t[j].n
    BY DEF Rising
  <2>1. i + k < j + k
    BY <1>2
  <2> QED BY <1>1, <1>3, <1>6, <2>1 DEF Rising
<1>7. OneSize(s) => OneSize(t)
  BY <1>1, <1>3 DEF OneSize
<1> QED BY <1>2, <1>4, <1>5, <1>6, <1>7

LEMMA RecentIsSuffix ==
  ASSUME NEW s \in Seq(Picture), NEW now
  PROVE  Suffix(Recent(s, now), s)
<1> DEFINE R == {k \in 1 .. Len(s) : s[k].at >= now - PreRoll}
           first == CHOOSE k \in R : \A j \in R : k <= j
<1>1. Len(s) \in Nat /\ R \subseteq 1 .. Len(s) /\ R \in SUBSET Nat
  OBVIOUS
<1>2. CASE R = {}
  <2>1. Recent(s, now) = <<>>
    BY <1>2 DEF Recent
  <2>2. <<>> \in Seq(Picture) /\ Len(<<>>) = 0
    OBVIOUS
  <2>3. Suffix(<<>>, s)
    BY <1>1, <2>2 DEF Suffix
  <2> QED BY <2>1, <2>3
<1>3. CASE R # {}
  <2>1. first \in R
    <3>1. \E k \in R : \A j \in R : k <= j
      BY <1>1, <1>3, LeastOf
    <3> QED BY <3>1
  <2> DEFINE k == first
  <2>2. k \in 1 .. Len(s)
    BY <1>1, <2>1
  <2>3. Recent(s, now) = SubSeq(s, k, Len(s))
    BY <1>3 DEF Recent
  <2> HIDE DEF k
  <2> DEFINE t == SubSeq(s, k, Len(s))
  <2>4. /\ t \in Seq(Picture) /\ Len(t) = Len(s) - k + 1
        /\ \A i \in 1 .. Len(s) - k + 1 : t[i] = s[i + k - 1]
    BY <1>1, <2>2
  <2> HIDE DEF t
  <2>5. /\ k - 1 \in Nat /\ Len(t) + (k - 1) = Len(s)
        /\ \A i \in 1 .. Len(t) : i + (k - 1) = i + k - 1
    BY <1>1, <2>2, <2>4
  <2>6. Suffix(t, s)
    BY <2>4, <2>5 DEF Suffix
  <2> QED BY <2>3, <2>6 DEF t
<1> QED BY <1>2, <1>3

LEMMA FreshIsSuffix ==
  ASSUME NEW s \in Seq(Picture), NEW now
  PROVE  Suffix(Fresh(s, now), s) /\ Len(Fresh(s, now)) <= MaxPreRoll
<1> DEFINE r == Recent(s, now)
           n == Len(r)
           k == IF n > MaxPreRoll THEN n - MaxPreRoll + 1 ELSE 1
           t == SubSeq(r, k, n)
<1>1. Fresh(s, now) = t
  BY DEF Fresh
<1>2. Suffix(r, s)
  BY RecentIsSuffix
<1>3. PICK j \in Nat : Len(r) + j = Len(s) /\ \A i \in 1 .. Len(r) : r[i] = s[i + j]
  BY <1>2 DEF Suffix
<1>4. r \in Seq(Picture) /\ n \in Nat
  BY <1>2 DEF Suffix
<1> HIDE DEF r
<1>5. /\ k \in Nat /\ k >= 1 /\ k <= n + 1
      /\ n - k + 1 <= MaxPreRoll /\ n - k + 1 \in Nat
  BY <1>4, RecorderAssumption
<1> HIDE DEF k
<1>6. /\ t \in Seq(Picture) /\ Len(t) = n - k + 1
      /\ \A i \in 1 .. n - k + 1 : t[i] = r[i + k - 1]
  <2>1. \A i \in k .. n : i \in 1 .. n
    BY <1>4, <1>5
  <2> QED BY <1>4, <1>5, <2>1
<1> HIDE DEF n, t
<1> DEFINE m == j + (k - 1)
<1>7. n = Len(r)
  BY DEF n
<1>8. m \in Nat /\ Len(t) + m = Len(s) /\ Len(t) <= MaxPreRoll
  <2>1. /\ n \in Nat /\ k \in Nat /\ k >= 1 /\ k <= n + 1 /\ Len(t) = n - k + 1
        /\ n + j = Len(s)
    BY <1>3, <1>4, <1>5, <1>6, <1>7
  <2>2. Len(t) <= MaxPreRoll
    BY <1>5, <1>6
  <2>3. m \in Nat
    BY <2>1
  <2>4. Len(t) + m = Len(s)
    BY <2>1
  <2> QED BY <2>2, <2>3, <2>4
<1>9. ASSUME NEW i \in 1 .. Len(t) PROVE t[i] = s[i + m]
  <2>1. i + k - 1 \in 1 .. Len(r) /\ (i + k - 1) + j = i + m
    BY <1>3, <1>4, <1>5, <1>6, <1>7
  <2> QED BY <1>3, <1>6, <2>1
<1> HIDE DEF m
<1> QED BY <1>1, <1>6, <1>8, <1>9 DEF Suffix

\* The pre-roll with one more frame; only frames of its size are kept.
LEMMA BufferedFrames ==
  ASSUME NEW f \in Seq(Picture), NEW p \in Picture, Rising(f), OneSize(f),
         Older(Entries(f), {p})
  PROVE  /\ Buffered(f, p) \in Seq(Picture) /\ Len(Buffered(f, p)) <= MaxPreRoll
         /\ Entries(Buffered(f, p)) \subseteq Entries(f) \cup {p}
         /\ Rising(Buffered(f, p))
         /\ \A i \in 1 .. Len(Buffered(f, p)) : Buffered(f, p)[i].size = p.size
<1> DEFINE g == IF f # <<>> /\ f[Len(f)].size # p.size THEN <<>> ELSE f
           a == Append(g, p)
           b == Fresh(a, p.at)
<1>1. Buffered(f, p) = b
  BY DEF Buffered
<1>2. /\ g \in Seq(Picture) /\ Len(g) \in Nat
      /\ \A i \in 1 .. Len(g) : i \in 1 .. Len(f) /\ g[i] = f[i]
  <2>1. CASE f # <<>> /\ f[Len(f)].size # p.size
    <3>1. g = <<>>
      BY <2>1
    <3> HIDE DEF g
    <3> QED BY <3>1
  <2>2. CASE ~(f # <<>> /\ f[Len(f)].size # p.size)
    <3>1. g = f
      BY <2>2
    <3> HIDE DEF g
    <3> QED BY <3>1
  <2> QED BY <2>1, <2>2
<1>3. \A i \in 1 .. Len(g) : g[i].size = p.size
  <2>1. CASE f # <<>> /\ f[Len(f)].size # p.size
    <3>1. g = <<>>
      BY <2>1
    <3> HIDE DEF g
    <3> QED BY <3>1
  <2>2. CASE ~(f # <<>> /\ f[Len(f)].size # p.size)
    <3>1. g = f
      BY <2>2
    <3>2. \A i \in 1 .. Len(f) : f # <<>> /\ Len(f) \in 1 .. Len(f)
      OBVIOUS
    <3>3. \A i \in 1 .. Len(f) : f[i].size = p.size
      BY <2>2, <3>2 DEF OneSize
    <3> HIDE DEF g
    <3> QED BY <3>1, <3>3
  <2> QED BY <2>1, <2>2
<1> HIDE DEF g
<1>4. /\ a \in Seq(Picture) /\ Len(a) = Len(g) + 1
      /\ \A i \in 1 .. Len(g) : a[i] = g[i]
      /\ a[Len(g) + 1] = p
  BY <1>2
<1> HIDE DEF a
<1>5. \A i \in 1 .. Len(a) : i \in 1 .. Len(g) \/ i = Len(g) + 1
  BY <1>2, <1>4
<1>6. Entries(a) \subseteq Entries(f) \cup {p}
  BY <1>2, <1>4, <1>5 DEF Entries
<1>7. Rising(a)
  <2> SUFFICES ASSUME NEW i \in 1 .. Len(a), NEW j \in 1 .. Len(a), i < j
               PROVE  a[i].n < a[j].n
    BY DEF Rising
  <2>1. i \in 1 .. Len(g)
    BY <1>2, <1>4
  <2>2. i \in 1 .. Len(f) /\ a[i] = f[i]
    BY <1>2, <1>4, <2>1
  <2>3. CASE j = Len(g) + 1
    <3>1. a[j] = p /\ f[i] \in Entries(f)
      BY <1>4, <2>2, <2>3 DEF Entries
    <3> QED BY <2>2, <3>1 DEF Older
  <2>4. CASE j \in 1 .. Len(g)
    <3>1. j \in 1 .. Len(f) /\ a[j] = f[j]
      BY <1>2, <1>4, <2>4
    <3> QED BY <2>2, <3>1 DEF Rising
  <2> QED BY <1>5, <2>3, <2>4
<1>8. \A i \in 1 .. Len(a) : a[i].size = p.size
  BY <1>3, <1>4, <1>5
<1>9. Suffix(b, a) /\ Len(b) <= MaxPreRoll
  BY <1>4, FreshIsSuffix
<1> HIDE DEF b
<1>10. b \in Seq(Picture) /\ Entries(b) \subseteq Entries(a) /\ Rising(b)
  BY <1>4, <1>7, <1>9, SuffixKeeps
<1>11. \A i \in 1 .. Len(b) : b[i].size = p.size
  <2>1. \A i \in 1 .. Len(b) : b[i] \in Entries(a)
    BY <1>10 DEF Entries
  <2> QED BY <1>8, <2>1 DEF Entries
<1> QED BY <1>1, <1>6, <1>9, <1>10, <1>11

\* The items of a new session.
LEMMA StartedItems ==
  ASSUME NEW f \in Seq(Picture), NEW z \in Sizes, Rising(f),
         \A i \in 1 .. Len(f) : f[i].size = z
  PROVE  LET s == StartItems(f, z)
         IN /\ s \in Seq(Item) /\ s # <<>> /\ s[1].type = "start"
            /\ Pictures(s) = Entries(f) /\ Ascend(s) /\ Chained(s)
            /\ Carries(s[Len(s)], z)
<1> DEFINE g == [i \in 1 .. Len(f) |-> FrameItem(f[i])]
           h == <<StartItem(z)>>
           s == h \o g
<1>1. /\ g \in Seq(Item) /\ Len(g) = Len(f) /\ Len(f) \in Nat
      /\ \A i \in 1 .. Len(f) : /\ f[i] \in Picture /\ g[i] \in Item
                                /\ g[i].type = "frame" /\ g[i].frame = f[i]
  <2>1. \A i \in 1 .. Len(f) : f[i] \in Picture
    OBVIOUS
  <2>2. \A i \in 1 .. Len(f) : /\ g[i] \in Item
                               /\ g[i].type = "frame" /\ g[i].frame = f[i]
    BY <2>1, ItemKinds
  <2>3. Len(f) \in Nat /\ DOMAIN g = 1 .. Len(f) /\ g \in [1 .. Len(f) -> Item]
    BY <2>2
  <2>4. g \in Seq(Item) /\ Len(g) = Len(f)
    BY <2>3
  <2> QED BY <2>1, <2>2, <2>3, <2>4
<1>2. /\ h \in Seq(Item) /\ Len(h) = 1 /\ h[1] \in Item
      /\ h[1].type = "start" /\ h[1].size = z
  <2>1. StartItem(z) \in Item
    BY ItemKinds
  <2> QED BY <2>1, ItemKinds
<1>3. StartItems(f, z) = s
  BY DEF StartItems
<1> HIDE DEF g, h
<1>4. /\ s \in Seq(Item) /\ Len(s) = 1 + Len(f) /\ s[1] = h[1] /\ 1 \in 1 .. Len(s)
      /\ \A i \in 1 .. Len(f) : i + 1 \in 1 .. Len(s) /\ s[i + 1] = g[i]
      /\ \A i \in 1 .. Len(s) : \/ i = 1
                                \/ i - 1 \in 1 .. Len(f) /\ s[i] = g[i - 1]
  <2>1. /\ s \in Seq(Item) /\ Len(s) = Len(h) + Len(g)
        /\ \A i \in 1 .. Len(h) : i \in 1 .. Len(s) /\ s[i] = h[i]
        /\ \A i \in 1 .. Len(g) : /\ i + Len(h) \in 1 .. Len(s)
                                  /\ s[i + Len(h)] = g[i]
        /\ \A i \in 1 .. Len(s) :
              \/ i \in 1 .. Len(h)
              \/ i - Len(h) \in 1 .. Len(g) /\ s[i] = g[i - Len(h)]
    <3>1. h \in Seq(Item) /\ g \in Seq(Item)
      BY <1>1, <1>2
    <3> QED BY <3>1, ItemConcat
  <2> HIDE DEF s
  <2> QED BY <1>1, <1>2, <2>1
<1> HIDE DEF s
<1>5. \A i \in 2 .. Len(s) : /\ i - 1 \in 1 .. Len(f) /\ s[i].type = "frame"
                             /\ s[i].frame = f[i - 1] /\ s[i].frame.size = z
  <2> SUFFICES ASSUME NEW i \in 2 .. Len(s)
               PROVE  /\ i - 1 \in 1 .. Len(f) /\ s[i].type = "frame"
                      /\ s[i].frame = f[i - 1] /\ s[i].frame.size = z
    OBVIOUS
  <2>1. i \in 1 .. Len(s) /\ i # 1
    BY <1>1, <1>4
  <2>2. i - 1 \in 1 .. Len(f) /\ s[i] = g[i - 1]
    BY <1>4, <2>1
  <2> QED BY <1>1, <2>2
<1>6. s # <<>> /\ s[1].type = "start" /\ s[1].size = z
  BY <1>1, <1>2, <1>4
<1>7. Pictures(s) = Entries(f)
  <2>1. ASSUME NEW p \in Pictures(s) PROVE p \in Entries(f)
    <3>1. PICK i \in 1 .. Len(s) : s[i].type = "frame" /\ s[i].frame = p
      BY <1>4, OfPictures
    <3>2. i \in 2 .. Len(s)
      BY <1>1, <1>4, <1>6, <3>1
    <3> QED BY <1>5, <3>1, <3>2 DEF Entries
  <2>2. ASSUME NEW p \in Entries(f) PROVE p \in Pictures(s)
    <3>1. PICK i \in 1 .. Len(f) : f[i] = p
      BY DEF Entries
    <3> DEFINE k == i + 1
    <3>2. k \in 1 .. Len(s) /\ s[k].type = "frame" /\ s[k].frame = p
      BY <1>1, <1>4, <3>1
    <3> QED BY <1>4, <3>2, OfPictures
  <2> QED BY <2>1, <2>2
<1>8. Ascend(s)
  <2> SUFFICES ASSUME NEW i \in 1 .. Len(s), NEW j \in 1 .. Len(s), i < j,
                      s[i].type = "frame", s[j].type = "frame"
               PROVE  s[i].frame.n < s[j].frame.n
    BY DEF Ascend
  <2>1. i \in 2 .. Len(s) /\ j \in 2 .. Len(s)
    BY <1>1, <1>4, <1>6
  <2>2. i - 1 \in 1 .. Len(f) /\ j - 1 \in 1 .. Len(f)
    BY <1>5, <2>1
  <2>3. i - 1 < j - 1
    OBVIOUS
  <2> QED BY <1>5, <2>1, <2>2, <2>3 DEF Rising
<1>9. ASSUME NEW i \in 1 .. Len(s) PROVE Carries(s[i], z)
  <2>1. CASE i = 1
    BY <1>6, <2>1 DEF Carries
  <2>2. CASE i \in 2 .. Len(s)
    BY <1>5, <2>2 DEF Carries
  <2> QED BY <1>1, <1>4, <2>1, <2>2
<1>10. Chained(s)
  <2> SUFFICES ASSUME NEW i \in 2 .. Len(s)
               PROVE  Carries(s[i - 1], s[i].frame.size)
    BY DEF Chained
  <2>1. i - 1 \in 1 .. Len(s)
    BY <1>1, <1>4
  <2> QED BY <1>5, <1>9, <2>1
<1>11. Carries(s[Len(s)], z)
  <2>1. Len(s) \in 1 .. Len(s)
    BY <1>1, <1>4
  <2> QED BY <1>9, <2>1
<1> QED BY <1>3, <1>4, <1>6, <1>7, <1>8, <1>10, <1>11

LEMMA OneItem ==
  ASSUME NEW x \in Item
  PROVE  /\ <<x>> \in Seq(Item) /\ <<x>> # <<>> /\ Len(<<x>>) = 1 /\ <<x>>[1] = x
         /\ Ascend(<<x>>) /\ Chained(<<x>>)
         /\ Pictures(<<x>>) = IF x.type = "frame" THEN {x.frame} ELSE {}
<1>1. <<x>> \in Seq(Item) /\ <<x>> # <<>> /\ Len(<<x>>) = 1 /\ <<x>>[1] = x
  OBVIOUS
<1> DEFINE s == <<x>>
<1>2. s \in Seq(Item) /\ Len(s) = 1 /\ s[1] = x
  BY <1>1
<1> HIDE DEF s
<1>3. Ascend(s) /\ Chained(s)
  BY <1>2 DEF Ascend, Chained
<1>4. Pictures(s) = IF x.type = "frame" THEN {x.frame} ELSE {}
  <2>1. \A p : p \in Pictures(s) <=> x.type = "frame" /\ x.frame = p
    <3>1. 1 \in 1 .. Len(s) /\ \A i \in 1 .. Len(s) : i = 1
      BY <1>2
    <3> QED BY <1>2, <3>1, OfPictures
  <2> QED BY <2>1
<1> QED BY <1>1, <1>3, <1>4 DEF s

\* The frames of the queue, which the bound counts.
Frames(s) == {i \in 1 .. Len(s) : s[i].type = "frame"}

LEMMA FramesFinite ==
  ASSUME NEW s \in Seq(Item)
  PROVE  IsFiniteSet(Frames(s)) /\ Cardinality(Frames(s)) \in Nat
<1>1. Frames(s) \subseteq 1 .. Len(s)
  BY DEF Frames
<1>2. IsFiniteSet(1 .. Len(s))
  <2>1. Len(s) \in Int /\ 1 \in Int
    OBVIOUS
  <2> QED BY <2>1, FS_Interval
<1> QED BY <1>1, <1>2, FS_Subset, FS_CardinalityType

LEMMA LossCounts ==
  ASSUME NEW s \in Seq(Item), NEW k \in 1 .. Len(s), s[k].type = "frame",
         NEW t, Lacks(t, s, k)
  PROVE  Cardinality(Frames(t)) < Cardinality(Frames(s))
<1> DEFINE at(i) == IF i < k THEN i ELSE i + 1
           f == [i \in Frames(t) |-> at(i)]
<1>1. /\ t \in Seq(Item) /\ Len(s) \in Nat /\ Len(t) = Len(s) - 1 /\ k \in Nat
      /\ \A i \in 1 .. Len(t) : at(i) \in 1 .. Len(s) /\ t[i] = s[at(i)] /\ at(i) # k
  BY DEF Lacks
<1>2. \A i, j \in 1 .. Len(t) : at(i) = at(j) => i = j
  BY <1>1
<1> HIDE DEF at
<1>3. \A i \in Frames(t) : f[i] \in Frames(s) \ {k}
  BY <1>1 DEF Frames
<1>4. \A i, j \in Frames(t) : f[i] = f[j] => i = j
  BY <1>2 DEF Frames
<1>5. f \in [Frames(t) -> Frames(s) \ {k}] /\ DOMAIN f = Frames(t)
  BY <1>3
<1> HIDE DEF f
<1>6. f \in Injection(Frames(t), Frames(s) \ {k})
  BY <1>4, <1>5 DEF Injection, IsInjective
<1>7. k \in Frames(s) /\ IsFiniteSet(Frames(s)) /\ Cardinality(Frames(s)) \in Nat
  BY FramesFinite DEF Frames
<1>8. /\ IsFiniteSet(Frames(s) \ {k})
      /\ Cardinality(Frames(s) \ {k}) = Cardinality(Frames(s)) - 1
  BY <1>7, FS_RemoveElement
<1>9. Cardinality(Frames(t)) <= Cardinality(Frames(s) \ {k})
  BY <1>6, <1>8, FS_Injection
<1>10. Cardinality(Frames(t)) \in Nat
  BY <1>1, FramesFinite
<1> QED BY <1>7, <1>8, <1>9, <1>10

LEMMA TailCounts ==
  ASSUME NEW s \in Seq(Item), s # <<>>
  PROVE  Cardinality(Frames(Tail(s))) <= Cardinality(Frames(s))
<1> DEFINE t == Tail(s)
           f == [i \in Frames(t) |-> i + 1]
<1>1. /\ t \in Seq(Item) /\ Len(s) \in Nat /\ Len(t) = Len(s) - 1
      /\ \A i \in 1 .. Len(t) : i + 1 \in 1 .. Len(s) /\ t[i] = s[i + 1]
  <2>1. 2 .. Len(s) \subseteq 1 .. Len(s)
    OBVIOUS
  <2> QED BY <2>1, TailOfItems
<1> HIDE DEF t
<1>2. \A i \in Frames(t) : f[i] \in Frames(s)
  BY <1>1 DEF Frames
<1>3. \A i, j \in Frames(t) : f[i] = f[j] => i = j
  BY <1>1 DEF Frames
<1>4. f \in [Frames(t) -> Frames(s)] /\ DOMAIN f = Frames(t)
  BY <1>2
<1> HIDE DEF f
<1>5. f \in Injection(Frames(t), Frames(s))
  BY <1>3, <1>4 DEF Injection, IsInjective
<1> QED BY <1>5, FramesFinite, FS_Injection DEF t

LEMMA AppendCounts ==
  ASSUME NEW s \in Seq(Item), NEW x \in Item
  PROVE  /\ x.type # "frame" => Frames(Append(s, x)) = Frames(s)
         /\ Cardinality(Frames(Append(s, x))) <= Cardinality(Frames(s)) + 1
<1> DEFINE t == Append(s, x)
           n == Len(s) + 1
<1>1. /\ t \in Seq(Item) /\ Len(t) = n /\ Len(s) \in Nat /\ t[n] = x
      /\ \A i \in 1 .. Len(s) : t[i] = s[i]
      /\ \A i : i \in 1 .. n <=> i \in 1 .. Len(s) \/ i = n
  OBVIOUS
<1> HIDE DEF t, n
<1>2. x.type # "frame" => Frames(t) = Frames(s)
  BY <1>1 DEF Frames
<1>3. Frames(t) \subseteq Frames(s) \cup {n}
  BY <1>1 DEF Frames
<1>4. IsFiniteSet(Frames(s)) /\ Cardinality(Frames(s)) \in Nat
  BY FramesFinite
<1>5. /\ IsFiniteSet(Frames(s) \cup {n})
      /\ Cardinality(Frames(s) \cup {n}) <= Cardinality(Frames(s)) + 1
  <2> DEFINE F == Frames(s)
  <2>1. IsFiniteSet(F) /\ Cardinality(F) \in Nat
    BY <1>4
  <2> HIDE DEF F
  <2>2. /\ IsFiniteSet(F \cup {n})
        /\ Cardinality(F \cup {n}) = IF n \in F THEN Cardinality(F) ELSE Cardinality(F) + 1
    BY <2>1, FS_AddElement
  <2>3. Cardinality(F \cup {n}) <= Cardinality(F) + 1
    BY <2>1, <2>2
  <2> QED BY <2>2, <2>3 DEF F
<1>6. Cardinality(Frames(t)) <= Cardinality(Frames(s) \cup {n})
  BY <1>3, <1>5, FS_Subset
<1>7. Cardinality(Frames(t)) \in Nat /\ Cardinality(Frames(s) \cup {n}) \in Nat
  BY <1>1, <1>5, FramesFinite, FS_CardinalityType
<1> QED BY <1>2, <1>4, <1>5, <1>6, <1>7 DEF t

\* enqueue keeps the queue within its bound.
LEMMA RoomIsBounded ==
  ASSUME NEW s \in Seq(Item), NEW x \in Item,
         Cardinality(Frames(s)) <= MaxQueued
  PROVE  /\ Append(Room(s, x), x) \in Seq(Item)
         /\ Cardinality(Frames(Append(Room(s, x), x))) <= MaxQueued
<1> DEFINE r == Room(s, x)
           q == Append(r, x)
<1>1. \/ r = s /\ (x.type # "frame" \/ Cardinality(Frames(s)) < MaxQueued)
      \/ \E k \in 1 .. Len(s) : s[k].type = "frame" /\ Lacks(r, s, k)
  BY RoomLacksOne DEF Frames
<1> HIDE DEF r
<1>2. r \in Seq(Item)
  BY <1>1 DEF Lacks
<1>3. q \in Seq(Item)
  BY <1>2
<1>4. /\ Cardinality(Frames(q)) \in Nat /\ Cardinality(Frames(s)) \in Nat
      /\ Cardinality(Frames(r)) \in Nat
      /\ Cardinality(Frames(q)) <= Cardinality(Frames(r)) + 1
      /\ x.type # "frame" => Frames(q) = Frames(r)
  BY <1>2, <1>3, FramesFinite, AppendCounts
<1> HIDE DEF q
<1>5. Cardinality(Frames(q)) <= MaxQueued
  <2>1. CASE r = s /\ x.type # "frame"
    BY <1>4, <2>1
  <2>2. CASE r = s /\ Cardinality(Frames(s)) < MaxQueued
    BY <1>4, <2>2, RecorderAssumption
  <2>3. CASE \E k \in 1 .. Len(s) : s[k].type = "frame" /\ Lacks(r, s, k)
    <3>1. Cardinality(Frames(r)) < Cardinality(Frames(s))
      BY <2>3, LossCounts
    <3> QED BY <1>4, <3>1, RecorderAssumption
  <2> QED BY <1>1, <2>1, <2>2, <2>3
<1> QED BY <1>3, <1>5 DEF q, r

-----------------------------------------------------------------------------
(* What a call may do to the line.                                          *)

LEMMA TapedTypes ==
  ASSUME NEW cs \in Seq([size : Sizes, frames : Seq(Picture), final : BOOLEAN])
  PROVE  /\ \A p : p \in Taped(cs) <=>
                     \E c \in 1 .. Len(cs) : \E i \in 1 .. Len(cs[c].frames) :
                       p = cs[c].frames[i]
         /\ Taped(cs) \subseteq Picture
<1>1. \A c \in 1 .. Len(cs) :
        /\ cs[c] \in [size : Sizes, frames : Seq(Picture), final : BOOLEAN]
        /\ cs[c].frames \in Seq(Picture)
  <2> SUFFICES ASSUME NEW c \in 1 .. Len(cs)
               PROVE  cs[c] \in [size : Sizes, frames : Seq(Picture), final : BOOLEAN]
    OBVIOUS
  <2> DEFINE R == [size : Sizes, frames : Seq(Picture), final : BOOLEAN]
  <2>1. cs \in Seq(R)
    OBVIOUS
  <2> HIDE DEF R
  <2>2. cs[c] \in R
    BY <2>1
  <2> QED BY <2>2 DEF R
<1>2. \A c \in 1 .. Len(cs) : \A i \in 1 .. Len(cs[c].frames) :
        i \in Nat /\ cs[c].frames[i] \in Picture
  BY <1>1
<1>3. ASSUME NEW p \in Taped(cs)
      PROVE  \E c \in 1 .. Len(cs) : \E i \in 1 .. Len(cs[c].frames) :
               p = cs[c].frames[i]
  BY DEF Taped
<1>4. ASSUME NEW c \in 1 .. Len(cs), NEW i \in 1 .. Len(cs[c].frames)
      PROVE  cs[c].frames[i] \in Taped(cs)
  <2> DEFINE On(d) == {cs[d].frames[j] : j \in 1 .. Len(cs[d].frames)}
  <2>1. Taped(cs) = UNION {On(d) : d \in 1 .. Len(cs)}
    BY DEF Taped
  <2>2. cs[c].frames[i] \in On(c)
    OBVIOUS
  <2> HIDE DEF On
  <2> QED BY <2>1, <2>2
<1> QED BY <1>2, <1>3, <1>4

LEMMA StateTypes ==
  ASSUME RecorderInv
  PROVE  /\ Line \in Seq(Item) /\ Pictures(Line) \subseteq Picture
         /\ Entries(preRoll) \subseteq Picture /\ Coming \subseteq Picture
         /\ Taped(clips) \subseteq Picture /\ taken \in Nat
<1>1. RecorderTypeOK
  BY DEF RecorderInv
<1>2. Line \in Seq(Item)
  BY <1>1, ItemConcat DEF RecorderTypeOK, Line
<1>3. Entries(preRoll) \subseteq Picture /\ Coming \subseteq Picture
  BY <1>1 DEF RecorderTypeOK, Entries, Coming
<1>4. Taped(clips) \subseteq Picture
  BY <1>1, TapedTypes DEF RecorderTypeOK
<1>5. taken \in Nat
  BY <1>1, RecorderAssumption DEF RecorderTypeOK
<1> QED BY <1>2, <1>3, <1>4, <1>5, OfPictures

\* A call that has the lock puts the items x behind the line.
LEMMA CallExtendsLine ==
  ASSUME RecorderInv, LockFree, NEW x \in Seq(Item), todo' = x, queue' = queue
  PROVE  Line' = Line \o x
<1>1. queue \in Seq(Item) /\ todo = <<>>
  BY DEF RecorderInv, RecorderTypeOK, LockFree
<1>2. Line = queue
  BY <1>1 DEF Line
<1> QED BY <1>2 DEF Line

\* The frames of a call come from the pre-roll and the hand.
LEMMA OrderExtends ==
  ASSUME NEW T, NEW H, NEW C, NEW H1, NEW C1, NEW n,
         NEW s \in Seq(Item), NEW x \in Seq(Item),
         Chronological(T, s, H, C, n), Ascend(x),
         Pictures(x) \cup H1 \subseteq H \cup C, Pictures(x) = {} \/ H1 = {},
         C1 \subseteq C, C1 = {} \/ Pictures(x) \cup H1 \subseteq H
  PROVE  Chronological(T, s \o x, H1, C1, n)
<1> DEFINE L == Pictures(s)
           X == Pictures(x)
<1>1. /\ Older(T, L) /\ Older(T, H) /\ Older(T, C) /\ Older(L, H) /\ Older(L, C)
      /\ Older(H, C) /\ \A p \in T \cup L \cup H \cup C : p.n <= n
      /\ Ascend(s)
  BY DEF Chronological
<1>2. /\ X \cup H1 \subseteq H \cup C
      /\ X = {} \/ H1 = {}
      /\ C1 = {} \/ X \cup H1 \subseteq H
  OBVIOUS
<1> HIDE DEF L, X
<1>3. Older(T, L \cup X) /\ Older(T, H1) /\ Older(T, C1)
  BY <1>1, <1>2 DEF Older
<1>4. Older(L, X) /\ Older(L \cup X, H1)
  BY <1>1, <1>2 DEF Older
<1>5. Older(L \cup X, C1) /\ Older(H1, C1)
  BY <1>1, <1>2 DEF Older
<1>6. \A p \in T \cup (L \cup X) \cup H1 \cup C1 : p.n <= n
  BY <1>1, <1>2
<1>7. Pictures(s \o x) = L \cup X /\ Ascend(s \o x)
  BY <1>1, <1>4, ConcatAscends DEF L, X
<1> QED BY <1>3, <1>4, <1>5, <1>6, <1>7 DEF Chronological

LEMMA ClipOrder ==
  /\ UNCHANGED clips => (FramesOnceInOrder => FramesOnceInOrder')
  /\ UNCHANGED clips => Taped(clips)' = Taped(clips)
<1>1. ASSUME UNCHANGED clips PROVE Recorded' = Recorded
  BY <1>1 DEF Recorded
<1>2. ASSUME UNCHANGED clips PROVE \A pos \in Recorded : Shot(pos)' = Shot(pos)
  BY <1>2 DEF Shot
<1>3. ASSUME UNCHANGED clips, FramesOnceInOrder PROVE FramesOnceInOrder'
  BY <1>1, <1>2, <1>3 DEF FramesOnceInOrder
<1>4. ASSUME UNCHANGED clips PROVE Taped(clips)' = Taped(clips)
  BY <1>4
<1> QED BY <1>3, <1>4

LEMMA CallKeepsOrder ==
  ASSUME RecorderInv, LockFree, NEW x \in Seq(Item), todo' = x, queue' = queue,
         clips' = clips, taken' = taken, Ascend(x), Rising(preRoll'),
         Pictures(x) \cup Entries(preRoll') \subseteq Entries(preRoll) \cup Coming,
         Pictures(x) = {} \/ Entries(preRoll') = {},
         \/ camera' = NoFrame
         \/ /\ camera' = camera
            /\ Pictures(x) \cup Entries(preRoll') \subseteq Entries(preRoll)
  PROVE  OrderInv'
<1>1. OrderInv
  BY DEF RecorderInv
<1>2. Line \in Seq(Item)
  BY StateTypes
<1>3. Line' = Line \o x
  BY CallExtendsLine
<1>4. /\ Coming' \subseteq Coming
      /\ Coming' = {} \/ Pictures(x) \cup Entries(preRoll') \subseteq Entries(preRoll)
  BY DEF Coming
<1>5. Chronological(Taped(clips), Line, Entries(preRoll), Coming, taken)
  BY <1>1 DEF OrderInv
<1>6. Chronological(Taped(clips), Line \o x, Entries(preRoll'), Coming', taken)
  BY <1>2, <1>4, <1>5, OrderExtends
<1>7. FramesOnceInOrder' /\ Taped(clips)' = Taped(clips)
  BY <1>1, ClipOrder DEF OrderInv
<1>8. Chronological(Taped(clips'), Line', Entries(preRoll'), Coming', taken')
  BY <1>3, <1>6
<1> QED BY <1>7, <1>8 DEF OrderInv

\* The items of a call end the session or go on with it.
LEMMA StepExtends ==
  ASSUME NEW w, NEW cs, NEW on, NEW z, NEW on1, NEW z1,
         NEW s \in Seq(Item), NEW x \in Seq(Item),
         InStep(w, cs, s, on, z), Chained(x),
         x # <<>> /\ x[1].type = "frame" => on /\ x[1].frame.size = z,
         x = <<>> => on1 = on /\ (on => z1 = z),
         x # <<>> /\ on1 => Carries(x[Len(x)], z1),
         x # <<>> /\ ~on1 => x[Len(x)].type \in {"stop", "shutdown"}
  PROVE  InStep(w, cs, s \o x, on1, z1)
<1> DEFINE c == s \o x
<1>1. /\ c \in Seq(Item) /\ Len(c) = Len(s) + Len(x)
      /\ \A i \in 1 .. Len(s) : i \in 1 .. Len(c) /\ c[i] = s[i]
      /\ \A i \in 1 .. Len(x) : i + Len(s) \in 1 .. Len(c) /\ c[i + Len(s)] = x[i]
  BY ItemConcat
<1> HIDE DEF c
<1>2. /\ Chained(s)
      /\ s # <<>> /\ s[1].type = "frame" => Shooting(w, cs, s[1].frame.size)
      /\ on => IF s = <<>> THEN Shooting(w, cs, z) ELSE Carries(s[Len(s)], z)
      /\ ~on => IF s = <<>> THEN w \in {"idle", "exited"}
                ELSE s[Len(s)].type \in {"stop", "shutdown"}
  BY DEF InStep
<1>3. /\ Len(s) \in Nat /\ (s = <<>> <=> Len(s) = 0)
      /\ Len(x) \in Nat /\ (x = <<>> <=> Len(x) = 0) /\ (c = <<>> <=> Len(c) = 0)
  BY <1>1
<1>4. Chained(c)
  <2>1. s # <<>> /\ x # <<>> /\ x[1].type = "frame" =>
          Carries(s[Len(s)], x[1].frame.size)
    BY <1>2
  <2> QED BY <1>2, <2>1, ConcatChained DEF c
<1>5. c # <<>> /\ c[1].type = "frame" => Shooting(w, cs, c[1].frame.size)
  <2>1. CASE s # <<>>
    <3>1. c[1] = s[1]
      BY <1>1, <1>3, <2>1
    <3> QED BY <1>2, <2>1, <3>1
  <2>2. CASE s = <<>> /\ x # <<>>
    <3>1. c[1] = x[1]
      <4>1. 1 \in 1 .. Len(x) /\ 1 + Len(s) = 1
        BY <1>3, <2>2
      <4> QED BY <1>1, <4>1
    <3> QED BY <1>2, <2>2, <3>1
  <2>3. CASE s = <<>> /\ x = <<>>
    <3>1. c = <<>>
      BY <1>1, <1>3, <2>3
    <3> QED BY <3>1
  <2> QED BY <2>1, <2>2, <2>3
<1>6. /\ on1 => IF c = <<>> THEN Shooting(w, cs, z1) ELSE Carries(c[Len(c)], z1)
      /\ ~on1 => IF c = <<>> THEN w \in {"idle", "exited"}
                 ELSE c[Len(c)].type \in {"stop", "shutdown"}
  <2>1. CASE x # <<>>
    <3>1. Len(x) \in 1 .. Len(x) /\ Len(x) + Len(s) = Len(c) /\ Len(c) # 0
      BY <1>1, <1>3, <2>1
    <3>2. c # <<>> /\ c[Len(c)] = x[Len(x)]
      BY <1>1, <1>3, <3>1
    <3> QED BY <2>1, <3>2
  <2>2. CASE x = <<>>
    <3>1. c = s
      BY <2>2 DEF c
    <3> QED BY <1>2, <2>2, <3>1
  <2> QED BY <2>1, <2>2
<1> QED BY <1>4, <1>5, <1>6 DEF InStep, c

LEMMA CallKeepsSession ==
  ASSUME RecorderInv, LockFree, NEW x \in Seq(Item), todo' = x, queue' = queue,
         clips' = clips, worker' = worker, skipped' = skipped,
         closing' = "closed" => x = <<>>,
         closing' \in {"ending", "join"} => ~active',
         active' => preRoll' = <<>>, OneSize(preRoll'),
         Chained(x),
         x # <<>> /\ x[1].type = "frame" => active /\ x[1].frame.size = sessionSize,
         x = <<>> => active' = active /\ (active => sessionSize' = sessionSize),
         x # <<>> /\ active' => Carries(x[Len(x)], sessionSize'),
         x # <<>> /\ ~active' => x[Len(x)].type \in {"stop", "shutdown"}
  PROVE  SessionInv'
<1>1. SessionInv
  BY DEF RecorderInv
<1>2. Line \in Seq(Item)
  BY StateTypes
<1>3. Line' = Line \o x
  BY CallExtendsLine
<1>4. InStep(worker, clips, Line, active, sessionSize)
  BY <1>1 DEF SessionInv
<1>5. InStep(worker, clips, Line \o x, active', sessionSize')
  BY <1>2, <1>4, StepExtends
<1>6. InStep(worker', clips', Line', active', sessionSize')
  BY <1>3, <1>5
<1>7. /\ skipped' = {} /\ (worker' = "open" => clips' # <<>>)
      /\ closing' = "closed" => todo' = <<>>
  BY <1>1 DEF SessionInv
<1> QED BY <1>6, <1>7 DEF SessionInv

-----------------------------------------------------------------------------
(* The calls.                                                               *)

\* Only the camera, the clock or a flag moves.
LEMMA NothingMoves ==
  ASSUME RecorderInv, clips' = clips, todo' = todo, queue' = queue,
         preRoll' = preRoll
  PROVE  /\ camera' = camera /\ taken' = taken => OrderInv'
         /\ /\ UNCHANGED <<worker, skipped, active, sessionSize>>
            /\ closing' = "closed" => todo = <<>>
            /\ closing' \in {"ending", "join"} => ~active
            => SessionInv'
<1>1. OrderInv /\ SessionInv
  BY DEF RecorderInv
<1>2. Line' = Line /\ FramesOnceInOrder' /\ Taped(clips)' = Taped(clips)
  BY <1>1, ClipOrder DEF Line, OrderInv
<1>3. ASSUME camera' = camera, taken' = taken PROVE OrderInv'
  <2>1. Chronological(Taped(clips), Line, Entries(preRoll), Coming, taken) /\ Rising(preRoll)
    BY <1>1 DEF OrderInv
  <2>2. Coming' = Coming
    BY <1>3 DEF Coming
  <2>3. Chronological(Taped(clips'), Line', Entries(preRoll'), Coming', taken')
    BY <1>2, <1>3, <2>1, <2>2
  <2> QED BY <1>2, <2>1, <2>3 DEF OrderInv
<1>4. ASSUME UNCHANGED <<worker, skipped, active, sessionSize>>,
             closing' = "closed" => todo = <<>>,
             closing' \in {"ending", "join"} => ~active
      PROVE  SessionInv'
  <2>1. InStep(worker', clips', Line', active', sessionSize')
    BY <1>1, <1>2, <1>4 DEF SessionInv
  <2> QED BY <1>1, <1>4, <2>1 DEF SessionInv
<1> QED BY <1>3, <1>4

\* The frame that arrives is newer than all the others.
LEMMA TakePictureKeeps ==
  ASSUME RecorderInv, NEW size \in Sizes, TakePicture(size)
  PROVE  RecorderInv'
<1> USE DEF TakePicture, callerVars, workerVars
<1>1. RecorderTypeOK /\ OrderInv /\ SessionInv /\ PersonInv
  BY DEF RecorderInv
<1> DEFINE p == [n |-> taken + 1, at |-> clock, size |-> size]
<1>2. p \in Picture /\ p.n = taken + 1 /\ p # NoFrame /\ taken' \in 0 .. MaxFrames
  BY <1>1, RecorderAssumption, NoFrameAssumption DEF RecorderTypeOK, Picture
<1>3. camera' = p
  OBVIOUS
<1> HIDE DEF p
<1>4. RecorderTypeOK'
  BY <1>1, <1>2, <1>3 DEF RecorderTypeOK
<1>5. OrderInv'
  <2> DEFINE T == Taped(clips)
             L == Pictures(Line)
             H == Entries(preRoll)
  <2>1. /\ Chronological(T, Line, H, Coming, taken) /\ Rising(preRoll)
        /\ T \subseteq Picture /\ L \subseteq Picture /\ H \subseteq Picture
        /\ taken \in Nat
    BY <1>1, StateTypes DEF OrderInv
  <2>2. Line' = Line /\ FramesOnceInOrder' /\ Taped(clips)' = T /\ preRoll' = preRoll
    BY <1>1, ClipOrder DEF Line, OrderInv
  <2>3. Coming' = {p}
    BY <1>2, <1>3 DEF Coming
  <2>4. /\ \A q \in T \cup L \cup H : q.n \in Nat /\ q.n <= taken
        /\ Ascend(Line) /\ Older(T, L) /\ Older(T, H) /\ Older(L, H)
    BY <2>1, PictureTypes DEF Chronological
  <2> HIDE DEF T, L, H
  <2>5. Older(T, {p}) /\ Older(L, {p}) /\ Older(H, {p})
    BY <1>2, <2>1, <2>4 DEF Older
  <2>6. \A q \in T \cup L \cup H \cup {p} : q.n <= taken + 1
    BY <1>2, <2>1, <2>4
  <2>7. Chronological(T, Line, H, {p}, taken + 1)
    BY <2>4, <2>5, <2>6 DEF Chronological, L
  <2>8. Chronological(Taped(clips'), Line', Entries(preRoll'), Coming', taken')
    BY <2>2, <2>3, <2>7 DEF T, H
  <2> QED BY <2>1, <2>2, <2>8 DEF OrderInv
<1>6. SessionInv'
  BY <1>1, NothingMoves DEF SessionInv
<1>7. PersonInv'
  BY <1>1 DEF PersonInv, StopsWhenEmpty, Overdue, Pictures
<1> QED BY <1>4, <1>5, <1>6, <1>7 DEF RecorderInv

LEMMA PushIgnoredKeeps ==
  ASSUME RecorderInv, PushIgnored
  PROVE  RecorderInv'
<1> USE DEF PushIgnored, callerVars, workerVars
<1>1. RecorderTypeOK /\ OrderInv /\ SessionInv /\ PersonInv
  BY DEF RecorderInv
<1>2. RecorderTypeOK'
  BY <1>1 DEF RecorderTypeOK
<1>3. OrderInv'
  <2>1. /\ <<>> \in Seq(Item) /\ Ascend(<<>>) /\ Pictures(<<>>) = {}
    BY DEF Ascend, Pictures
  <2>2. Rising(preRoll)
    BY <1>1 DEF OrderInv
  <2> QED BY <2>1, <2>2, CallKeepsOrder DEF LockFree
<1>4. SessionInv'
  BY <1>1, NothingMoves DEF SessionInv
<1>5. PersonInv'
  BY <1>1 DEF PersonInv, StopsWhenEmpty, Overdue, Pictures
<1> QED BY <1>2, <1>3, <1>4, <1>5 DEF RecorderInv

LEMMA EndingItems ==
  ASSUME RecorderInv
  PROVE  /\ Ending \in Seq(Item) /\ Ascend(Ending) /\ Chained(Ending)
         /\ Pictures(Ending) = {}
         /\ active => /\ Ending # <<>> /\ Ending[1].type = "stop"
                      /\ Ending[Len(Ending)].type = "stop"
         /\ ~active => Ending = <<>>
<1>1. active \in BOOLEAN
  BY DEF RecorderInv, RecorderTypeOK
<1>2. CASE active
  <2>1. Ending = <<StopItem>>
    BY <1>2 DEF Ending
  <2>2. StopItem \in Item /\ StopItem.type = "stop"
    BY ItemKinds
  <2> QED BY <1>2, <2>1, <2>2, OneItem
<1>3. CASE ~active
  <2>1. Ending = <<>>
    BY <1>3 DEF Ending
  <2> QED BY <1>3, <2>1 DEF Ascend, Chained, Pictures
<1> QED BY <1>1, <1>2, <1>3

\* A session may end and the next begin in one call.
LEMMA NewSession ==
  ASSUME RecorderInv, NEW f \in Seq(Picture), NEW z \in Sizes, Rising(f),
         \A i \in 1 .. Len(f) : f[i].size = z
  PROVE  LET s == Ending \o StartItems(f, z)
         IN /\ s \in Seq(Item) /\ s # <<>> /\ s[1].type # "frame"
            /\ Pictures(s) = Entries(f) /\ Ascend(s) /\ Chained(s)
            /\ Carries(s[Len(s)], z)
<1> DEFINE e == Ending
           t == StartItems(f, z)
           s == e \o t
<1>1. /\ t \in Seq(Item) /\ t # <<>> /\ t[1].type = "start"
      /\ Pictures(t) = Entries(f) /\ Ascend(t) /\ Chained(t)
      /\ Carries(t[Len(t)], z)
  BY StartedItems
<1>2. /\ e \in Seq(Item) /\ Ascend(e) /\ Chained(e) /\ Pictures(e) = {}
      /\ e # <<>> => e[1].type = "stop"
  <2>1. active \in BOOLEAN
    BY DEF RecorderInv, RecorderTypeOK
  <2> QED BY <2>1, EndingItems
<1> HIDE DEF e, t
<1>3. Ascend(s) /\ Pictures(s) = Pictures(t)
  <2>1. Older(Pictures(e), Pictures(t))
    BY <1>2 DEF Older
  <2>2. /\ Pictures(e \o t) = Pictures(e) \cup Pictures(t)
        /\ Ascend(e) /\ Ascend(t) /\ Older(Pictures(e), Pictures(t)) => Ascend(e \o t)
    BY <1>1, <1>2, ConcatAscends
  <2> QED BY <1>1, <1>2, <2>1, <2>2
<1>4. Chained(s)
  BY <1>1, <1>2, ConcatChained
<1>5. /\ s \in Seq(Item) /\ Len(s) = Len(e) + Len(t)
      /\ Len(e) \in Nat /\ Len(t) \in Nat
      /\ \A i \in 1 .. Len(e) : i \in 1 .. Len(s) /\ s[i] = e[i]
      /\ \A i \in 1 .. Len(t) : i + Len(e) \in 1 .. Len(s) /\ s[i + Len(e)] = t[i]
  BY <1>1, <1>2, ItemConcat
<1> HIDE DEF s
<1>6. Len(t) >= 1 /\ Len(s) >= 1 /\ s # <<>>
  BY <1>1, <1>5
<1>7. s[Len(s)] = t[Len(t)]
  <2>1. Len(t) \in 1 .. Len(t) /\ Len(t) + Len(e) = Len(s)
    BY <1>5, <1>6
  <2> QED BY <1>5, <2>1
<1>8. s[1].type # "frame"
  <2>1. CASE e = <<>>
    <3>1. 1 \in 1 .. Len(t) /\ 1 + Len(e) = 1
      BY <1>6, <2>1
    <3>2. s[1] = t[1]
      BY <1>5, <3>1
    <3> QED BY <1>1, <3>2
  <2>2. CASE e # <<>>
    <3>1. 1 \in 1 .. Len(e)
      BY <1>2, <2>2
    <3>2. s[1] = e[1]
      BY <1>5, <3>1
    <3> QED BY <1>2, <2>2, <3>2
  <2> QED BY <2>1, <2>2
<1> QED BY <1>1, <1>3, <1>4, <1>5, <1>6, <1>7, <1>8 DEF s, e, t

LEMMA PushOutsideKeeps ==
  ASSUME RecorderInv, PushOutsideSession
  PROVE  RecorderInv'
<1> DEFINE p == camera
           b == Buffered(preRoll, camera)
           x == todo'
<1>1. RecorderTypeOK /\ OrderInv /\ SessionInv /\ PersonInv
  BY DEF RecorderInv
<1>2. /\ todo = <<>> /\ camera # NoFrame /\ closing = "no"
      /\ lastPerson' = IF active THEN -1 ELSE lastPerson
      /\ resized' = active /\ camera' = NoFrame
      /\ UNCHANGED <<clock, taken, present, seenAt, closing, queue, worker, clips,
                     skipped, dropped>>
  BY DEF PushOutsideSession, LockFree, workerVars
<1>3. p \in Picture /\ p.size \in Sizes /\ Coming = {p}
  <2>1. p \in Picture
    BY <1>1, <1>2 DEF RecorderTypeOK
  <2> QED BY <1>2, <2>1, PictureTypes DEF Coming
<1>4. /\ b \in Seq(Picture) /\ Len(b) <= MaxPreRoll
      /\ Entries(b) \subseteq Entries(preRoll) \cup Coming
      /\ Rising(b) /\ \A i \in 1 .. Len(b) : b[i].size = p.size
  <2>1. preRoll \in Seq(Picture) /\ Rising(preRoll) /\ OneSize(preRoll)
    BY <1>1 DEF RecorderTypeOK, OrderInv, SessionInv
  <2>2. Older(Entries(preRoll), {p})
    BY <1>1, <1>3 DEF OrderInv, Chronological
  <2> QED BY <1>3, <2>1, <2>2, BufferedFrames
<1>5. /\ present => /\ preRoll' = <<>> /\ active' = TRUE /\ sessionSize' = p.size
                    /\ x = Ending \o StartItems(b, p.size)
      /\ ~present => /\ preRoll' = b /\ active' = FALSE
                     /\ sessionSize' = sessionSize /\ x = Ending
  BY DEF PushOutsideSession, Start
<1> HIDE DEF b
<1>6. /\ x \in Seq(Item) /\ Ascend(x) /\ Chained(x)
      /\ x # <<>> => x[1].type # "frame"
      /\ Pictures(x) = IF present THEN Entries(b) ELSE {}
      /\ present => x # <<>> /\ Carries(x[Len(x)], p.size)
      /\ ~present => /\ active => x # <<>> /\ x[Len(x)].type = "stop"
                     /\ ~active => x = <<>>
  <2>1. CASE present
    <3> DEFINE t == Ending \o StartItems(b, p.size)
    <3>1. /\ t \in Seq(Item) /\ t # <<>> /\ t[1].type # "frame"
          /\ Pictures(t) = Entries(b) /\ Ascend(t) /\ Chained(t)
          /\ Carries(t[Len(t)], p.size)
      BY <1>3, <1>4, NewSession
    <3> HIDE DEF t
    <3>2. x = t
      BY <1>5, <2>1 DEF t
    <3> QED BY <2>1, <3>1, <3>2
  <2>2. CASE ~present
    <3>1. x = Ending /\ active \in BOOLEAN
      BY <1>1, <1>5, <2>2 DEF RecorderTypeOK
    <3> QED BY <2>2, <3>1, EndingItems
  <2>3. present \in BOOLEAN
    BY <1>1 DEF RecorderTypeOK
  <2> QED BY <2>1, <2>2, <2>3
<1> HIDE DEF x
<1>7. /\ preRoll' \in Seq(Picture) /\ Len(preRoll') <= MaxPreRoll /\ Rising(preRoll')
      /\ OneSize(preRoll') /\ Entries(preRoll') = IF present THEN {} ELSE Entries(b)
      /\ active' => preRoll' = <<>>
  <2>1. CASE present
    <3>1. preRoll' = <<>>
      BY <1>5, <2>1
    <3>2. <<>> \in Seq(Picture) /\ Len(<<>>) = 0 /\ Entries(<<>>) = {}
      BY DEF Entries
    <3>3. Rising(<<>>) /\ OneSize(<<>>)
      BY DEF Rising, OneSize
    <3> QED BY <2>1, <3>1, <3>2, <3>3, RecorderAssumption
  <2>2. CASE ~present
    <3>1. OneSize(b)
      BY <1>4 DEF OneSize
    <3> QED BY <1>4, <1>5, <2>2, <3>1
  <2>3. present \in BOOLEAN
    BY <1>1 DEF RecorderTypeOK
  <2> QED BY <2>1, <2>2, <2>3
<1>8. RecorderTypeOK'
  <2>1. active' \in BOOLEAN /\ sessionSize' \in Sizes /\ present \in BOOLEAN
    BY <1>1, <1>3, <1>5 DEF RecorderTypeOK
  <2>2. lastPerson' \in -1 .. MaxClock /\ resized' \in BOOLEAN
    BY <1>1, <1>2, RecorderAssumption DEF RecorderTypeOK
  <2>3. todo' \in Seq(Item)
    BY <1>6 DEF x
  <2> QED BY <1>1, <1>2, <1>7, <2>1, <2>2, <2>3 DEF RecorderTypeOK
<1>9. OrderInv'
  <2>1. /\ LockFree /\ todo' = x /\ queue' = queue /\ clips' = clips
        /\ taken' = taken /\ camera' = NoFrame
    BY <1>2 DEF LockFree, x
  <2>2. /\ Pictures(x) \cup Entries(preRoll') \subseteq Entries(preRoll) \cup Coming
        /\ Pictures(x) = {} \/ Entries(preRoll') = {}
    BY <1>4, <1>6, <1>7
  <2> QED BY <1>6, <1>7, <2>1, <2>2, CallKeepsOrder
<1>10. SessionInv'
  <2>1. /\ LockFree /\ todo' = x /\ queue' = queue /\ clips' = clips
        /\ worker' = worker /\ skipped' = skipped /\ closing' = "no"
    BY <1>2 DEF LockFree, x
  <2>2. /\ x = <<>> => active' = active /\ (active => sessionSize' = sessionSize)
        /\ x # <<>> /\ active' => Carries(x[Len(x)], sessionSize')
        /\ x # <<>> /\ ~active' => x[Len(x)].type \in {"stop", "shutdown"}
    <3>1. present \in BOOLEAN /\ active \in BOOLEAN
      BY <1>1 DEF RecorderTypeOK
    <3>2. CASE present
      BY <1>5, <1>6, <3>2
    <3>3. CASE ~present
      BY <1>5, <1>6, <3>1, <3>3
    <3> QED BY <3>1, <3>2, <3>3
  <2> QED BY <1>6, <1>7, <2>1, <2>2, CallKeepsSession
<1>11. PersonInv'
  <2>1. /\ present \/ active => seenAt >= 0
        /\ present /\ ~active => lastPerson = seenAt
        /\ present \in BOOLEAN /\ active \in BOOLEAN
        /\ seenAt' = seenAt /\ present' = present
    BY <1>1, <1>2 DEF PersonInv, RecorderTypeOK
  <2>2. present' \/ active' => seenAt' >= 0
    BY <1>5, <2>1
  <2>3. active' => lastPerson' = seenAt' \/ (lastPerson' = -1 /\ resized')
    BY <1>2, <1>5, <2>1
  <2>4. present' /\ ~active' => FALSE
    BY <1>5, <2>1
  <2>5. ~Overdue'
    BY <1>5, <2>1 DEF Overdue
  <2> QED BY <2>2, <2>3, <2>4, <2>5 DEF PersonInv, StopsWhenEmpty
<1> QED BY <1>8, <1>9, <1>10, <1>11 DEF RecorderInv

LEMMA PushInSessionKeeps ==
  ASSUME RecorderInv, PushInSession
  PROVE  RecorderInv'
<1> DEFINE p == camera
           x == todo'
           late == EmptyTimeout(camera.at)
<1>1. RecorderTypeOK /\ OrderInv /\ SessionInv /\ PersonInv
  BY DEF RecorderInv
<1>2. /\ todo = <<>> /\ camera # NoFrame /\ closing = "no"
      /\ active /\ p.size = sessionSize /\ camera' = NoFrame
      /\ UNCHANGED <<clock, taken, preRoll, present, sessionSize, seenAt, resized,
                     closing, queue, worker, clips, skipped, dropped>>
  BY DEF PushInSession, LockFree, workerVars
<1>3. /\ late => /\ active' = FALSE /\ lastPerson' = -1
                 /\ x = <<FrameItem(p)>> \o <<StopItem>>
      /\ ~late => /\ active' = active /\ lastPerson' = lastPerson
                  /\ x = <<FrameItem(p)>>
  BY <1>2 DEF PushInSession, Ending
<1>4. p \in Picture /\ Coming = {p} /\ FrameItem(p) \in Item
      /\ FrameItem(p).type = "frame" /\ FrameItem(p).frame = p
  <2>1. p \in Picture
    BY <1>1, <1>2 DEF RecorderTypeOK
  <2> QED BY <1>2, <2>1, ItemKinds DEF Coming
<1>5. late \in BOOLEAN
  BY DEF EmptyTimeout
<1>6. preRoll = <<>> /\ Entries(preRoll) = {} /\ Rising(preRoll) /\ OneSize(preRoll)
  BY <1>1, <1>2 DEF SessionInv, OrderInv, Entries
<1> HIDE DEF late
<1>7. /\ x \in Seq(Item) /\ Ascend(x) /\ Chained(x) /\ Pictures(x) = {p} /\ x # <<>>
      /\ x[1] = FrameItem(p)
      /\ late => x[Len(x)].type = "stop"
      /\ ~late => x[Len(x)] = FrameItem(p)
  <2> DEFINE a == <<FrameItem(p)>>
             b == <<StopItem>>
  <2>1. /\ a \in Seq(Item) /\ Len(a) = 1 /\ a[1] = FrameItem(p) /\ Ascend(a)
        /\ Chained(a) /\ Pictures(a) = {p} /\ a # <<>>
    BY <1>4, OneItem
  <2>2. StopItem \in Item /\ StopItem.type = "stop"
    BY ItemKinds
  <2>3. /\ b \in Seq(Item) /\ Len(b) = 1 /\ b[1] = StopItem /\ Ascend(b)
        /\ Chained(b) /\ Pictures(b) = {}
    BY <2>2, OneItem
  <2> HIDE DEF a, b
  <2>4. CASE late
    <3>1. x = a \o b
      BY <1>3, <2>4 DEF a, b
    <3>2. Pictures(a \o b) = {p} /\ Ascend(a \o b)
      <4>1. Older(Pictures(a), Pictures(b))
        BY <2>3 DEF Older
      <4> QED BY <2>1, <2>3, <4>1, ConcatAscends
    <3>3. Chained(a \o b)
      BY <2>1, <2>2, <2>3, ConcatChained
    <3>4. /\ a \o b \in Seq(Item) /\ Len(a \o b) = 2 /\ (a \o b)[1] = a[1]
          /\ (a \o b)[2] = b[1]
      <4>1. /\ a \o b \in Seq(Item) /\ Len(a \o b) = Len(a) + Len(b)
            /\ \A i \in 1 .. Len(a) : (a \o b)[i] = a[i]
            /\ \A i \in 1 .. Len(b) : (a \o b)[i + Len(a)] = b[i]
        BY <2>1, <2>3, ItemConcat
      <4>2. 1 \in 1 .. Len(a) /\ 1 \in 1 .. Len(b) /\ 1 + Len(a) = 2
        BY <2>1, <2>3
      <4>3. Len(a \o b) = 2
        BY <2>1, <2>3, <4>1
      <4> QED BY <4>1, <4>2, <4>3
    <3> HIDE DEF x
    <3>5. x # <<>> /\ Len(x) = 2
      BY <3>1, <3>4
    <3> QED BY <2>1, <2>2, <2>3, <2>4, <3>1, <3>2, <3>3, <3>4, <3>5
  <2>5. CASE ~late
    <3>1. x = a
      BY <1>3, <2>5 DEF a
    <3> HIDE DEF x
    <3> QED BY <2>1, <2>5, <3>1
  <2> QED BY <1>5, <2>4, <2>5
<1> HIDE DEF x
<1>8. RecorderTypeOK'
  <2>1. active' \in BOOLEAN /\ lastPerson' \in -1 .. MaxClock
    <3>1. active \in BOOLEAN /\ lastPerson \in -1 .. MaxClock /\ -1 \in -1 .. MaxClock
      BY <1>1, RecorderAssumption DEF RecorderTypeOK
    <3> QED BY <1>3, <1>5, <3>1
  <2>2. todo' \in Seq(Item)
    BY <1>7 DEF x
  <2> QED BY <1>1, <1>2, <2>1, <2>2 DEF RecorderTypeOK
<1>9. OrderInv'
  <2>1. /\ LockFree /\ todo' = x /\ queue' = queue /\ clips' = clips
        /\ taken' = taken /\ camera' = NoFrame /\ preRoll' = preRoll
    BY <1>2 DEF LockFree, x
  <2>2. /\ Pictures(x) \cup Entries(preRoll') \subseteq Entries(preRoll) \cup Coming
        /\ Pictures(x) = {} \/ Entries(preRoll') = {}
    BY <1>4, <1>6, <1>7, <2>1
  <2>3. Rising(preRoll')
    BY <1>6, <2>1
  <2> QED BY <1>7, <2>1, <2>2, <2>3, CallKeepsOrder
<1>10. SessionInv'
  <2>1. /\ LockFree /\ todo' = x /\ queue' = queue /\ clips' = clips
        /\ worker' = worker /\ skipped' = skipped /\ closing' = "no"
        /\ preRoll' = <<>> /\ OneSize(preRoll') /\ sessionSize' = p.size
    BY <1>2, <1>6 DEF LockFree, x
  <2>2. active /\ x[1].frame.size = sessionSize
    BY <1>2, <1>4, <1>7
  <2>3. /\ x # <<>>
        /\ active' => Carries(x[Len(x)], sessionSize')
        /\ ~active' => x[Len(x)].type \in {"stop", "shutdown"}
    BY <1>2, <1>3, <1>4, <1>5, <1>7, <2>1 DEF Carries
  <2> QED BY <1>7, <2>1, <2>2, <2>3, CallKeepsSession
<1>11. PersonInv'
  <2>1. /\ active => seenAt >= 0
        /\ present \/ active => seenAt >= 0
        /\ active => lastPerson = seenAt \/ (lastPerson = -1 /\ resized)
        /\ seenAt' = seenAt /\ present' = present /\ resized' = resized
        /\ seenAt \in Int /\ lastPerson \in Int /\ p.at \in Int
    BY <1>1, <1>2, <1>4, PictureTypes DEF PersonInv, RecorderTypeOK
  <2>2. /\ present' \/ active' => seenAt' >= 0
        /\ active' => lastPerson' = seenAt' \/ (lastPerson' = -1 /\ resized')
    <3>1. seenAt' >= 0
      BY <1>2, <2>1
    <3>2. active' => ~late
      BY <1>3
    <3>3. ~late => lastPerson' = lastPerson
      BY <1>3
    <3> QED BY <1>2, <2>1, <3>1, <3>2, <3>3
  <2>3. present' /\ ~active' => FALSE
    BY <1>2, <1>3, <1>5, <2>1 DEF late, EmptyTimeout
  <2>4. StopsWhenEmpty'
    <3> SUFFICES ASSUME active', ~present', ~resized',
                        NEW q \in Pictures(todo'), q.at - seenAt' >= EmptyStop
                 PROVE  FALSE
      BY DEF StopsWhenEmpty, Overdue
    <3>1. q = p /\ ~late
      BY <1>3, <1>5, <1>7 DEF x
    <3>2. lastPerson = seenAt /\ seenAt >= 0
      BY <1>2, <2>1
    <3> QED BY <2>1, <3>1, <3>2 DEF late, EmptyTimeout
  <2> QED BY <2>2, <2>3, <2>4 DEF PersonInv
<1> QED BY <1>8, <1>9, <1>10, <1>11 DEF RecorderInv

LEMMA PersonLeftKeeps ==
  ASSUME RecorderInv, PersonLeft
  PROVE  RecorderInv'
<1> USE DEF PersonLeft, workerVars
<1>1. RecorderTypeOK /\ OrderInv /\ SessionInv /\ PersonInv
  BY DEF RecorderInv
<1>2. RecorderTypeOK'
  BY <1>1 DEF RecorderTypeOK
<1>3. OrderInv' /\ SessionInv'
  BY <1>1, NothingMoves DEF SessionInv
<1>4. PersonInv'
  <2>1. todo' = <<>>
    BY DEF LockFree
  <2>2. ~Overdue'
    <3>1. Pictures(<<>>) = {}
      BY DEF Pictures
    <3> QED BY <2>1, <3>1 DEF Overdue
  <2> QED BY <1>1, <2>2 DEF PersonInv, StopsWhenEmpty
<1> QED BY <1>2, <1>3, <1>4 DEF RecorderInv

LEMMA PersonSeenKeeps ==
  ASSUME RecorderInv, PersonSeen
  PROVE  RecorderInv'
<1> DEFINE f == Recent(preRoll, clock)
           z == f[Len(f)].size
           begins == ~active /\ f # <<>>
<1>1. RecorderTypeOK /\ OrderInv /\ SessionInv /\ PersonInv
  BY DEF RecorderInv
<1>2. /\ todo = <<>> /\ closing = "no" /\ present' = TRUE /\ resized' = FALSE
      /\ lastPerson' = clock /\ seenAt' = clock
      /\ UNCHANGED <<clock, taken, camera, closing, queue, worker, clips,
                     skipped, dropped>>
  BY DEF PersonSeen, LockFree, workerVars
<1>3. /\ begins => /\ preRoll' = <<>> /\ active' = TRUE /\ sessionSize' = z
                   /\ todo' = StartItems(f, z)
      /\ ~begins => /\ preRoll' = f
                    /\ UNCHANGED <<active, sessionSize, todo>>
  BY DEF PersonSeen, Start
<1>4. /\ f \in Seq(Picture) /\ Len(f) <= Len(preRoll)
      /\ Entries(f) \subseteq Entries(preRoll) /\ Rising(f) /\ OneSize(f)
  <2>1. preRoll \in Seq(Picture) /\ Rising(preRoll) /\ OneSize(preRoll)
    BY <1>1 DEF RecorderTypeOK, OrderInv, SessionInv
  <2>2. Suffix(f, preRoll)
    BY <2>1, RecentIsSuffix
  <2> HIDE DEF f
  <2> QED BY <2>1, <2>2, SuffixKeeps
<1> HIDE DEF f
<1>5. f # <<>> => z \in Sizes /\ \A i \in 1 .. Len(f) : f[i].size = z
  <2> SUFFICES ASSUME f # <<>>
               PROVE  z \in Sizes /\ \A i \in 1 .. Len(f) : f[i].size = z
    OBVIOUS
  <2>1. Len(f) \in 1 .. Len(f) /\ f[Len(f)] \in Picture
    BY <1>4
  <2> QED BY <1>4, <2>1, PictureTypes DEF OneSize
<1>6. active \in BOOLEAN /\ (active => preRoll = <<>>) /\ (active => f = <<>>)
  <2>1. active \in BOOLEAN /\ (active => preRoll = <<>>)
    BY <1>1 DEF RecorderTypeOK, SessionInv
  <2>2. ASSUME preRoll = <<>> PROVE f = <<>>
    <3>1. Len(preRoll) = 0 /\ Len(f) \in Nat
      BY <1>4, <2>2
    <3>2. Len(f) = 0
      BY <1>4, <3>1
    <3> QED BY <1>4, <3>2
  <2> QED BY <2>1, <2>2
<1> HIDE DEF z
<1>7. CASE begins
  <2> DEFINE x == StartItems(f, z)
  <2>1. /\ x \in Seq(Item) /\ x # <<>> /\ x[1].type = "start"
        /\ Pictures(x) = Entries(f) /\ Ascend(x) /\ Chained(x)
        /\ Carries(x[Len(x)], z)
    BY <1>4, <1>5, <1>7, StartedItems
  <2> HIDE DEF x
  <2>2. /\ preRoll' = <<>> /\ active' = TRUE /\ sessionSize' = z /\ todo' = x
    BY <1>3, <1>7 DEF x
  <2>3. /\ <<>> \in Seq(Picture) /\ Len(<<>>) = 0 /\ Entries(<<>>) = {}
        /\ Rising(<<>>) /\ OneSize(<<>>)
    BY DEF Entries, Rising, OneSize
  <2>4. RecorderTypeOK'
    <3>1. preRoll' \in Seq(Picture) /\ Len(preRoll') <= MaxPreRoll
      BY <2>2, <2>3, RecorderAssumption
    <3>2. clock \in -1 .. MaxClock
      BY <1>1, RecorderAssumption DEF RecorderTypeOK
    <3> QED BY <1>1, <1>2, <1>5, <1>7, <2>1, <2>2, <3>1, <3>2 DEF RecorderTypeOK
  <2>5. OrderInv'
    <3>1. /\ LockFree /\ todo' = x /\ queue' = queue /\ clips' = clips
          /\ taken' = taken /\ camera' = camera
      BY <1>2, <2>2 DEF LockFree
    <3>2. /\ Pictures(x) \cup Entries(preRoll') \subseteq Entries(preRoll)
          /\ Entries(preRoll') = {} /\ Rising(preRoll')
      BY <1>4, <2>1, <2>2, <2>3
    <3> QED BY <2>1, <3>1, <3>2, CallKeepsOrder
  <2>6. SessionInv'
    <3>1. /\ LockFree /\ todo' = x /\ queue' = queue /\ clips' = clips
          /\ worker' = worker /\ skipped' = skipped /\ closing' = "no"
          /\ preRoll' = <<>> /\ OneSize(preRoll') /\ sessionSize' = z /\ active'
      BY <1>2, <2>2, <2>3 DEF LockFree
    <3> QED BY <2>1, <3>1, CallKeepsSession
  <2>7. PersonInv'
    <3>1. seenAt' >= 0 /\ lastPerson' = seenAt' /\ present'
      BY <1>1, <1>2, RecorderAssumption DEF RecorderTypeOK
    <3> QED BY <3>1 DEF PersonInv, StopsWhenEmpty, Overdue
  <2> QED BY <2>4, <2>5, <2>6, <2>7 DEF RecorderInv
<1>8. CASE ~begins
  <2>1. preRoll' = f /\ active' = active /\ sessionSize' = sessionSize /\ todo' = <<>>
    BY <1>2, <1>3, <1>8
  <2>2. <<>> \in Seq(Item) /\ Ascend(<<>>) /\ Chained(<<>>) /\ Pictures(<<>>) = {}
    BY DEF Ascend, Chained, Pictures
  <2>3. RecorderTypeOK'
    <3>1. preRoll' \in Seq(Picture) /\ Len(preRoll') <= MaxPreRoll
      <4>1. Len(preRoll) \in Nat /\ Len(f) \in Nat /\ Len(preRoll) <= MaxPreRoll
        BY <1>1, <1>4 DEF RecorderTypeOK
      <4> QED BY <1>4, <2>1, <4>1, RecorderAssumption
    <3>2. clock \in -1 .. MaxClock
      BY <1>1, RecorderAssumption DEF RecorderTypeOK
    <3> QED BY <1>1, <1>2, <2>1, <2>2, <3>1, <3>2 DEF RecorderTypeOK
  <2>4. OrderInv'
    <3>1. /\ LockFree /\ todo' = <<>> /\ queue' = queue /\ clips' = clips
          /\ taken' = taken /\ camera' = camera
      BY <1>2, <2>1 DEF LockFree
    <3>2. Entries(preRoll') \subseteq Entries(preRoll) /\ Rising(preRoll')
      BY <1>4, <2>1
    <3> QED BY <2>2, <3>1, <3>2, CallKeepsOrder
  <2>5. SessionInv'
    <3>1. /\ LockFree /\ todo' = <<>> /\ queue' = queue /\ clips' = clips
          /\ worker' = worker /\ skipped' = skipped /\ closing' = "no"
          /\ OneSize(preRoll') /\ (active' => preRoll' = <<>>)
      BY <1>2, <1>4, <1>6, <2>1 DEF LockFree
    <3> QED BY <2>1, <2>2, <3>1, CallKeepsSession
  <2>6. PersonInv'
    <3>1. seenAt' >= 0 /\ lastPerson' = seenAt' /\ present'
      BY <1>1, <1>2, RecorderAssumption DEF RecorderTypeOK
    <3> QED BY <3>1 DEF PersonInv, StopsWhenEmpty, Overdue
  <2> QED BY <2>3, <2>4, <2>5, <2>6 DEF RecorderInv
<1> QED BY <1>7, <1>8

LEMMA CloseBeginsKeeps ==
  ASSUME RecorderInv, CloseBegins
  PROVE  RecorderInv'
<1> USE DEF CloseBegins, callerVars, workerVars
<1>1. RecorderTypeOK /\ OrderInv /\ SessionInv /\ PersonInv
  BY DEF RecorderInv
<1>2. RecorderTypeOK'
  BY <1>1 DEF RecorderTypeOK
<1>3. OrderInv' /\ SessionInv'
  BY <1>1, NothingMoves DEF SessionInv, LockFree
<1>4. PersonInv'
  BY <1>1 DEF PersonInv, StopsWhenEmpty, Overdue, Pictures
<1> QED BY <1>2, <1>3, <1>4 DEF RecorderInv

LEMMA CloseStopsKeeps ==
  ASSUME RecorderInv, CloseStops
  PROVE  RecorderInv'
<1>1. RecorderTypeOK /\ OrderInv /\ SessionInv /\ PersonInv
  BY DEF RecorderInv
<1>2. /\ closing = "closed" /\ closing' = "ending" /\ todo' = Ending
      /\ active' = FALSE
      /\ lastPerson' = IF active THEN -1 ELSE lastPerson
      /\ UNCHANGED <<clock, taken, camera, preRoll, present, sessionSize, seenAt,
                     resized, queue, worker, clips, skipped, dropped>>
  BY DEF CloseStops, workerVars
<1>3. LockFree /\ Rising(preRoll) /\ OneSize(preRoll) /\ active \in BOOLEAN
  BY <1>1, <1>2 DEF SessionInv, LockFree, OrderInv, RecorderTypeOK
<1> DEFINE x == Ending
<1>4. /\ x \in Seq(Item) /\ Ascend(x) /\ Chained(x) /\ Pictures(x) = {}
      /\ x # <<>> => x[1].type = "stop" /\ x[Len(x)].type = "stop"
      /\ x = <<>> => ~active
  BY <1>3, EndingItems
<1> HIDE DEF x
<1>5. todo' = x
  BY <1>2 DEF x
<1>6. RecorderTypeOK'
  <2>1. lastPerson' \in -1 .. MaxClock
    BY <1>1, <1>2, RecorderAssumption DEF RecorderTypeOK
  <2> QED BY <1>1, <1>2, <1>4, <1>5, <2>1 DEF RecorderTypeOK
<1>7. OrderInv'
  <2>1. Rising(preRoll') /\ Entries(preRoll') = Entries(preRoll)
    BY <1>2, <1>3
  <2>2. /\ todo' = x /\ queue' = queue /\ clips' = clips /\ taken' = taken
        /\ camera' = camera
    BY <1>2, <1>5
  <2> QED BY <1>3, <1>4, <2>1, <2>2, CallKeepsOrder
<1>8. SessionInv'
  <2>1. /\ todo' = x /\ queue' = queue /\ clips' = clips /\ worker' = worker
        /\ skipped' = skipped /\ closing' = "ending" /\ ~active'
        /\ OneSize(preRoll')
    BY <1>2, <1>3, <1>5
  <2>2. x = <<>> => active' = active /\ ~active
    <3>1. ASSUME x = <<>> PROVE ~active
      BY <1>4, <3>1
    <3>2. ASSUME ~active PROVE active = FALSE
      BY <1>3, <3>2
    <3> QED BY <1>2, <3>1, <3>2
  <2> QED BY <1>3, <1>4, <2>1, <2>2, CallKeepsSession
<1>9. PersonInv'
  BY <1>1, <1>2 DEF PersonInv, StopsWhenEmpty, Overdue
<1> QED BY <1>6, <1>7, <1>8, <1>9 DEF RecorderInv

LEMMA CloseEndsKeeps ==
  ASSUME RecorderInv, CloseEnds
  PROVE  RecorderInv'
<1>1. RecorderTypeOK /\ OrderInv /\ SessionInv /\ PersonInv
  BY DEF RecorderInv
<1>2. /\ closing = "ending" /\ LockFree /\ closing' = "join"
      /\ todo' = <<ShutdownItem>>
      /\ UNCHANGED <<clock, taken, camera, preRoll, present, lastPerson, active,
                     sessionSize, seenAt, resized, queue, worker, clips, skipped,
                     dropped>>
  BY DEF CloseEnds, callerVars, workerVars
<1>3. ~active /\ Rising(preRoll) /\ OneSize(preRoll)
  BY <1>1, <1>2 DEF SessionInv, OrderInv
<1> DEFINE x == <<ShutdownItem>>
<1>4. /\ x \in Seq(Item) /\ Ascend(x) /\ Chained(x) /\ Pictures(x) = {}
      /\ x # <<>> /\ x[1].type = "shutdown" /\ x[Len(x)].type = "shutdown"
  <2>1. ShutdownItem \in Item /\ ShutdownItem.type = "shutdown"
    BY ItemKinds
  <2> QED BY <2>1, OneItem
<1>5. todo' = x
  BY <1>2
<1> HIDE DEF x
<1>6. RecorderTypeOK'
  BY <1>1, <1>2, <1>4, <1>5 DEF RecorderTypeOK
<1>7. OrderInv'
  <2>1. Rising(preRoll') /\ Entries(preRoll') = Entries(preRoll)
    BY <1>2, <1>3
  <2>2. /\ todo' = x /\ queue' = queue /\ clips' = clips /\ taken' = taken
        /\ camera' = camera
    BY <1>2, <1>5
  <2> QED BY <1>2, <1>4, <2>1, <2>2, CallKeepsOrder
<1>8. SessionInv'
  <2>1. /\ todo' = x /\ queue' = queue /\ clips' = clips /\ worker' = worker
        /\ skipped' = skipped /\ closing' = "join" /\ ~active'
        /\ OneSize(preRoll')
    BY <1>2, <1>3, <1>5
  <2> QED BY <1>2, <1>4, <2>1, CallKeepsSession
<1>9. PersonInv'
  BY <1>1, <1>2, <1>3 DEF PersonInv, StopsWhenEmpty, Overdue
<1> QED BY <1>6, <1>7, <1>8, <1>9 DEF RecorderInv

LEMMA TickKeeps ==
  ASSUME RecorderInv, Tick
  PROVE  RecorderInv'
<1> USE DEF Tick, callerVars, workerVars
<1>1. RecorderTypeOK /\ OrderInv /\ SessionInv /\ PersonInv
  BY DEF RecorderInv
<1>2. RecorderTypeOK'
  <2>1. clock' \in 0 .. MaxClock
    BY <1>1, RecorderAssumption DEF RecorderTypeOK
  <2> QED BY <1>1, <2>1 DEF RecorderTypeOK
<1>3. OrderInv' /\ SessionInv'
  BY <1>1, NothingMoves DEF SessionInv
<1>4. PersonInv'
  BY <1>1 DEF PersonInv, StopsWhenEmpty, Overdue, Pictures
<1> QED BY <1>2, <1>3, <1>4 DEF RecorderInv

-----------------------------------------------------------------------------
(* enqueue, and the worker.                                                 *)

\* An item moves from the call to the queue; the line is the same, or has
\* lost a frame that another item follows.
LEMMA EnqueueMoves ==
  ASSUME RecorderInv, Enqueue
  PROVE  \/ Line' = Line
         \/ \E k \in 1 .. Len(Line) :
              k < Len(Line) /\ Line[k].type = "frame" /\ Lacks(Line', Line, k)
<1> DEFINE h == Head(todo)
           t == Tail(todo)
           r == Room(queue, h)
<1>1. /\ todo \in Seq(Item) /\ queue \in Seq(Item) /\ todo # <<>>
      /\ queue' = Append(r, h) /\ todo' = t
  BY DEF RecorderInv, RecorderTypeOK, Enqueue
<1>2. h \in Item /\ t \in Seq(Item) /\ todo = <<h>> \o t /\ Len(todo) \in Nat \ {0}
  BY <1>1
<1>3. \/ r = queue
      \/ \E k \in 1 .. Len(queue) : queue[k].type = "frame" /\ Lacks(r, queue, k)
  BY <1>1, <1>2, RoomLacksOne
<1> HIDE DEF r
<1>4. r \in Seq(Item)
  BY <1>1, <1>3 DEF Lacks
<1>5. Line' = r \o todo
  <2>1. Append(r, h) = r \o <<h>>
    BY <1>2, <1>4, AppendIsConcat
  <2>2. (r \o <<h>>) \o t = r \o (<<h>> \o t)
    <3>1. <<h>> \in Seq(Item)
      BY <1>2
    <3> HIDE DEF h, t
    <3> QED BY <1>2, <1>4, <3>1, ConcatAssociative
  <2> QED BY <1>1, <1>2, <2>1, <2>2 DEF Line
<1>6. CASE r = queue
  BY <1>5, <1>6 DEF Line
<1>7. ASSUME NEW k \in 1 .. Len(queue), queue[k].type = "frame", Lacks(r, queue, k)
      PROVE  /\ k \in 1 .. Len(Line) /\ k < Len(Line) /\ Line[k].type = "frame"
             /\ Lacks(Line', Line, k)
  <2> DEFINE l == queue \o todo
             m == r \o todo
  <2>1. /\ l \in Seq(Item) /\ Len(l) = Len(queue) + Len(todo)
        /\ \A i \in 1 .. Len(queue) : i \in 1 .. Len(l) /\ l[i] = queue[i]
        /\ \A i \in 1 .. Len(todo) : l[i + Len(queue)] = todo[i]
    BY <1>1, ItemConcat
  <2>2. /\ m \in Seq(Item) /\ Len(m) = Len(r) + Len(todo)
        /\ \A i \in 1 .. Len(r) : m[i] = r[i]
        /\ \A i \in 1 .. Len(m) :
             \/ i \in 1 .. Len(r)
             \/ i - Len(r) \in 1 .. Len(todo) /\ m[i] = todo[i - Len(r)]
    BY <1>1, <1>4, ItemConcat
  <2>3. /\ Len(queue) \in Nat /\ Len(r) \in Nat /\ Len(r) = Len(queue) - 1
        /\ Len(todo) \in Nat /\ Len(todo) >= 1 /\ k \in Nat
        /\ k <= Len(queue)
        /\ \A i \in 1 .. Len(r) : r[i] = IF i < k THEN queue[i] ELSE queue[i + 1]
    BY <1>1, <1>2, <1>4, <1>7 DEF Lacks
  <2> HIDE DEF l, m
  <2>4. k \in 1 .. Len(l) /\ k < Len(l) /\ l[k].type = "frame"
    BY <1>7, <2>1, <2>3
  <2>5. Len(m) = Len(l) - 1
    BY <2>1, <2>2, <2>3
  <2>6. ASSUME NEW i \in 1 .. Len(m)
        PROVE  m[i] = IF i < k THEN l[i] ELSE l[i + 1]
    <3>1. CASE i \in 1 .. Len(r)
      <4>1. i \in 1 .. Len(queue) /\ i + 1 \in 1 .. Len(queue)
        BY <2>3, <3>1
      <4>2. m[i] = IF i < k THEN queue[i] ELSE queue[i + 1]
        BY <2>2, <2>3, <3>1
      <4> QED BY <2>1, <4>1, <4>2
    <3>2. CASE i - Len(r) \in 1 .. Len(todo) /\ m[i] = todo[i - Len(r)]
      <4> DEFINE j == i - Len(r)
      <4>1. j \in 1 .. Len(todo) /\ m[i] = todo[j] /\ ~(i < k)
            /\ j + Len(queue) = i + 1
        BY <2>3, <3>2
      <4> HIDE DEF j
      <4> QED BY <2>1, <4>1
    <3> QED BY <2>2, <3>1, <3>2
  <2>7. Lacks(m, l, k)
    BY <2>2, <2>5, <2>6 DEF Lacks
  <2>8. Line = l /\ Line' = m
    BY <1>5 DEF l, m, Line
  <2> QED BY <2>4, <2>7, <2>8
<1>8. ASSUME r # queue
      PROVE  \E k \in 1 .. Len(Line) :
               k < Len(Line) /\ Line[k].type = "frame" /\ Lacks(Line', Line, k)
  <2>1. PICK k \in 1 .. Len(queue) : queue[k].type = "frame" /\ Lacks(r, queue, k)
    BY <1>3, <1>8
  <2> QED BY <1>7, <2>1
<1> QED BY <1>6, <1>8

\* The loss of a frame, for the worker and the calls.
LEMMA LossKeepsStep ==
  ASSUME NEW w, NEW cs, NEW on, NEW z, NEW s \in Seq(Item), NEW k \in 1 .. Len(s),
         k < Len(s), s[k].type = "frame", NEW t, Lacks(t, s, k),
         InStep(w, cs, s, on, z)
  PROVE  InStep(w, cs, t, on, z)
<1>1. /\ t \in Seq(Item) /\ Len(s) \in Nat /\ Len(t) = Len(s) - 1 /\ k \in Nat
      /\ \A i \in 1 .. Len(t) : t[i] = IF i < k THEN s[i] ELSE s[i + 1]
  <2>1. Len(s) \in Nat /\ k \in Nat
    OBVIOUS
  <2>2. /\ t \in Seq(Item) /\ Len(t) = Len(s) - 1
        /\ \A i \in 1 .. Len(t) : t[i] = IF i < k THEN s[i] ELSE s[i + 1]
    BY DEF Lacks
  <2> QED BY <2>1, <2>2
<1>2. t # <<>> /\ s # <<>> /\ 1 \in 1 .. Len(t) /\ Len(t) \in 1 .. Len(t)
  BY <1>1
<1>3. Chained(s) /\ Chained(t)
  BY LossKeepsOrder DEF InStep
<1>4. t[Len(t)] = s[Len(s)]
  <2>1. ~(Len(t) < k) /\ Len(t) + 1 = Len(s)
    BY <1>1
  <2> QED BY <1>1, <1>2, <2>1
<1>5. ASSUME t[1].type = "frame" PROVE Shooting(w, cs, t[1].frame.size)
  <2>1. CASE k = 1
    <3>1. t[1] = s[2] /\ 2 \in 2 .. Len(s) /\ 2 - 1 = 1
      BY <1>1, <1>2, <2>1
    <3>2. Carries(s[1], s[2].frame.size)
      BY <1>3, <1>5, <3>1 DEF Chained
    <3>3. s[1].type = "frame" /\ s[1].frame.size = t[1].frame.size
      BY <2>1, <3>1, <3>2 DEF Carries
    <3> QED BY <1>2, <3>3 DEF InStep
  <2>2. CASE k # 1
    <3>1. t[1] = s[1]
      BY <1>1, <1>2, <2>2
    <3> QED BY <1>2, <1>5, <3>1 DEF InStep
  <2> QED BY <2>1, <2>2
<1> QED BY <1>2, <1>3, <1>4, <1>5 DEF InStep

LEMMA EnqueueKeeps ==
  ASSUME RecorderInv, Enqueue
  PROVE  RecorderInv'
<1>1. RecorderTypeOK /\ OrderInv /\ SessionInv /\ PersonInv
  BY DEF RecorderInv
<1>2. /\ todo # <<>> /\ todo' = Tail(todo)
      /\ queue' = Append(Room(queue, Head(todo)), Head(todo))
      /\ dropped' = dropped
                      \cup (Pictures(queue) \ Pictures(Room(queue, Head(todo))))
      /\ UNCHANGED <<clock, taken, camera, preRoll, present, lastPerson, active,
                     sessionSize, seenAt, resized, closing, worker, clips, skipped>>
  BY DEF Enqueue, callerVars, workerVars
<1>3. /\ todo \in Seq(Item) /\ queue \in Seq(Item) /\ Head(todo) \in Item
      /\ Tail(todo) \in Seq(Item) /\ Line \in Seq(Item)
  <2>1. todo \in Seq(Item) /\ queue \in Seq(Item)
    BY <1>1 DEF RecorderTypeOK
  <2> QED BY <1>2, <2>1, StateTypes
<1>4. \/ Line' = Line
      \/ \E k \in 1 .. Len(Line) :
           k < Len(Line) /\ Line[k].type = "frame" /\ Lacks(Line', Line, k)
  BY EnqueueMoves
<1>5. RecorderTypeOK'
  <2>1. /\ queue' \in Seq(Item)
        /\ Cardinality({i \in 1 .. Len(queue') : queue'[i].type = "frame"}) <= MaxQueued
    <3>1. Cardinality(Frames(queue)) <= MaxQueued
      BY <1>1 DEF RecorderTypeOK, Frames
    <3>2. queue' \in Seq(Item) /\ Cardinality(Frames(queue')) <= MaxQueued
      BY <1>2, <1>3, <3>1, RoomIsBounded
    <3> QED BY <3>2 DEF Frames
  <2>2. dropped' \subseteq Picture /\ todo' \in Seq(Item)
    <3>1. Pictures(queue) \subseteq Picture
      BY <1>3, OfPictures
    <3> QED BY <1>1, <1>2, <1>3, <3>1 DEF RecorderTypeOK
  <2> QED BY <1>1, <1>2, <2>1, <2>2 DEF RecorderTypeOK
<1>6. OrderInv'
  <2> DEFINE T == Taped(clips)
             H == Entries(preRoll)
             C == Coming
  <2>1. Chronological(T, Line, H, C, taken) /\ Rising(preRoll)
    BY <1>1 DEF OrderInv
  <2>2. FramesOnceInOrder' /\ Taped(clips)' = T
    BY <1>1, <1>2, ClipOrder DEF OrderInv
  <2>3. Coming' = C /\ Entries(preRoll') = H
    BY <1>2 DEF Coming
  <2> HIDE DEF T, H, C
  <2>4. Pictures(Line') \subseteq Pictures(Line) /\ (Ascend(Line) => Ascend(Line'))
    BY <1>3, <1>4, LossKeepsOrder
  <2>5. Chronological(T, Line', H, C, taken)
    <3> DEFINE L == Pictures(Line)
               M == Pictures(Line')
    <3>1. /\ Older(T, L) /\ Older(T, H) /\ Older(T, C) /\ Older(L, H)
          /\ Older(L, C) /\ Older(H, C) /\ \A p \in T \cup L \cup H \cup C : p.n <= taken
          /\ Ascend(Line')
      BY <2>1, <2>4 DEF Chronological
    <3>2. M \subseteq L
      BY <2>4
    <3> HIDE DEF L, M
    <3>3. Older(T, M) /\ Older(M, H) /\ Older(M, C)
      BY <3>1, <3>2 DEF Older
    <3>4. \A p \in T \cup M \cup H \cup C : p.n <= taken
      BY <3>1, <3>2
    <3> QED BY <3>1, <3>3, <3>4 DEF Chronological, M
  <2>6. Chronological(Taped(clips'), Line', Entries(preRoll'), Coming', taken')
    BY <1>2, <2>2, <2>3, <2>5
  <2> QED BY <1>2, <2>1, <2>2, <2>6 DEF OrderInv
<1>7. SessionInv'
  <2>1. InStep(worker, clips, Line, active, sessionSize)
    BY <1>1 DEF SessionInv
  <2>2. InStep(worker, clips, Line', active, sessionSize)
    BY <1>3, <1>4, <2>1, LossKeepsStep
  <2>3. InStep(worker', clips', Line', active', sessionSize')
    BY <1>2, <2>2
  <2>4. closing # "closed"
    BY <1>1, <1>2 DEF SessionInv
  <2> QED BY <1>1, <1>2, <2>3, <2>4 DEF SessionInv
<1>8. PersonInv'
  <2>1. Pictures(todo') \subseteq Pictures(todo)
    BY <1>2, <1>3, TailKeepsOrder
  <2>2. Overdue' => Overdue
    <3> SUFFICES ASSUME Overdue' PROVE Overdue
      OBVIOUS
    <3>1. PICK p \in Pictures(todo') : p.at - seenAt' >= EmptyStop
      BY DEF Overdue
    <3>2. p \in Pictures(todo) /\ p.at - seenAt >= EmptyStop
      BY <1>2, <2>1, <3>1
    <3> QED BY <1>2, <3>2 DEF Overdue
  <2> QED BY <1>1, <1>2, <2>2 DEF PersonInv, StopsWhenEmpty
<1> QED BY <1>5, <1>6, <1>7, <1>8 DEF RecorderInv

\* The frames on the files.
Clips == Seq([size : Sizes, frames : Seq(Picture), final : BOOLEAN])

OnTape(cs) ==
  \A c, d \in 1 .. Len(cs) :
    \A i \in 1 .. Len(cs[c].frames), j \in 1 .. Len(cs[d].frames) :
      c < d \/ (c = d /\ i < j) => cs[c].frames[i].n < cs[d].frames[j].n

LEMMA ClipTypes ==
  ASSUME NEW cs \in Clips, NEW c \in 1 .. Len(cs)
  PROVE  /\ cs[c] \in [size : Sizes, frames : Seq(Picture), final : BOOLEAN]
         /\ cs[c].frames \in Seq(Picture) /\ Len(cs[c].frames) \in Nat
         /\ Len(cs) \in Nat /\ c \in Nat
         /\ \A i \in 1 .. Len(cs[c].frames) :
              cs[c].frames[i] \in Picture /\ cs[c].frames[i] \in Taped(cs)
<1> DEFINE R == [size : Sizes, frames : Seq(Picture), final : BOOLEAN]
<1>1. cs \in Seq(R)
  BY DEF Clips
<1> HIDE DEF R
<1>2. cs[c] \in R /\ Len(cs) \in Nat /\ c \in Nat
  BY <1>1
<1>3. cs[c].frames \in Seq(Picture) /\ Len(cs[c].frames) \in Nat
  BY <1>2 DEF R
<1>4. \A i \in 1 .. Len(cs[c].frames) : cs[c].frames[i] \in Picture
  BY <1>3
<1>5. \A i \in 1 .. Len(cs[c].frames) : cs[c].frames[i] \in Taped(cs)
  BY TapedTypes DEF Clips
<1> QED BY <1>2, <1>3, <1>4, <1>5 DEF R

LEMMA OrderOnTape ==
  /\ FramesOnceInOrder => OnTape(clips)
  /\ clips' \in Clips /\ OnTape(clips') => FramesOnceInOrder'
<1>1. ASSUME FramesOnceInOrder PROVE OnTape(clips)
  <2> SUFFICES ASSUME NEW c \in 1 .. Len(clips), NEW d \in 1 .. Len(clips),
                      NEW i \in 1 .. Len(clips[c].frames),
                      NEW j \in 1 .. Len(clips[d].frames),
                      c < d \/ (c = d /\ i < j)
               PROVE  clips[c].frames[i].n < clips[d].frames[j].n
    BY DEF OnTape
  <2> DEFINE a == <<c, i>>
             b == <<d, j>>
  <2>1. a \in Recorded /\ b \in Recorded
    BY DEF Recorded
  <2>2. a[1] = c /\ a[2] = i /\ b[1] = d /\ b[2] = j
    OBVIOUS
  <2> HIDE DEF a, b
  <2>3. Shot(a) < Shot(b)
    BY <1>1, <2>1, <2>2 DEF FramesOnceInOrder
  <2> QED BY <2>2, <2>3 DEF Shot
<1>2. ASSUME clips' \in Clips, OnTape(clips') PROVE FramesOnceInOrder'
  <2> SUFFICES ASSUME NEW a \in Recorded', NEW b \in Recorded',
                      a[1] < b[1] \/ (a[1] = b[1] /\ a[2] < b[2])
               PROVE  Shot(a)' < Shot(b)'
    BY DEF FramesOnceInOrder
  <2>1. /\ a[1] \in 1 .. Len(clips') /\ a[2] \in 1 .. Len(clips'[a[1]].frames)
        /\ b[1] \in 1 .. Len(clips') /\ b[2] \in 1 .. Len(clips'[b[1]].frames)
    BY DEF Recorded
  <2>2. clips'[a[1]].frames[a[2]].n < clips'[b[1]].frames[b[2]].n
    BY <1>2, <2>1 DEF OnTape
  <2> QED BY <2>2 DEF Shot
<1> QED BY <1>1, <1>2

\* Files are begun and ended.
LEMMA FilesKeepOrder ==
  ASSUME NEW cs \in Clips, NEW ds \in Clips, Len(cs) <= Len(ds),
         \A c \in 1 .. Len(cs) : ds[c].frames = cs[c].frames,
         \A c \in 1 .. Len(ds) : c \notin 1 .. Len(cs) => ds[c].frames = <<>>
  PROVE  Taped(ds) = Taped(cs) /\ (OnTape(cs) => OnTape(ds))
<1>1. Len(cs) \in Nat /\ Len(ds) \in Nat /\ 1 .. Len(cs) \subseteq 1 .. Len(ds)
  BY DEF Clips
<1>2. \A c \in 1 .. Len(ds) : \A i \in 1 .. Len(ds[c].frames) :
        c \in 1 .. Len(cs) /\ i \in 1 .. Len(cs[c].frames)
        /\ ds[c].frames[i] = cs[c].frames[i]
  <2> SUFFICES ASSUME NEW c \in 1 .. Len(ds), NEW i \in 1 .. Len(ds[c].frames)
               PROVE  /\ c \in 1 .. Len(cs) /\ i \in 1 .. Len(cs[c].frames)
                      /\ ds[c].frames[i] = cs[c].frames[i]
    OBVIOUS
  <2>1. ds[c].frames # <<>>
    <3>1. Len(<<>>) = 0 /\ 1 .. 0 = {}
      OBVIOUS
    <3> QED BY <3>1
  <2> QED BY <2>1
<1>3. Taped(ds) = Taped(cs)
  <2>1. \A f : f \in Taped(ds) <=>
               \E c \in 1 .. Len(ds) : \E i \in 1 .. Len(ds[c].frames) :
                 f = ds[c].frames[i]
    BY TapedTypes DEF Clips
  <2>2. \A f : f \in Taped(cs) <=>
               \E c \in 1 .. Len(cs) : \E i \in 1 .. Len(cs[c].frames) :
                 f = cs[c].frames[i]
    BY TapedTypes DEF Clips
  <2>3. ASSUME NEW p \in Taped(ds) PROVE p \in Taped(cs)
    <3>1. PICK c \in 1 .. Len(ds) : \E i \in 1 .. Len(ds[c].frames) :
                 p = ds[c].frames[i]
      BY <2>1
    <3> QED BY <1>2, <2>2, <3>1
  <2>4. ASSUME NEW p \in Taped(cs) PROVE p \in Taped(ds)
    <3>1. PICK c \in 1 .. Len(cs) : \E i \in 1 .. Len(cs[c].frames) :
                 p = cs[c].frames[i]
      BY <2>2
    <3>2. c \in 1 .. Len(ds) /\ ds[c].frames = cs[c].frames
      BY <1>1
    <3> QED BY <2>1, <3>1, <3>2
  <2> QED BY <2>3, <2>4
<1>4. ASSUME OnTape(cs) PROVE OnTape(ds)
  BY <1>2, <1>4 DEF OnTape
<1> QED BY <1>3, <1>4

\* The newest frame goes to the end of the last file.
LEMMA FrameKeepsOrder ==
  ASSUME NEW cs \in Clips, NEW p \in Picture, cs # <<>>, Older(Taped(cs), {p}),
         OnTape(cs)
  PROVE  LET ds == [cs EXCEPT ![Len(cs)].frames = Append(@, p)]
         IN /\ ds \in Clips /\ Taped(ds) \subseteq Taped(cs) \cup {p} /\ OnTape(ds)
            /\ Len(ds) = Len(cs) /\ ds # <<>>
            /\ ds[Len(ds)].size = cs[Len(cs)].size
<1> DEFINE n == Len(cs)
           old == cs[n].frames
           ds == [cs EXCEPT ![n].frames = Append(@, p)]
           R == [size : Sizes, frames : Seq(Picture), final : BOOLEAN]
<1>1. n \in Nat /\ n >= 1 /\ n \in 1 .. n /\ cs \in Seq(R)
  BY DEF Clips
<1>2. cs[n] \in R /\ old \in Seq(Picture) /\ Len(old) \in Nat
  BY <1>1, ClipTypes
<1>3. /\ Append(old, p) \in Seq(Picture) /\ Len(Append(old, p)) = Len(old) + 1
      /\ \A i \in 1 .. Len(old) : Append(old, p)[i] = old[i]
      /\ Append(old, p)[Len(old) + 1] = p
  BY <1>2
<1> DEFINE x == [cs[n] EXCEPT !.frames = Append(old, p)]
<1>4. x \in R /\ x.frames = Append(old, p) /\ x.size = cs[n].size
  BY <1>2, <1>3
<1>5. ds = [cs EXCEPT ![n] = x]
  OBVIOUS
<1> HIDE DEF R, x, ds
<1>6. /\ ds \in Seq(R) /\ Len(ds) = n /\ ds[n] = x
      /\ \A c \in 1 .. n : c # n => ds[c] = cs[c]
  BY <1>1, <1>4, <1>5
<1>7. \A c \in 1 .. n : \A i \in 1 .. Len(ds[c].frames) :
        \/ i \in 1 .. Len(cs[c].frames) /\ ds[c].frames[i] = cs[c].frames[i]
        \/ c = n /\ i = Len(old) + 1 /\ ds[c].frames[i] = p
  <2> SUFFICES ASSUME NEW c \in 1 .. n, NEW i \in 1 .. Len(ds[c].frames)
               PROVE  \/ /\ i \in 1 .. Len(cs[c].frames)
                         /\ ds[c].frames[i] = cs[c].frames[i]
                      \/ c = n /\ i = Len(old) + 1 /\ ds[c].frames[i] = p
    OBVIOUS
  <2>1. CASE c # n
    BY <1>6, <2>1
  <2>2. CASE c = n
    <3>1. ds[c].frames = Append(old, p) /\ cs[c].frames = old
      BY <1>4, <1>6, <2>2
    <3>2. i \in 1 .. Len(old) \/ i = Len(old) + 1
      BY <1>2, <1>3, <3>1
    <3> QED BY <1>3, <2>2, <3>1, <3>2
  <2> QED BY <2>1, <2>2
<1>8. ds \in Clips
  BY <1>6 DEF Clips, R
<1>9. Taped(ds) \subseteq Taped(cs) \cup {p}
  <2> SUFFICES ASSUME NEW q \in Taped(ds), q # p PROVE q \in Taped(cs)
    OBVIOUS
  <2>1. \A f : f \in Taped(ds) <=>
               \E c \in 1 .. Len(ds) : \E i \in 1 .. Len(ds[c].frames) :
                 f = ds[c].frames[i]
    BY <1>8, TapedTypes DEF Clips
  <2>2. \A f : f \in Taped(cs) <=>
               \E c \in 1 .. Len(cs) : \E i \in 1 .. Len(cs[c].frames) :
                 f = cs[c].frames[i]
    BY TapedTypes DEF Clips
  <2>3. PICK c \in 1 .. Len(ds) : \E i \in 1 .. Len(ds[c].frames) :
               q = ds[c].frames[i]
    BY <2>1
  <2>4. c \in 1 .. Len(cs) /\ \E i \in 1 .. Len(cs[c].frames) : q = cs[c].frames[i]
    BY <1>6, <1>7, <2>3
  <2> QED BY <2>2, <2>4
<1>10. OnTape(ds)
  <2> SUFFICES ASSUME NEW c \in 1 .. n, NEW d \in 1 .. n,
                      NEW i \in 1 .. Len(ds[c].frames),
                      NEW j \in 1 .. Len(ds[d].frames),
                      c < d \/ (c = d /\ i < j)
               PROVE  ds[c].frames[i].n < ds[d].frames[j].n
    BY <1>6 DEF OnTape
  <2>1. ~(c = n /\ i = Len(old) + 1)
    <3> SUFFICES ASSUME c = n, i = Len(old) + 1 PROVE FALSE
      OBVIOUS
    <3>1. d = n /\ i < j
      BY <1>1
    <3>2. j \in 1 .. Len(old) \/ j = Len(old) + 1
      BY <1>7, <3>1
    <3> QED BY <1>2, <3>1, <3>2
  <2>2. i \in 1 .. Len(cs[c].frames) /\ ds[c].frames[i] = cs[c].frames[i]
    BY <1>7, <2>1
  <2>3. CASE j \in 1 .. Len(cs[d].frames) /\ ds[d].frames[j] = cs[d].frames[j]
    BY <2>2, <2>3 DEF OnTape
  <2>4. CASE ds[d].frames[j] = p
    <3>1. cs[c].frames[i] \in Taped(cs)
      BY <2>2, ClipTypes
    <3> QED BY <2>2, <2>4, <3>1 DEF Older
  <2> QED BY <1>7, <2>3, <2>4
<1>11. ds # <<>> /\ ds[Len(ds)].size = cs[n].size
  BY <1>1, <1>4, <1>6
<1> QED BY <1>6, <1>8, <1>9, <1>10, <1>11 DEF ds

\* The worker takes the head of the line.
LEMMA WorkerMoves ==
  ASSUME RecorderInv, queue # <<>>, queue' = Tail(queue), todo' = todo
  PROVE  /\ Line # <<>> /\ Line' = Tail(Line) /\ Head(queue) = Line[1]
         /\ Head(queue) \in Item /\ Line \in Seq(Item)
<1>1. queue \in Seq(Item) /\ todo \in Seq(Item)
  BY DEF RecorderInv, RecorderTypeOK
<1> DEFINE h == Head(queue)
           t == Tail(queue)
<1>2. h \in Item /\ t \in Seq(Item) /\ queue = <<h>> \o t
  BY <1>1
<1>3. Line = <<h>> \o (t \o todo)
  <2>1. <<h>> \in Seq(Item)
    BY <1>2
  <2>2. Line = (<<h>> \o t) \o todo
    BY <1>2 DEF Line
  <2> HIDE DEF h, t
  <2> QED BY <1>1, <1>2, <2>1, <2>2, ConcatAssociative
<1>4. Line' = t \o todo /\ t \o todo \in Seq(Item)
  <2>1. Line' = t \o todo
    BY DEF Line
  <2> QED BY <1>1, <1>2, <2>1, ItemConcat
<1> DEFINE u == t \o todo
<1>5. u \in Seq(Item) /\ Line = <<h>> \o u
  BY <1>3, <1>4
<1> HIDE DEF u, h
<1>6. /\ <<h>> \o u # <<>> /\ Tail(<<h>> \o u) = u /\ (<<h>> \o u)[1] = h
  <2>1. <<h>> \in Seq(Item) /\ Len(<<h>>) = 1 /\ <<h>>[1] = h
    BY <1>2
  <2> DEFINE c == <<h>> \o u
  <2>2. /\ c \in Seq(Item) /\ Len(c) = 1 + Len(u) /\ c[1] = h
        /\ \A i \in 1 .. Len(u) : c[i + 1] = u[i]
    <3>1. /\ c \in Seq(Item) /\ Len(c) = Len(<<h>>) + Len(u)
          /\ \A i \in 1 .. Len(<<h>>) : c[i] = <<h>>[i]
          /\ \A i \in 1 .. Len(u) : c[i + Len(<<h>>)] = u[i]
      BY <1>5, <2>1, ItemConcat
    <3> HIDE DEF c
    <3> QED BY <2>1, <3>1
  <2> HIDE DEF c
  <2>3. c # <<>>
    BY <1>5, <2>2
  <2>4. /\ Tail(c) \in Seq(Item) /\ Len(Tail(c)) = Len(u)
        /\ \A i \in 1 .. Len(u) : Tail(c)[i] = u[i]
    <3>1. /\ Tail(c) \in Seq(Item) /\ Len(Tail(c)) = Len(c) - 1
          /\ \A i \in 1 .. Len(Tail(c)) : Tail(c)[i] = c[i + 1]
      BY <2>2, <2>3, TailOfItems
    <3>2. Len(u) \in Nat /\ Len(Tail(c)) = Len(u)
      BY <1>5, <2>2, <3>1
    <3> QED BY <2>2, <3>1, <3>2
  <2>5. Tail(c) = u
    BY <1>5, <2>4, SeqEqual
  <2> QED BY <2>2, <2>3, <2>5 DEF c
<1> QED BY <1>2, <1>4, <1>5, <1>6, StateTypes DEF u, h

\* Items without their head; its frame goes to the clips.
LEMMA TailInOrder ==
  ASSUME NEW T, NEW H, NEW C, NEW n, NEW s \in Seq(Item), s # <<>>,
         Chronological(T, s, H, C, n), NEW T1,
         T1 \subseteq T \cup (IF s[1].type = "frame" THEN {s[1].frame} ELSE {})
  PROVE  Chronological(T1, Tail(s), H, C, n)
<1> DEFINE L == Pictures(s)
           M == Pictures(Tail(s))
           P == IF s[1].type = "frame" THEN {s[1].frame} ELSE {}
<1>1. /\ Older(T, L) /\ Older(T, H) /\ Older(T, C) /\ Older(L, H) /\ Older(L, C)
      /\ Older(H, C) /\ \A p \in T \cup L \cup H \cup C : p.n <= n
      /\ Ascend(s)
  BY DEF Chronological
<1>2. M \subseteq L /\ P \subseteq L /\ Older(P, M) /\ Ascend(Tail(s))
  <2>1. M \subseteq L /\ Ascend(Tail(s))
    BY <1>1, TailKeepsOrder
  <2>2. CASE s[1].type = "frame"
    <3>1. s[1].frame \in L /\ Older({s[1].frame}, M)
      BY <1>1, <2>2, TailKeepsOrder
    <3> QED BY <2>1, <2>2, <3>1
  <2>3. CASE s[1].type # "frame"
    BY <2>1, <2>3 DEF Older
  <2> QED BY <2>2, <2>3
<1>3. T1 \subseteq T \cup P
  OBVIOUS
<1> HIDE DEF L, M, P
<1>4. Older(T1, M) /\ Older(T1, H) /\ Older(T1, C)
  BY <1>1, <1>2, <1>3 DEF Older
<1>5. Older(M, H) /\ Older(M, C)
  BY <1>1, <1>2 DEF Older
<1>6. \A p \in T1 \cup M \cup H \cup C : p.n <= n
  BY <1>1, <1>2, <1>3
<1> QED BY <1>1, <1>2, <1>4, <1>5, <1>6 DEF Chronological, M

LEMMA TailInStep ==
  ASSUME NEW w, NEW cs, NEW on \in BOOLEAN, NEW z, NEW s \in Seq(Item), s # <<>>,
         InStep(w, cs, s, on, z), NEW w1, NEW cs1,
         \A y : Carries(s[1], y) => Shooting(w1, cs1, y),
         s[1].type \in {"stop", "shutdown"} => w1 \in {"idle", "exited"}
  PROVE  InStep(w1, cs1, Tail(s), on, z)
<1> DEFINE t == Tail(s)
<1>1. /\ t \in Seq(Item) /\ Len(s) \in Nat /\ Len(s) >= 1 /\ Len(t) = Len(s) - 1
      /\ \A i \in 1 .. Len(t) : i + 1 \in 2 .. Len(s) /\ t[i] = s[i + 1]
  BY TailOfItems
<1> HIDE DEF t
<1>2. Chained(s) /\ Chained(t)
  BY TailKeepsOrder DEF InStep, t
<1>3. ASSUME t # <<>>, t[1].type = "frame" PROVE Shooting(w1, cs1, t[1].frame.size)
  <2>1. 2 \in 2 .. Len(s) /\ t[1] = s[2] /\ 2 - 1 = 1
    <3>1. 1 \in 1 .. Len(t) /\ 1 + 1 = 2
      BY <1>1, <1>3
    <3> QED BY <1>1, <3>1
  <2>2. Carries(s[1], s[2].frame.size)
    BY <1>2, <1>3, <2>1 DEF Chained
  <2> QED BY <2>1, <2>2
<1>4. CASE t = <<>>
  <2>1. Len(s) = 1
    BY <1>1, <1>4
  <2>2. /\ on => Carries(s[1], z)
        /\ ~on => s[1].type \in {"stop", "shutdown"}
    BY <2>1 DEF InStep
  <2> QED BY <1>2, <1>4, <2>2 DEF InStep, t
<1>5. CASE t # <<>>
  <2>1. t[Len(t)] = s[Len(s)]
    <3>1. Len(t) \in 1 .. Len(t) /\ Len(t) + 1 = Len(s)
      BY <1>1, <1>5
    <3> QED BY <1>1, <3>1
  <2> QED BY <1>2, <1>3, <1>5, <2>1 DEF InStep, t
<1> QED BY <1>4, <1>5

LEMMA FinalizedKeeps ==
  ASSUME RecorderInv
  PROVE  LET ds == Finalized(clips)
         IN /\ ds \in Clips /\ Len(ds) = Len(clips)
            /\ \A c \in 1 .. Len(clips) : ds[c].frames = clips[c].frames
<1> DEFINE R == [size : Sizes, frames : Seq(Picture), final : BOOLEAN]
           ds == Finalized(clips)
           n == Len(clips)
           x == [clips[n] EXCEPT !.final = TRUE]
<1>1. clips \in Seq(R) /\ n \in Nat /\ (worker = "open" => n \in 1 .. n)
  BY DEF RecorderInv, RecorderTypeOK, SessionInv
<1>2. CASE worker # "open"
  <2>1. ds = clips
    BY <1>2 DEF Finalized
  <2> HIDE DEF ds
  <2> QED BY <1>1, <2>1 DEF Clips, ds
<1>3. CASE worker = "open"
  <2> HIDE DEF R
  <2>1. clips[n] \in R /\ n \in 1 .. n
    BY <1>1, <1>3
  <2>2. x \in R /\ x.frames = clips[n].frames
    BY <2>1 DEF R
  <2>3. ds = [clips EXCEPT ![n] = x]
    BY <1>3 DEF Finalized
  <2> HIDE DEF x, ds
  <2>4. /\ ds \in Seq(R) /\ Len(ds) = n /\ ds[n] = x
        /\ \A c \in 1 .. n : c # n => ds[c] = clips[c]
    BY <1>1, <2>1, <2>2, <2>3
  <2> QED BY <2>2, <2>4 DEF Clips, R, ds
<1> QED BY <1>2, <1>3

\* What the worker leaves alone, and what is left to show of its step.
LEMMA WorkerKeeps ==
  ASSUME RecorderInv, queue # <<>>, queue' = Tail(queue),
         UNCHANGED <<clock, taken, camera, callerVars, closing, todo, dropped>>,
         clips' \in Clips, worker' \in {"idle", "open", "failed", "exited"},
         worker' = "open" => clips' # <<>>, skipped' = {},
         OnTape(clips'),
         Taped(clips') \subseteq
           Taped(clips) \cup (IF Head(queue).type = "frame" THEN {Head(queue).frame}
                              ELSE {}),
         \A y : Carries(Head(queue), y) => Shooting(worker', clips', y),
         Head(queue).type \in {"stop", "shutdown"} => worker' \in {"idle", "exited"}
  PROVE  RecorderInv'
<1> USE DEF callerVars
<1>1. RecorderTypeOK /\ OrderInv /\ SessionInv /\ PersonInv
  BY DEF RecorderInv
<1>2. /\ Line # <<>> /\ Line' = Tail(Line) /\ Head(queue) = Line[1]
      /\ Line \in Seq(Item)
  BY WorkerMoves
<1>3. RecorderTypeOK'
  <2>1. queue \in Seq(Item) /\ Cardinality(Frames(queue)) <= MaxQueued
    BY <1>1 DEF RecorderTypeOK, Frames
  <2>2. /\ Tail(queue) \in Seq(Item)
        /\ Cardinality(Frames(Tail(queue))) <= Cardinality(Frames(queue))
        /\ Cardinality(Frames(Tail(queue))) \in Nat
        /\ Cardinality(Frames(queue)) \in Nat
    BY <2>1, TailOfItems, TailCounts, FramesFinite
  <2>3. Cardinality(Frames(queue')) <= MaxQueued
    BY <2>1, <2>2, RecorderAssumption
  <2>4. /\ queue' \in Seq(Item)
        /\ Cardinality({i \in 1 .. Len(queue') : queue'[i].type = "frame"}) <= MaxQueued
    BY <2>2, <2>3 DEF Frames
  <2>5. clips' \in Seq([size : Sizes, frames : Seq(Picture), final : BOOLEAN])
    BY DEF Clips
  <2> QED BY <1>1, <2>4, <2>5 DEF RecorderTypeOK
<1>4. OrderInv'
  <2>1. Chronological(Taped(clips), Line, Entries(preRoll), Coming, taken) /\ Rising(preRoll)
    BY <1>1 DEF OrderInv
  <2>2. Chronological(Taped(clips'), Tail(Line), Entries(preRoll), Coming, taken)
    BY <1>2, <2>1, TailInOrder
  <2>3. Coming' = Coming
    BY DEF Coming
  <2>4. Chronological(Taped(clips'), Line', Entries(preRoll'), Coming', taken')
    BY <1>2, <2>2, <2>3
  <2>5. FramesOnceInOrder'
    BY OrderOnTape
  <2> QED BY <2>1, <2>4, <2>5 DEF OrderInv
<1>5. SessionInv'
  <2>1. InStep(worker, clips, Line, active, sessionSize) /\ active \in BOOLEAN
    BY <1>1 DEF SessionInv, RecorderTypeOK
  <2>2. InStep(worker', clips', Tail(Line), active, sessionSize)
    BY <1>2, <2>1, TailInStep
  <2>3. InStep(worker', clips', Line', active', sessionSize')
    BY <1>2, <2>2
  <2> QED BY <1>1, <2>3 DEF SessionInv
<1>6. PersonInv'
  BY <1>1 DEF PersonInv, StopsWhenEmpty, Overdue, Pictures
<1> QED BY <1>3, <1>4, <1>5, <1>6 DEF RecorderInv

LEMMA WorkStartKeeps ==
  ASSUME RecorderInv, WorkStart
  PROVE  RecorderInv'
<1> DEFINE h == Head(queue)
           fin == Finalized(clips)
           R == [size : Sizes, frames : Seq(Picture), final : BOOLEAN]
           new == [size |-> h.size, frames |-> <<>>, final |-> FALSE]
<1>1. /\ queue # <<>> /\ queue' = Tail(queue) /\ h.type = "start"
      /\ UNCHANGED <<clock, taken, camera, callerVars, closing, todo, dropped>>
      /\ skipped' = skipped
      /\ \/ worker' = "open" /\ clips' = Append(fin, new)
         \/ worker' = "failed" /\ clips' = fin
  BY DEF WorkStart
<1>2. h \in Item /\ h.size \in Sizes
  BY <1>1, WorkerMoves, ItemKinds DEF callerVars
<1>3. /\ fin \in Clips /\ Len(fin) = Len(clips) /\ clips \in Clips
      /\ \A c \in 1 .. Len(clips) : fin[c].frames = clips[c].frames
  BY FinalizedKeeps DEF RecorderInv, RecorderTypeOK, Clips
<1>4. skipped = {} /\ OnTape(clips)
  BY OrderOnTape DEF RecorderInv, SessionInv, OrderInv
<1> HIDE DEF fin
<1>5. Taped(fin) = Taped(clips) /\ OnTape(fin)
  <2>1. Len(fin) <= Len(fin) /\ \A c \in 1 .. Len(fin) : c \in 1 .. Len(clips)
    BY <1>3 DEF Clips
  <2> QED BY <1>3, <1>4, <2>1, FilesKeepOrder
<1>6. LET ds == Append(fin, new)
      IN /\ ds \in Clips /\ Taped(ds) = Taped(clips) /\ OnTape(ds) /\ ds # <<>>
         /\ ds[Len(ds)].size = h.size
  <2> DEFINE ds == Append(fin, new)
             m == Len(fin) + 1
  <2>1. new \in R /\ new.frames = <<>> /\ new.size = h.size
    <3>1. <<>> \in Seq(Picture)
      OBVIOUS
    <3> QED BY <1>2, <3>1
  <2> HIDE DEF R, new
  <2>2. fin \in Seq(R)
    BY <1>3 DEF Clips, R
  <2>3. /\ ds \in Seq(R) /\ Len(ds) = m /\ ds[m] = new /\ ds # <<>>
        /\ \A c \in 1 .. Len(fin) : ds[c] = fin[c]
        /\ Len(fin) <= Len(ds)
        /\ \A c \in 1 .. Len(ds) : c \notin 1 .. Len(fin) => c = m
    BY <2>1, <2>2
  <2> HIDE DEF ds, m
  <2>4. ds \in Clips
    BY <2>3 DEF Clips, R
  <2>5. Taped(ds) = Taped(fin) /\ (OnTape(fin) => OnTape(ds))
    BY <1>3, <2>1, <2>3, <2>4, FilesKeepOrder
  <2> QED BY <1>5, <2>1, <2>3, <2>4, <2>5 DEF ds
<1> HIDE DEF new
<1>7. \A y : Carries(h, y) => y = h.size
  BY <1>1 DEF Carries
<1>8. CASE worker' = "open" /\ clips' = Append(fin, new)
  <2>1. \A y : Carries(h, y) => Shooting(worker', clips', y)
    BY <1>6, <1>7, <1>8 DEF Shooting, new
  <2> HIDE DEF h
  <2>2. /\ clips' \in Clips /\ clips' # <<>> /\ OnTape(clips')
        /\ Taped(clips') = Taped(clips)
    BY <1>6, <1>8 DEF new, h
  <2> QED BY <1>1, <1>4, <1>8, <2>1, <2>2, WorkerKeeps DEF h
<1>9. CASE worker' = "failed" /\ clips' = fin
  <2>1. \A y : Shooting(worker', clips', y)
    BY <1>9 DEF Shooting
  <2> QED BY <1>1, <1>3, <1>4, <1>5, <1>9, <2>1, WorkerKeeps
<1> QED BY <1>1, <1>8, <1>9

LEMMA WorkStopKeeps ==
  ASSUME RecorderInv, WorkStop
  PROVE  RecorderInv'
<1> DEFINE h == Head(queue)
           fin == Finalized(clips)
<1>1. /\ queue # <<>> /\ queue' = Tail(queue) /\ h.type \in {"stop", "shutdown"}
      /\ UNCHANGED <<clock, taken, camera, callerVars, closing, todo, dropped>>
      /\ skipped' = skipped /\ clips' = fin /\ worker' \in {"exited", "idle"}
  BY DEF WorkStop
<1>2. /\ fin \in Clips /\ Len(fin) = Len(clips) /\ clips \in Clips
      /\ \A c \in 1 .. Len(clips) : fin[c].frames = clips[c].frames
  BY FinalizedKeeps DEF RecorderInv, RecorderTypeOK, Clips
<1>3. skipped = {} /\ OnTape(clips)
  BY OrderOnTape DEF RecorderInv, SessionInv, OrderInv
<1> HIDE DEF fin
<1>4. Taped(fin) = Taped(clips) /\ OnTape(fin)
  <2>1. Len(fin) <= Len(fin) /\ \A c \in 1 .. Len(fin) : c \in 1 .. Len(clips)
    BY <1>2 DEF Clips
  <2> QED BY <1>2, <1>3, <2>1, FilesKeepOrder
<1>5. \A y : ~Carries(h, y)
  BY <1>1 DEF Carries
<1> QED BY <1>1, <1>2, <1>3, <1>4, <1>5, WorkerKeeps

LEMMA WorkFrameKeeps ==
  ASSUME RecorderInv, WorkFrame
  PROVE  RecorderInv'
<1> DEFINE h == Head(queue)
           p == h.frame
           n == Len(clips)
           fits == worker = "open" /\ p.size = clips[n].size
<1>1. /\ queue # <<>> /\ queue' = Tail(queue) /\ h.type = "frame"
      /\ UNCHANGED <<clock, taken, camera, callerVars, closing, todo, dropped>>
      /\ worker' = worker
      /\ clips' = IF fits THEN [clips EXCEPT ![n].frames = Append(@, p)] ELSE clips
      /\ skipped' = IF worker # "failed" /\ ~fits THEN skipped \cup {p} ELSE skipped
  BY DEF WorkFrame
<1>2. /\ RecorderTypeOK /\ OrderInv /\ SessionInv /\ clips \in Clips
      /\ worker \in {"idle", "open", "failed", "exited"}
      /\ worker = "open" => clips # <<>>
  BY DEF RecorderInv, RecorderTypeOK, SessionInv, Clips
<1>3. /\ h = Line[1] /\ Line # <<>> /\ h \in Item /\ p \in Picture
      /\ Line \in Seq(Item)
  BY <1>1, WorkerMoves, ItemKinds
<1>4. Shooting(worker, clips, p.size)
  BY <1>1, <1>2, <1>3 DEF SessionInv, InStep
<1>5. skipped = {} /\ OnTape(clips) /\ Older(Taped(clips), {p})
  <2>1. Older(Taped(clips), Pictures(Line)) /\ p \in Pictures(Line)
    BY <1>1, <1>2, <1>3, TailKeepsOrder DEF OrderInv, Chronological
  <2> QED BY <1>2, <2>1, OrderOnTape DEF SessionInv, OrderInv, Older
<1>6. worker = "failed" \/ fits
  BY <1>4 DEF Shooting
<1>7. skipped' = {}
  BY <1>1, <1>5, <1>6
<1>8. \A y : Carries(h, y) => y = p.size
  BY <1>1 DEF Carries
<1>9. CASE fits
  <2> DEFINE ds == [clips EXCEPT ![n].frames = Append(@, p)]
  <2>1. clips' = ds /\ clips # <<>> /\ worker = "open" /\ p.size = clips[n].size
    BY <1>1, <1>2, <1>9
  <2>2. /\ ds \in Clips /\ Taped(ds) \subseteq Taped(clips) \cup {p} /\ OnTape(ds)
        /\ ds # <<>> /\ ds[Len(ds)].size = clips[n].size
    BY <1>2, <1>3, <1>5, <2>1, FrameKeepsOrder
  <2> HIDE DEF ds
  <2>3. \A y : Carries(h, y) => Shooting(worker', clips', y)
    BY <1>1, <1>8, <2>1, <2>2 DEF Shooting
  <2> QED BY <1>1, <1>2, <1>7, <2>1, <2>2, <2>3, WorkerKeeps
<1>10. CASE ~fits
  <2>1. clips' = clips /\ worker' = "failed"
    BY <1>1, <1>6, <1>10
  <2>2. \A y : Shooting(worker', clips', y)
    BY <2>1 DEF Shooting
  <2> QED BY <1>1, <1>2, <1>5, <1>7, <2>1, <2>2, WorkerKeeps
<1> QED BY <1>9, <1>10

-----------------------------------------------------------------------------
(* The invariant and the properties.                                        *)

LEMMA RecorderStarts == Init => RecorderInv
<1> SUFFICES ASSUME Init PROVE RecorderInv
  OBVIOUS
<1> USE DEF Init
<1>1. /\ Line = <<>> /\ Coming = {}
      /\ <<>> \in Seq(Picture) /\ <<>> \in Seq(Item) /\ Len(<<>>) = 0
      /\ <<>> \in Seq([size : Sizes, frames : Seq(Picture), final : BOOLEAN])
      /\ Pictures(<<>>) = {} /\ Entries(<<>>) = {}
      /\ Ascend(<<>>) /\ Rising(<<>>) /\ Chained(<<>>) /\ OneSize(<<>>)
  BY DEF Line, Coming, Pictures, Entries, Ascend, Rising, Chained, OneSize
<1>2. Taped(clips) = {} /\ Recorded = {}
  BY DEF Taped, Recorded
<1>3. RecorderTypeOK
  <2>1. {i \in 1 .. Len(queue) : queue[i].type = "frame"} = {}
    BY <1>1
  <2>2. Cardinality({i \in 1 .. Len(queue) : queue[i].type = "frame"}) <= MaxQueued
    BY <2>1, FS_EmptySet, RecorderAssumption
  <2>3. /\ 0 \in 0 .. MaxClock /\ 0 \in 0 .. MaxFrames /\ -1 \in -1 .. MaxClock
        /\ 0 <= MaxPreRoll
    BY RecorderAssumption
  <2> QED BY <1>1, <2>2, <2>3 DEF RecorderTypeOK
<1>4. OrderInv
  <2>1. FramesOnceInOrder
    BY <1>2 DEF FramesOnceInOrder
  <2>2. Chronological({}, <<>>, {}, {}, taken)
    BY <1>1 DEF Chronological, Older
  <2> QED BY <1>1, <1>2, <2>1, <2>2 DEF OrderInv
<1>5. SessionInv
  BY <1>1 DEF SessionInv, InStep
<1>6. PersonInv
  BY DEF PersonInv, StopsWhenEmpty, Overdue
<1> QED BY <1>3, <1>4, <1>5, <1>6 DEF RecorderInv

LEMMA RecorderSteps == RecorderInv /\ [Next]_vars => RecorderInv'
<1> SUFFICES ASSUME RecorderInv, [Next]_vars PROVE RecorderInv'
  OBVIOUS
<1>1. CASE \E size \in Sizes : TakePicture(size)
  BY <1>1, TakePictureKeeps
<1>2. CASE PushIgnored
  BY <1>2, PushIgnoredKeeps
<1>3. CASE PushOutsideSession
  BY <1>3, PushOutsideKeeps
<1>4. CASE PushInSession
  BY <1>4, PushInSessionKeeps
<1>5. CASE PersonSeen
  BY <1>5, PersonSeenKeeps
<1>6. CASE PersonLeft
  BY <1>6, PersonLeftKeeps
<1>7. CASE CloseBegins
  BY <1>7, CloseBeginsKeeps
<1>8. CASE CloseStops
  BY <1>8, CloseStopsKeeps
<1>9. CASE CloseEnds
  BY <1>9, CloseEndsKeeps
<1>10. CASE Enqueue
  BY <1>10, EnqueueKeeps
<1>11. CASE Worker
  BY <1>11, WorkStartKeeps, WorkFrameKeeps, WorkStopKeeps DEF Worker
<1>12. CASE Tick
  BY <1>12, TickKeeps
<1>13. CASE UNCHANGED vars
  <2> USE <1>13 DEF vars, callerVars, workerVars
  <2>1. RecorderTypeOK /\ OrderInv /\ SessionInv /\ PersonInv
    BY DEF RecorderInv
  <2>2. RecorderTypeOK'
    BY <2>1 DEF RecorderTypeOK
  <2>3. OrderInv' /\ SessionInv'
    BY <2>1, NothingMoves DEF SessionInv
  <2>4. PersonInv'
    BY <2>1 DEF PersonInv, StopsWhenEmpty, Overdue, Pictures
  <2> QED BY <2>2, <2>3, <2>4 DEF RecorderInv
<1> QED BY <1>1, <1>2, <1>3, <1>4, <1>5, <1>6, <1>7, <1>8, <1>9, <1>10, <1>11,
           <1>12, <1>13 DEF Next

(***************************************************************************)
(* The order of all frames, taken or still to be handled, the sessions the *)
(* line describes and the moments the caller remembers are kept by every   *)
(* step of the three threads.                                              *)
(***************************************************************************)
THEOREM RecorderInvariant == Spec => []RecorderInv
<1>1. Init => RecorderInv
  BY RecorderStarts
<1>2. RecorderInv /\ [Next]_vars => RecorderInv'
  BY RecorderSteps
<1> QED BY <1>1, <1>2, PTL DEF Spec

\* Every variable has its type, and the queue never holds more frames than
\* max_queued_frames_ (enqueue, 150-170).
THEOREM RecorderIsTyped == Spec => []RecorderTypeOK
<1>1. RecorderInv => RecorderTypeOK
  BY DEF RecorderInv
<1> QED BY <1>1, RecorderInvariant, PTL

\* Each frame is on the clips at most once, the clips show the frames in the
\* order of the camera, and the worker ignores no frame of a session whose
\* file could be opened, whatever the full queue threw away (write_frame).
THEOREM ClipsFaithful == Spec => []ClipsAreFaithful
<1>1. RecorderInv => ClipsAreFaithful
  BY DEF RecorderInv, OrderInv, SessionInv, ClipsAreFaithful, NoFrameSkipped
<1> QED BY <1>1, RecorderInvariant, PTL

\* Once the queue is drained the worker is where the calls left it: it has
\* a file, or failed to open one, exactly while recording() holds.
THEOREM ControlsInStep == Spec => []ControlInStep
<1>1. RecorderInv => ControlInStep
  <2> SUFFICES ASSUME RecorderInv, closing = "no" PROVE ControlInStep
    BY DEF ControlInStep
  <2> DEFINE s == Line
             controls == {i \in 1 .. Len(s) : s[i].type # "frame"}
  <2>1. s \in Seq(Item) /\ Len(s) \in Nat /\ \A i \in 1 .. Len(s) : s[i] \in Item
    BY StateTypes
  <2>2. /\ InStep(worker, clips, s, active, sessionSize) /\ active \in BOOLEAN
        /\ worker \in {"idle", "open", "failed", "exited"}
    BY DEF RecorderInv, SessionInv, RecorderTypeOK
  <2> HIDE DEF s
  <2>3. \A i \in 2 .. Len(s) : s[i].type = "frame" =>
          s[i - 1].type \in {"start", "frame"}
    BY <2>2 DEF InStep, Chained, Carries
  <2>4. s # <<>> => (active <=> s[Len(s)].type \in {"start", "frame"})
    <3>1. ASSUME s # <<>>, active PROVE s[Len(s)].type \in {"start", "frame"}
      BY <2>2, <3>1 DEF InStep, Carries
    <3>2. ASSUME s # <<>>, ~active PROVE s[Len(s)].type \in {"stop", "shutdown"}
      BY <2>2, <3>2 DEF InStep
    <3> QED BY <2>2, <3>1, <3>2
  <2>5. ASSUME controls = {} PROVE worker \in {"open", "failed"} <=> active
    <3>1. CASE s = <<>>
      BY <2>2, <3>1 DEF InStep, Shooting
    <3>2. CASE s # <<>>
      <4>1. 1 \in 1 .. Len(s) /\ Len(s) \in 1 .. Len(s)
        BY <2>1, <3>2
      <4>2. s[1].type = "frame" /\ s[Len(s)].type = "frame"
        BY <2>5, <4>1
      <4>3. active
        BY <2>4, <3>2, <4>2
      <4>4. Shooting(worker, clips, s[1].frame.size)
        BY <2>2, <3>2, <4>2 DEF InStep
      <4> QED BY <4>3, <4>4 DEF Shooting
    <3> QED BY <3>1, <3>2
  <2>6. ASSUME NEW i \in controls, \A j \in controls : j <= i
        PROVE  s[i].type = "start" <=> active
    <3>1. i \in 1 .. Len(s) /\ i \in Nat /\ s # <<>> /\ s[i].type # "frame"
      BY <2>1
    <3>2. CASE i = Len(s)
      BY <2>4, <3>1, <3>2
    <3>3. CASE i # Len(s)
      <4>1. /\ i + 1 \in 2 .. Len(s) /\ (i + 1) - 1 = i /\ i + 1 \in 1 .. Len(s)
            /\ ~(i + 1 <= i) /\ Len(s) \in 1 .. Len(s) /\ ~(Len(s) <= i)
        BY <2>1, <3>1, <3>3
      <4>2. s[i + 1].type = "frame" /\ s[Len(s)].type = "frame"
        BY <2>6, <4>1
      <4>3. s[i].type = "start"
        BY <2>3, <3>1, <4>1, <4>2
      <4> QED BY <2>4, <3>1, <4>2, <4>3
    <3> QED BY <3>2, <3>3
  <2> QED BY <2>5, <2>6 DEF ControlInStep, s, Line
<1> QED BY <1>1, RecorderInvariant, PTL

\* A frame that is handled while nobody has been in the cabin for
\* empty_stop_ms ends the session, unless a change of resolution restarted it
\* (push_frame, 92 and 245-248).
THEOREM StopsWhenEmptyHolds == Spec => []StopsWhenEmpty
<1>1. RecorderInv => StopsWhenEmpty
  BY DEF RecorderInv, PersonInv
<1> QED BY <1>1, RecorderInvariant, PTL

(***************************************************************************)
(* The configuration.                                                      *)
(***************************************************************************)

Numbers == Fields \ {"source"}

\* The cabin is not in the database, or its row has numbers where it should.
RowOK(row) == row = NoRow \/ \A f \in Numbers : row[f] \in Int

LEMMA ChosenIsNumber ==
  ASSUME NEW cli, WellFormed(cli, CliFields), NEW row, RowOK(row),
         NEW f \in Numbers
  PROVE  Chosen(f, cli, row) \in Int
  BY ConfigAssumption DEF Chosen, WellFormed, RowOK, Numbers

LEMMA RowsAreNumbers == \A row \in Rows : RowOK(row)
<1>1. \A p \in Patches : \A f \in Numbers \cap DOMAIN p : p[f] \in Int
  BY VideoAssumption DEF WellFormed, Numbers
<1>2. ASSUME NEW p \in Patches, NEW q \in Patches
      PROVE  RowOK(Patched(Patched(Defaults, p), q))
  BY <1>1, ConfigAssumption DEF RowOK, Patched, Numbers
<1> QED
  BY <1>2 DEF Rows, RowOK

\* What the clamps and the swap make of the fields, one by one.
LEMMA ResolvedFields ==
  ASSUME NEW cli, NEW row
  PROVE  LET chosen(f) == Chosen(f, cli, row)
             low == AtLeast(chosen("reconnect_min_ms"), 1)
             high == chosen("reconnect_max_ms")
             c == Resolved(cli, row)
         IN /\ DOMAIN c = Fields
            /\ c["match_thr"] = IF chosen("match_thr") > 95 THEN 95
                                ELSE AtLeast(chosen("match_thr"), 5)
            /\ c["confirm_streak"] = AtLeast(chosen("confirm_streak"), 1)
            /\ \A f \in {"cooldown_ms", "unknown_after_ms", "gst_latency_ms"} :
                 c[f] = AtLeast(chosen(f), 0)
            /\ c["reconnect_min_ms"] = IF low > high THEN high ELSE low
            /\ c["reconnect_max_ms"] = IF low > high THEN low ELSE high
            /\ IF chosen("floors_min") > chosen("floors_max")
               THEN /\ c["floors_min"] = Defaults["floors_min"]
                    /\ c["floors_max"] = Defaults["floors_max"]
               ELSE /\ c["floors_min"] = chosen("floors_min")
                    /\ c["floors_max"] = chosen("floors_max")
<1> DEFINE chosen(f) == Chosen(f, cli, row)
           a == [f \in Fields |-> Chosen(f, cli, row)]
           b == Clamped(a)
           c == Ordered(b)
<1>1. DOMAIN a = Fields /\ \A f \in Fields : a[f] = chosen(f)
  OBVIOUS
<1>2. Resolved(cli, row) = c
  BY DEF Resolved, Selected
<1> HIDE DEF chosen, a
<1>3. /\ DOMAIN b = Fields
      /\ b["match_thr"] = IF a["match_thr"] > 95 THEN 95 ELSE AtLeast(a["match_thr"], 5)
      /\ b["confirm_streak"] = AtLeast(a["confirm_streak"], 1)
      /\ \A f \in {"cooldown_ms", "unknown_after_ms", "gst_latency_ms"} :
           b[f] = AtLeast(a[f], 0)
      /\ b["reconnect_min_ms"] = AtLeast(a["reconnect_min_ms"], 1)
      /\ \A f \in {"reconnect_max_ms", "floors_min", "floors_max"} : b[f] = a[f]
  BY <1>1 DEF Clamped, Fields, CliFields, DbOnly
<1> HIDE DEF b
<1>4. /\ DOMAIN c = Fields
      /\ \A f \in {"match_thr", "confirm_streak", "cooldown_ms", "unknown_after_ms",
                   "gst_latency_ms"} : c[f] = b[f]
      /\ c["reconnect_min_ms"] = IF b["reconnect_min_ms"] > b["reconnect_max_ms"]
                                 THEN b["reconnect_max_ms"] ELSE b["reconnect_min_ms"]
      /\ c["reconnect_max_ms"] = IF b["reconnect_min_ms"] > b["reconnect_max_ms"]
                                 THEN b["reconnect_min_ms"] ELSE b["reconnect_max_ms"]
      /\ c["floors_min"] = IF b["floors_min"] > b["floors_max"]
                           THEN Defaults["floors_min"] ELSE b["floors_min"]
      /\ c["floors_max"] = IF b["floors_min"] > b["floors_max"]
                           THEN Defaults["floors_max"] ELSE b["floors_max"]
  BY <1>3 DEF Ordered, Fields, CliFields, DbOnly
<1> HIDE DEF c
<1>5. \A f \in {"match_thr", "confirm_streak", "cooldown_ms", "unknown_after_ms",
                "gst_latency_ms", "reconnect_min_ms", "reconnect_max_ms",
                "floors_min", "floors_max"} : a[f] = chosen(f)
  BY <1>1 DEF Fields, CliFields, DbOnly
<1> QED
  BY <1>2, <1>3, <1>4, <1>5 DEF chosen

(***************************************************************************)
(* Whatever the command line and the row, the values resolve_cabin_config  *)
(* gives the program are in range if and only if the upper bound of the    *)
(* back-off it chose is at least 1: it is the one value that neither       *)
(* validate_cabin_patch nor the clamps look at, and an upper bound of zero *)
(* becomes the lower one after that has been raised.                       *)
(***************************************************************************)
THEOREM RangeIsTheMaximum ==
  ASSUME NEW cli, WellFormed(cli, CliFields), NEW row, RowOK(row)
  PROVE  InRange(Resolved(cli, row)) <=> Chosen("reconnect_max_ms", cli, row) >= 1
<1> DEFINE chosen(f) == Chosen(f, cli, row)
           c == Resolved(cli, row)
           low == AtLeast(chosen("reconnect_min_ms"), 1)
           high == chosen("reconnect_max_ms")
<1>1. \A f \in Numbers : chosen(f) \in Int
  BY ChosenIsNumber
<1>2. /\ chosen("match_thr") \in Int /\ chosen("confirm_streak") \in Int
      /\ chosen("cooldown_ms") \in Int /\ chosen("unknown_after_ms") \in Int
      /\ chosen("gst_latency_ms") \in Int /\ high \in Int
      /\ chosen("reconnect_min_ms") \in Int
      /\ chosen("floors_min") \in Int /\ chosen("floors_max") \in Int
  BY <1>1 DEF Numbers, Fields, CliFields, DbOnly
<1>3. /\ c["match_thr"] = IF chosen("match_thr") > 95 THEN 95
                          ELSE AtLeast(chosen("match_thr"), 5)
      /\ c["confirm_streak"] = AtLeast(chosen("confirm_streak"), 1)
      /\ c["cooldown_ms"] = AtLeast(chosen("cooldown_ms"), 0)
      /\ c["unknown_after_ms"] = AtLeast(chosen("unknown_after_ms"), 0)
      /\ c["gst_latency_ms"] = AtLeast(chosen("gst_latency_ms"), 0)
      /\ c["reconnect_min_ms"] = IF low > high THEN high ELSE low
      /\ c["reconnect_max_ms"] = IF low > high THEN low ELSE high
      /\ IF chosen("floors_min") > chosen("floors_max")
         THEN /\ c["floors_min"] = Defaults["floors_min"]
              /\ c["floors_max"] = Defaults["floors_max"]
         ELSE /\ c["floors_min"] = chosen("floors_min")
              /\ c["floors_max"] = chosen("floors_max")
  BY ResolvedFields
<1>4. low \in Int /\ low >= 1
  BY <1>2 DEF AtLeast
<1> HIDE DEF chosen, c, low, high
<1>5. /\ c["match_thr"] \in 5 .. 95 /\ c["confirm_streak"] >= 1
      /\ c["cooldown_ms"] >= 0 /\ c["unknown_after_ms"] >= 0
      /\ c["gst_latency_ms"] >= 0
  BY <1>2, <1>3 DEF AtLeast
<1>6. c["floors_min"] <= c["floors_max"]
  BY <1>2, <1>3, ConfigAssumption DEF Fields, CliFields, DbOnly
<1>7. 1 <= c["reconnect_min_ms"] /\ c["reconnect_min_ms"] <= c["reconnect_max_ms"]
      <=> high >= 1
  BY <1>2, <1>3, <1>4
<1>8. InRange(c) <=> high >= 1
  BY <1>5, <1>6, <1>7 DEF InRange
<1> QED
  BY <1>8 DEF c, high, chosen

LEMMA ParsedWellFormed ==
  ASSUME NEW line, WellFormed(line, CliFields)
  PROVE  WellFormed(Parsed(line), CliFields)
<1> DEFINE cli == Parsed(line)
<1>1. DOMAIN cli = DOMAIN line /\ DOMAIN line \subseteq CliFields
  BY DEF Parsed, WellFormed
<1>2. ASSUME NEW f \in DOMAIN line
      PROVE  IF f = "source" THEN cli[f] \in Urls ELSE cli[f] \in Int
  BY DEF Parsed, WellFormed, AtLeast
<1> HIDE DEF cli
<1>3. WellFormed(cli, CliFields)
  BY <1>1, <1>2 DEF WellFormed
<1> QED
  BY <1>3 DEF cli

\* In range or not, the configuration has numbers.
HasNumbers(c) == DOMAIN c = Fields /\ \A f \in Numbers : c[f] \in Int

LEMMA ResolvedIsTyped ==
  ASSUME NEW cli, WellFormed(cli, CliFields), NEW row, RowOK(row)
  PROVE  HasNumbers(Resolved(cli, row))
<1> DEFINE c == Resolved(cli, row)
           chosen(f) == Chosen(f, cli, row)
<1>1. \A f \in Numbers : chosen(f) \in Int /\ Defaults[f] \in Int
  BY ChosenIsNumber, ConfigAssumption DEF Numbers
<1>2. Numbers = {"match_thr", "confirm_streak", "cooldown_ms", "unknown_after_ms",
                 "gst_latency_ms", "reconnect_min_ms", "reconnect_max_ms",
                 "floors_min", "floors_max"}
  BY DEF Numbers, Fields, CliFields, DbOnly
<1>3. DOMAIN c = Fields
  BY ResolvedFields
<1>4. /\ c["match_thr"] \in {95, 5, chosen("match_thr")}
      /\ c["confirm_streak"] \in {1, chosen("confirm_streak")}
      /\ c["cooldown_ms"] \in {0, chosen("cooldown_ms")}
      /\ c["unknown_after_ms"] \in {0, chosen("unknown_after_ms")}
      /\ c["gst_latency_ms"] \in {0, chosen("gst_latency_ms")}
      /\ c["reconnect_min_ms"] \in {1, chosen("reconnect_min_ms"), chosen("reconnect_max_ms")}
      /\ c["reconnect_max_ms"] \in {1, chosen("reconnect_min_ms"), chosen("reconnect_max_ms")}
      /\ c["floors_min"] \in {Defaults["floors_min"], chosen("floors_min")}
      /\ c["floors_max"] \in {Defaults["floors_max"], chosen("floors_max")}
  BY ResolvedFields DEF AtLeast
<1> HIDE DEF c, chosen
<1>5. \A f \in Numbers : c[f] \in Int
  BY <1>1, <1>2, <1>4
<1>6. HasNumbers(c)
  BY <1>3, <1>5 DEF HasNumbers
<1> QED
  BY <1>6 DEF c

LEMMA UnresolvedIsTyped ==
  ASSUME NEW cli, WellFormed(cli, CliFields)
  PROVE  HasNumbers(Unresolved(cli))
<1>1. RowOK(NoRow)
  BY DEF RowOK
<1>2. \A f \in Numbers : Chosen(f, cli, NoRow) \in Int
  BY <1>1, ChosenIsNumber
<1> QED
  BY <1>2 DEF HasNumbers, Unresolved, Selected, Numbers

LEMMA ConfigInit == SlotsInit => HasNumbers(config.eff) /\ ConfigInRange
<1> SUFFICES ASSUME NEW line \in Clis, Configured(Parsed(line))
             PROVE  HasNumbers(config.eff) /\ ConfigInRange
  BY DEF SlotsInit
<1> DEFINE cli == Parsed(line)
<1>1. WellFormed(cli, CliFields)
  BY ParsedWellFormed, VideoAssumption
<1>4. Configured(cli)
  OBVIOUS
<1> HIDE DEF cli
<1>2. CASE \E row \in Rows :
             config = [resolved |-> TRUE, chosen |-> Selected(cli, row),
                       eff |-> Resolved(cli, row)]
  <2>1. PICK row \in Rows :
          config = [resolved |-> TRUE, chosen |-> Selected(cli, row),
                    eff |-> Resolved(cli, row)]
    BY <1>2
  <2>2. RowOK(row)
    BY RowsAreNumbers
  <2>3. /\ config.eff = Resolved(cli, row)
        /\ config.chosen["reconnect_max_ms"] = Chosen("reconnect_max_ms", cli, row)
    BY <2>1 DEF Selected, Fields, CliFields
  <2>4. HasNumbers(config.eff)
    BY <1>1, <2>2, <2>3, ResolvedIsTyped
  <2>5. InRange(config.eff) <=> config.chosen["reconnect_max_ms"] >= 1
    BY <1>1, <2>2, <2>3, RangeIsTheMaximum
  <2> QED
    BY <2>4, <2>5 DEF ConfigInRange
<1>3. CASE config = [resolved |-> FALSE, chosen |-> Unresolved(cli),
                     eff |-> Unresolved(cli)]
  <2>1. config.eff = Unresolved(cli) /\ ~config.resolved
    BY <1>3
  <2> QED
    BY <1>1, <2>1, UnresolvedIsTyped DEF ConfigInRange
<1>5. \/ \E row \in Rows :
            config = [resolved |-> TRUE, chosen |-> Selected(cli, row),
                      eff |-> Resolved(cli, row)]
      \/ config = [resolved |-> FALSE, chosen |-> Unresolved(cli),
                   eff |-> Unresolved(cli)]
  BY <1>4, Zenon DEF Configured
<1> QED
  BY <1>2, <1>3, <1>5, Zenon

LEMMA ConfigKept == [SlotsNext]_slotsVars => config' = config
  BY DEF SlotsNext, slotsVars, Capture, CaptureStops, ReadFrame, ReadFails, PushToRecorder,
         Publish, NotifyMain, Doze, Reopen, Main, TestSlot, Block, Draw,
         NotifyDisplay, NextFrame, StopCapture, JoinCapture, StopDisplay,
         JoinDisplay, Deadline, Display, TestDisplay, NoKey, QuitKey, WakeMain,
         OnSignal, DropOut, ComeBack

(***************************************************************************)
(* Whatever the command line says and whatever two patches, each valid on  *)
(* its own, have made of the row: a resolved configuration is in range and *)
(* has its bounds in order if and only if the upper bound of the back-off  *)
(* that was chosen is at least 1.                                          *)
(***************************************************************************)
THEOREM ConfigIsInRange == SlotsSpec => []ConfigInRange
<1>1. SlotsInit => ConfigInRange
  BY ConfigInit
<1>2. ConfigInRange /\ [SlotsNext]_slotsVars => ConfigInRange'
  BY ConfigKept DEF ConfigInRange, InRange
<1> QED
  BY <1>1, <1>2, PTL DEF SlotsSpec

(***************************************************************************)
(* The threads.                                                            *)
(***************************************************************************)

Capturing == {"read", "push", "publish", "notify", "backoff", "done"}
Processing == {"test", "block", "asleep", "frame", "notify", "next", "close",
               "stop", "join", "stopDisplay", "joinDisplay", "ended"}
Showing == {"test", "asleep", "key", "wake", "done"}

CaptureThread ==
  [pc : Capturing, local : Images, fails : Int, backoff : Int, slept : Int]

\* The records of the threads are well formed, whatever the configuration.
ThreadsTypeOK ==
  /\ HasNumbers(config.eff) /\ BackoffMin \in Int /\ BackoffMax \in Int
  /\ slot \in Slot /\ disp \in Slot /\ recorded \in Images
  /\ cap \in CaptureThread
  /\ main \in [pc : Processing, last : Images, frame : Images]
  /\ show \in [pc : Showing, last : Images, local : Images]

\* The slot is numbered like the images: each image is published once, and the
\* recorder has it by then.
CaptureInv ==
  /\ slot.seq = slot.latest /\ slot.latest <= recorded
  /\ cap.pc \in {"push", "publish"} => cap.local = slot.seq + 1
  /\ cap.pc \in {"read", "notify", "backoff"} => cap.local = slot.seq
  /\ cap.pc = "publish" => recorded = cap.local

\* What the main thread last saw is not newer than the slot, and it is what
\* the display slot holds unless it is still to be drawn.
MainInv ==
  /\ main.last = main.frame /\ main.last <= slot.seq
  /\ IF main.pc = "frame" THEN disp.latest < main.frame
     ELSE disp.latest = main.frame
  /\ disp.seq <= disp.latest

\* The display thread is behind in numbers exactly when it is behind in images.
ShowInv ==
  /\ show.last <= disp.seq
  /\ IF show.last = disp.seq THEN show.local = disp.latest
     ELSE show.local < disp.latest

VideoInv == ThreadsTypeOK /\ CaptureInv /\ MainInv /\ ShowInv

Newer ==
  /\ main.pc # "frame" /\ main'.pc = "frame" =>
       main'.frame > main.frame /\ main'.frame <= recorded
  /\ show.pc # "key" /\ show'.pc = "key" => show'.local > show.local

-----------------------------------------------------------------------------
LEMMA VideoInit == SlotsInit => VideoInv
<1> SUFFICES ASSUME SlotsInit PROVE VideoInv
  OBVIOUS
<1>1. HasNumbers(config.eff) /\ BackoffMin \in Int /\ BackoffMax \in Int
  BY ConfigInit DEF HasNumbers, BackoffMin, BackoffMax, Numbers, Fields, CliFields
<1>2. 0 \in Images
  BY VideoAssumption DEF Images
<1>3. ThreadsTypeOK
  BY <1>1, <1>2 DEF SlotsInit, ThreadsTypeOK, Slot, CaptureThread, Capturing, Processing,
                    Showing
<1>4. CaptureInv /\ MainInv /\ ShowInv
  BY DEF SlotsInit, CaptureInv, MainInv, ShowInv
<1> QED
  BY <1>3, <1>4 DEF VideoInv

\* The typing, as the steps use it.
LEMMA ThreadFacts ==
  ASSUME ThreadsTypeOK
  PROVE  /\ Images \subseteq Nat
         /\ slot.seq \in Images /\ slot.latest \in Images
         /\ disp.seq \in Images /\ disp.latest \in Images
         /\ cap.local \in Images /\ cap.pc \in Capturing
         /\ cap.fails \in Int /\ cap.backoff \in Int /\ cap.slept \in Int
         /\ main.last \in Images /\ main.frame \in Images /\ main.pc \in Processing
         /\ show.last \in Images /\ show.local \in Images /\ show.pc \in Showing
         /\ recorded \in Images
  BY VideoAssumption DEF ThreadsTypeOK, Slot, CaptureThread, Images

LEMMA HealthyThread ==
  ASSUME ThreadsTypeOK
  PROVE  Healthy \in CaptureThread /\ Healthy.local = cap.local /\ Healthy.fails = 0
<1>1. cap \in CaptureThread /\ BackoffMin \in Int
  BY DEF ThreadsTypeOK
<1> DEFINE a == [cap EXCEPT !.fails = 0]
           b == [a EXCEPT !.backoff = BackoffMin]
           c == [b EXCEPT !.slept = 0]
<1>2. a \in CaptureThread /\ a.local = cap.local /\ a.fails = 0
  BY <1>1 DEF CaptureThread
<1>3. Healthy = c
  BY DEF Healthy
<1> HIDE DEF a
<1>4. b \in CaptureThread /\ b.local = cap.local /\ b.fails = 0
  BY <1>1, <1>2 DEF CaptureThread
<1> HIDE DEF b
<1>5. c \in CaptureThread /\ c.local = cap.local /\ c.fails = 0
  BY <1>4 DEF CaptureThread
<1> QED
  BY <1>3, <1>5

LEMMA PausedThread ==
  ASSUME ThreadsTypeOK, NEW pause \in Int
  PROVE  LET next == [cap EXCEPT !.backoff = pause, !.slept = 0]
         IN /\ next \in CaptureThread /\ next.local = cap.local /\ next.pc = cap.pc
            /\ next.fails = cap.fails /\ next.backoff = pause /\ next.slept = 0
<1> DEFINE a == [cap EXCEPT !.backoff = pause]
           b == [a EXCEPT !.slept = 0]
<1>1. /\ a \in CaptureThread /\ a.local = cap.local /\ a.pc = cap.pc
      /\ a.fails = cap.fails /\ a.backoff = pause
  BY DEF ThreadsTypeOK, CaptureThread
<1> HIDE DEF a
<1>2. /\ b \in CaptureThread /\ b.local = a.local /\ b.pc = a.pc
      /\ b.fails = a.fails /\ b.backoff = a.backoff /\ b.slept = 0
  BY <1>1 DEF CaptureThread
<1> HIDE DEF b
<1>3. [cap EXCEPT !.backoff = pause, !.slept = 0] = b
  BY DEF a, b
<1> QED
  BY <1>1, <1>2, <1>3

\* Reopening succeeds, or the back-off grows.
LEMMA ReopenSplit ==
  ASSUME Reopen
  PROVE  /\ cap.pc = "backoff"
         /\ \/ cap' = [Healthy EXCEPT !.pc = "read"]
            \/ \E twice \in Doubled(cap.backoff) :
                 cap' = [cap EXCEPT !.backoff = Capped(twice), !.slept = 0]
         /\ feed' = [feed EXCEPT !.handle = feed.there]
         /\ UNCHANGED <<config, slot, disp, gStop, main, show, recorded, reloads>>
  BY Zenon DEF Reopen

\* The capture thread goes on with other counts of its back-off.
LEMMA CapturePaces ==
  ASSUME VideoInv, \/ CaptureStops \/ ReadFails \/ Doze \/ Reopen
  PROVE  VideoInv' /\ Newer
<1>1. /\ UNCHANGED <<config, slot, disp, main, show, recorded>>
      /\ cap' \in CaptureThread /\ cap'.local = cap.local
      /\ cap'.pc \in {"read", "backoff", "done"} /\ cap.pc \in {"read", "backoff"}
  <2>1. /\ cap \in CaptureThread /\ BackoffMin \in Int
        /\ cap.fails + 1 \in Int /\ cap.slept + 1 \in Int
        /\ \A twice \in Doubled(cap.backoff) : Capped(twice) \in Int
    BY ThreadFacts, VideoAssumption DEF VideoInv, ThreadsTypeOK, Doubled, Capped
  <2>2. CASE CaptureStops
    BY <2>1, <2>2 DEF CaptureThread, Capturing, CaptureStops
  <2>3. CASE ReadFails
    BY <2>1, <2>3 DEF CaptureThread, Capturing, ReadFails
  <2>4. CASE Doze
    BY <2>1, <2>4 DEF CaptureThread, Capturing, Doze
  <2>5. CASE Reopen
    <3>1. CASE cap' = [Healthy EXCEPT !.pc = "read"]
      BY <2>5, <3>1, ReopenSplit, HealthyThread DEF VideoInv, CaptureThread, Capturing
    <3>2. ASSUME NEW twice \in Doubled(cap.backoff),
                 cap' = [cap EXCEPT !.backoff = Capped(twice), !.slept = 0]
          PROVE  /\ cap' \in CaptureThread /\ cap'.local = cap.local
                 /\ cap'.pc = cap.pc
      <4>1. Capped(twice) \in Int
        BY <2>1
      <4> QED
        BY <3>2, <4>1, PausedThread DEF VideoInv
    <3> QED
      BY <2>5, <3>1, <3>2, ReopenSplit
  <2> QED
    BY <2>2, <2>3, <2>4, <2>5
<1>2. ThreadsTypeOK'
  BY <1>1 DEF VideoInv, ThreadsTypeOK, HasNumbers, BackoffMin, BackoffMax
<1>3. CaptureInv' /\ MainInv' /\ ShowInv'
  BY <1>1 DEF VideoInv, CaptureInv, MainInv, ShowInv
<1> QED
  BY <1>1, <1>2, <1>3 DEF VideoInv, Newer

LEMMA ReadFrameKept ==
  ASSUME VideoInv, ReadFrame PROVE VideoInv' /\ Newer
<1>1. /\ UNCHANGED <<config, slot, disp, main, show, recorded>>
      /\ cap' \in CaptureThread /\ cap'.local = cap.local + 1 /\ cap'.pc = "push"
      /\ cap.pc = "read"
  <2>1. cap \in CaptureThread /\ BackoffMin \in Int
    BY DEF VideoInv, ThreadsTypeOK
  <2>2. cap.local + 1 \in Images
    BY ThreadFacts, VideoAssumption DEF VideoInv, ReadFrame, Images
  <2> QED
    BY <2>1, <2>2, HealthyThread DEF VideoInv, CaptureThread, Capturing, ReadFrame
<1>2. ThreadsTypeOK'
  BY <1>1 DEF VideoInv, ThreadsTypeOK, HasNumbers, BackoffMin, BackoffMax
<1>3. CaptureInv' /\ MainInv' /\ ShowInv'
  BY <1>1 DEF VideoInv, CaptureInv, MainInv, ShowInv
<1> QED
  BY <1>1, <1>2, <1>3 DEF VideoInv, Newer

LEMMA PushKept ==
  ASSUME VideoInv, PushToRecorder PROVE VideoInv' /\ Newer
<1>1. /\ UNCHANGED <<config, slot, disp, main, show>> /\ recorded' = cap.local
      /\ cap' \in CaptureThread /\ cap'.local = cap.local /\ cap'.pc = "publish"
      /\ cap.pc = "push"
  BY DEF VideoInv, ThreadsTypeOK, CaptureThread, Capturing, PushToRecorder
<1>2. ThreadsTypeOK'
  BY <1>1, ThreadFacts DEF VideoInv, ThreadsTypeOK, HasNumbers, BackoffMin, BackoffMax
<1>3. CaptureInv' /\ MainInv' /\ ShowInv'
  BY <1>1, ThreadFacts DEF VideoInv, CaptureInv, MainInv, ShowInv
<1> QED
  BY <1>1, <1>2, <1>3 DEF VideoInv, Newer

LEMMA PublishKept ==
  ASSUME VideoInv, Publish PROVE VideoInv' /\ Newer
<1>1. /\ UNCHANGED <<config, disp, main, show, recorded>>
      /\ cap' \in CaptureThread /\ cap'.local = cap.local /\ cap.pc = "publish"
      /\ \/ cap'.pc = "done" /\ slot' = slot
         \/ /\ cap'.pc = "notify" /\ slot' \in Slot
            /\ slot'.latest = cap.local /\ slot'.seq = slot.seq + 1
  <2>1. cap.local = slot.seq + 1
    BY DEF VideoInv, CaptureInv, Publish
  <2>2. slot.seq + 1 \in Images /\ cap.local \in Images
    BY <2>1, ThreadFacts DEF VideoInv
  <2>3. cap \in CaptureThread /\ slot \in Slot
    BY DEF VideoInv, ThreadsTypeOK
  <2>4. CASE slot.stop
    BY <2>3, <2>4 DEF CaptureThread, Capturing, Publish
  <2>5. CASE ~slot.stop
    <3>1. /\ slot' = [slot EXCEPT !.latest = cap.local, !.seq = slot.seq + 1]
          /\ cap' = [cap EXCEPT !.pc = "notify"] /\ cap.pc = "publish"
          /\ UNCHANGED <<config, disp, main, show, recorded>>
      BY <2>5 DEF Publish
    <3>2. slot' \in Slot /\ slot'.latest = cap.local /\ slot'.seq = slot.seq + 1
      BY <2>2, <2>3, <3>1 DEF Slot
    <3>3. cap' \in CaptureThread /\ cap'.local = cap.local /\ cap'.pc = "notify"
      BY <2>3, <3>1 DEF CaptureThread, Capturing
    <3> QED
      BY <3>1, <3>2, <3>3
  <2> QED
    BY <2>4, <2>5
<1>2. ThreadsTypeOK'
  BY <1>1 DEF VideoInv, ThreadsTypeOK, HasNumbers, BackoffMin, BackoffMax
<1>3. CaptureInv' /\ MainInv' /\ ShowInv'
  BY <1>1, ThreadFacts DEF VideoInv, CaptureInv, MainInv, ShowInv
<1> QED
  BY <1>1, <1>2, <1>3 DEF VideoInv, Newer

\* The capture thread or the display thread wakes the main thread.
LEMMA MainWoken ==
  ASSUME VideoInv, NotifyMain \/ WakeMain PROVE VideoInv' /\ Newer
<1>1. /\ UNCHANGED <<config, slot, disp, recorded>>
      /\ main' = Wakes(main) /\ Wakes(main) \in [pc : Processing, last : Images, frame : Images]
      /\ main'.last = main.last /\ main'.frame = main.frame
      /\ main'.pc = "frame" <=> main.pc = "frame"
  BY DEF VideoInv, ThreadsTypeOK, Processing, NotifyMain, WakeMain, Wakes
<1>2. /\ cap' \in CaptureThread /\ cap'.local = cap.local
      /\ cap' = cap \/ (cap.pc = "notify" /\ cap'.pc = "read")
  BY DEF VideoInv, ThreadsTypeOK, CaptureThread, Capturing, NotifyMain, WakeMain
<1>3. /\ show' \in [pc : Showing, last : Images, local : Images]
      /\ show'.last = show.last /\ show'.local = show.local
      /\ show' = show \/ show'.pc = "done"
  BY DEF VideoInv, ThreadsTypeOK, Showing, NotifyMain, WakeMain
<1>4. ThreadsTypeOK'
  BY <1>1, <1>2, <1>3 DEF VideoInv, ThreadsTypeOK, HasNumbers, BackoffMin, BackoffMax
<1>5. CaptureInv' /\ MainInv' /\ ShowInv'
  BY <1>1, <1>2, <1>3 DEF VideoInv, CaptureInv, MainInv, ShowInv
<1> QED
  BY <1>1, <1>3, <1>4, <1>5 DEF VideoInv, Newer

\* The main thread takes an image only if the slot has another number.
LEMMA TestSlotKept ==
  ASSUME VideoInv, TestSlot PROVE VideoInv' /\ Newer
<1> DEFINE Record == [pc : Processing, last : Images, frame : Images]
<1>1. /\ UNCHANGED <<config, slot, disp, cap, show, recorded>>
      /\ main.pc = "test" /\ main \in Record
  BY DEF VideoInv, ThreadsTypeOK, TestSlot
<1>2. \/ /\ main'.pc \in {"close", "block"} /\ main' \in Record
         /\ main'.last = main.last /\ main'.frame = main.frame
      \/ /\ main'.pc = "frame" /\ main' \in Record
         /\ main'.last = slot.seq /\ main'.frame = slot.latest
         /\ slot.seq # main.last
  <2>1. slot.seq \in Images /\ slot.latest \in Images
    BY ThreadFacts DEF VideoInv
  <2>2. CASE slot.stop \/ gStop
    BY <1>1, <2>2 DEF TestSlot, Processing
  <2>3. CASE ~(slot.stop \/ gStop) /\ slot.seq # main.last
    <3>1. main' = Taken(main)
      BY <2>3 DEF TestSlot
    <3>2. /\ Taken(main) \in Record /\ Taken(main).pc = "frame"
          /\ Taken(main).last = slot.seq /\ Taken(main).frame = slot.latest
      <4> DEFINE a == [main EXCEPT !.pc = "frame"]
                 b == [a EXCEPT !.frame = slot.latest]
                 c == [b EXCEPT !.last = slot.seq]
      <4>1. a \in Record /\ a.pc = "frame"
        BY <1>1 DEF Processing
      <4>2. Taken(main) = c
        BY DEF Taken
      <4> HIDE DEF a
      <4>3. b \in Record /\ b.pc = "frame" /\ b.frame = slot.latest
        BY <2>1, <4>1
      <4> HIDE DEF b
      <4>4. c \in Record /\ c.pc = "frame" /\ c.frame = slot.latest /\ c.last = slot.seq
        BY <2>1, <4>3
      <4> QED
        BY <4>2, <4>4
    <3> QED
      BY <2>3, <3>1, <3>2
  <2>4. CASE ~(slot.stop \/ gStop) /\ slot.seq = main.last
    BY <1>1, <2>4 DEF TestSlot, Processing
  <2> QED
    BY <2>2, <2>3, <2>4
<1>3. ThreadsTypeOK'
  BY <1>1, <1>2 DEF VideoInv, ThreadsTypeOK, HasNumbers, BackoffMin, BackoffMax
<1>4. CaptureInv' /\ MainInv' /\ ShowInv' /\ Newer
  BY <1>1, <1>2, ThreadFacts DEF VideoInv, CaptureInv, MainInv, ShowInv, Newer
<1> QED
  BY <1>3, <1>4 DEF VideoInv

\* The main thread goes to another place with what it has, and may set a flag.
LEMMA MainMoves ==
  ASSUME VideoInv,
         \/ Block \/ Deadline \/ NextFrame \/ NotifyDisplay \/ StopCapture
         \/ JoinCapture \/ StopDisplay \/ JoinDisplay
  PROVE  VideoInv' /\ Newer
<1>1. /\ UNCHANGED <<config, cap, recorded>>
      /\ main' \in [pc : Processing, last : Images, frame : Images]
      /\ main'.last = main.last /\ main'.frame = main.frame
      /\ main'.pc # "frame" /\ main.pc # "frame"
  BY DEF VideoInv, ThreadsTypeOK, Processing, Block, Deadline, NextFrame, NotifyDisplay,
         StopCapture, JoinCapture, StopDisplay, JoinDisplay
<1>2. /\ show' \in [pc : Showing, last : Images, local : Images]
      /\ show'.last = show.last /\ show'.local = show.local
      /\ show' = show \/ show'.pc # "key"
  BY DEF VideoInv, ThreadsTypeOK, Showing, Wakes, Block, Deadline, NextFrame,
         NotifyDisplay, StopCapture, JoinCapture, StopDisplay, JoinDisplay
<1>3. /\ slot' \in Slot /\ slot'.seq = slot.seq /\ slot'.latest = slot.latest
      /\ disp' \in Slot /\ disp'.seq = disp.seq /\ disp'.latest = disp.latest
  BY DEF VideoInv, ThreadsTypeOK, Slot, Block, Deadline, NextFrame, NotifyDisplay,
         StopCapture, JoinCapture, StopDisplay, JoinDisplay
<1>4. ThreadsTypeOK'
  BY <1>1, <1>2, <1>3 DEF VideoInv, ThreadsTypeOK, HasNumbers, BackoffMin, BackoffMax
<1>5. CaptureInv' /\ MainInv' /\ ShowInv' /\ Newer
  BY <1>1, <1>2, <1>3 DEF VideoInv, CaptureInv, MainInv, ShowInv, Newer
<1> QED
  BY <1>4, <1>5 DEF VideoInv

\* What is drawn is newer than what the display slot holds, so its number is
\* still not above that of the image.
LEMMA DrawKept ==
  ASSUME VideoInv, Draw PROVE VideoInv' /\ Newer
<1>1. disp.seq < main.frame /\ disp.latest < main.frame
  BY ThreadFacts DEF VideoInv, MainInv, Draw
<1>2. disp.seq + 1 \in Images /\ disp.seq + 1 <= main.frame
  BY <1>1, ThreadFacts, VideoAssumption DEF VideoInv, Images
<1>3. /\ UNCHANGED <<config, slot, cap, show, recorded>>
      /\ main' \in [pc : Processing, last : Images, frame : Images]
      /\ main'.last = main.last /\ main'.frame = main.frame /\ main'.pc = "notify"
  BY DEF VideoInv, ThreadsTypeOK, Processing, Draw
<1>4. /\ disp' \in Slot /\ disp'.latest = main.frame /\ disp'.seq = disp.seq + 1
  <2>1. disp \in Slot /\ main.frame \in Images
    BY ThreadFacts DEF VideoInv, ThreadsTypeOK
  <2>2. disp' = [disp EXCEPT !.latest = main.frame, !.seq = disp.seq + 1]
    BY DEF Draw
  <2> QED
    BY <1>2, <2>1, <2>2 DEF Slot
<1>5. ThreadsTypeOK'
  BY <1>3, <1>4 DEF VideoInv, ThreadsTypeOK, HasNumbers, BackoffMin, BackoffMax
<1>6. CaptureInv' /\ MainInv' /\ ShowInv' /\ Newer
  BY <1>1, <1>2, <1>3, <1>4, ThreadFacts
     DEF VideoInv, CaptureInv, MainInv, ShowInv, Newer
<1> QED
  BY <1>5, <1>6 DEF VideoInv

LEMMA TestDisplayKept ==
  ASSUME VideoInv, TestDisplay PROVE VideoInv' /\ Newer
<1> DEFINE Record == [pc : Showing, last : Images, local : Images]
<1>1. /\ UNCHANGED <<config, slot, disp, cap, main, recorded>>
      /\ show.pc = "test" /\ show \in Record
  BY DEF VideoInv, ThreadsTypeOK, TestDisplay
<1>2. \/ /\ show'.pc \in {"asleep", "done"} /\ show' \in Record
         /\ show'.last = show.last /\ show'.local = show.local
      \/ /\ show'.pc = "key" /\ show' \in Record
         /\ show'.last = disp.seq /\ show'.local = disp.latest
         /\ disp.seq # show.last
  <2>1. disp.seq \in Images /\ disp.latest \in Images
    BY ThreadFacts DEF VideoInv
  <2>2. CASE disp.seq = show.last \/ disp.stop
    BY <1>1, <2>2 DEF TestDisplay, Showing
  <2>3. CASE disp.seq # show.last /\ ~disp.stop
    BY <2>1, <2>3 DEF TestDisplay, Showing
  <2> QED
    BY <2>2, <2>3
<1>3. ThreadsTypeOK'
  BY <1>1, <1>2 DEF VideoInv, ThreadsTypeOK, HasNumbers, BackoffMin, BackoffMax
<1>4. CaptureInv' /\ MainInv' /\ ShowInv' /\ Newer
  BY <1>1, <1>2, ThreadFacts DEF VideoInv, CaptureInv, MainInv, ShowInv, Newer
<1> QED
  BY <1>3, <1>4 DEF VideoInv

\* Keys, signals and the camera: what flows between the threads stays.
LEMMA FlowUntouched ==
  ASSUME VideoInv,
         NoKey \/ QuitKey \/ OnSignal \/ DropOut \/ ComeBack \/ UNCHANGED slotsVars
  PROVE  VideoInv' /\ Newer
<1>1. /\ UNCHANGED <<config, slot, disp, cap, main, recorded>>
      /\ show' \in [pc : Showing, last : Images, local : Images]
      /\ show'.last = show.last /\ show'.local = show.local
      /\ show'.pc = "key" => show.pc = "key"
  BY DEF VideoInv, ThreadsTypeOK, Showing, NoKey, QuitKey, OnSignal, DropOut, ComeBack,
         slotsVars
<1>2. ThreadsTypeOK'
  BY <1>1 DEF VideoInv, ThreadsTypeOK, HasNumbers, BackoffMin, BackoffMax
<1>3. CaptureInv' /\ MainInv' /\ ShowInv' /\ Newer
  BY <1>1 DEF VideoInv, CaptureInv, MainInv, ShowInv, Newer
<1> QED
  BY <1>2, <1>3 DEF VideoInv

LEMMA VideoStep == VideoInv /\ [SlotsNext]_slotsVars => VideoInv' /\ Newer
  BY CapturePaces, ReadFrameKept, PushKept, PublishKept, MainWoken, TestSlotKept,
     MainMoves, DrawKept, TestDisplayKept, FlowUntouched
     DEF SlotsNext, Capture, Main, Display

(***************************************************************************)
(* Whatever the camera, the keys, the signals and the configuration do:    *)
(* the numbers of the images ascend through both slots, the two slots say  *)
(* how far each thread is, and the recorder is never behind the main       *)
(* thread.                                                                 *)
(***************************************************************************)
THEOREM VideoInvariant == SlotsSpec => []VideoInv
  BY VideoInit, VideoStep, PTL DEF SlotsSpec

(***************************************************************************)
(* OnlyNewer: no image is processed or shown twice or after a later one,   *)
(* though a slot keeps only the last; the recorder has every image before  *)
(* the main thread sees it.                                                *)
(***************************************************************************)
THEOREM OnlyNewerHolds == SlotsSpec => OnlyNewer
<1>1. VideoInv /\ [SlotsNext]_slotsVars => [Newer]_slotsVars
  BY VideoStep
<1> QED
  BY <1>1, VideoInvariant, PTL DEF SlotsSpec, OnlyNewer, Newer

-----------------------------------------------------------------------------
(* The back-off, for any configuration.                                     *)

\* The handle is given up after FailThreshold failures in a row.
BackoffInv ==
  /\ cap.fails \in 0 .. FailThreshold
  /\ cap.pc \in {"read", "push", "publish", "notify"} => cap.fails < FailThreshold
  /\ cap.slept >= 0 /\ BackoffOK

CameraInv ==
  /\ feed \in [there : BOOLEAN, handle : BOOLEAN, drops : 0 .. MaxDrops]
  /\ feed.handle => feed.there
  /\ gStop \in BOOLEAN /\ reloads \in BOOLEAN

LEMMA BackoffInit == ASSUME SlotsInit PROVE BackoffInv /\ CameraInv
<1>1. BackoffMin \in Int /\ BackoffMax \in Int
  BY VideoInit DEF VideoInv, ThreadsTypeOK
<1>2. cap.fails = 0 /\ cap.slept = 0 /\ cap.backoff = BackoffMin
  BY DEF SlotsInit
<1>4. BackoffInv
  BY <1>1, <1>2, VideoAssumption DEF BackoffInv, BackoffOK
<1>5. CameraInv
  <2>1. feed \in [there : BOOLEAN, handle : BOOLEAN, drops : 0 .. MaxDrops]
    BY VideoAssumption DEF SlotsInit
  <2>2. feed.handle => feed.there
    BY DEF SlotsInit
  <2> QED
    BY <2>1, <2>2 DEF SlotsInit, CameraInv
<1> QED
  BY <1>4, <1>5

LEMMA BackoffKept ==
  ASSUME VideoInv, BackoffInv, [SlotsNext]_slotsVars PROVE BackoffInv'
<1> DEFINE min == BackoffMin
           max == BackoffMax
           tidy == 0 <= min /\ min <= max /\ 2 * max < IntLimit
           Fine(b, n) == /\ b \in Int /\ n \in Nat
                         /\ b = min \/ b <= max
                         /\ n # 0 => n <= b
                         /\ tidy => min <= b
<1>1. /\ config' = config /\ min' = min /\ max' = max
      /\ min \in Int /\ max \in Int
  BY ConfigKept DEF BackoffMin, BackoffMax, VideoInv, ThreadsTypeOK
<1>2. cap \in CaptureThread /\ FailThreshold \in Nat \ {0}
  BY VideoAssumption DEF VideoInv, ThreadsTypeOK
<1>3. /\ cap.fails \in 0 .. FailThreshold
      /\ cap.pc \in {"read", "push", "publish", "notify"} => cap.fails < FailThreshold
      /\ Fine(cap.backoff, cap.slept)
  BY <1>2 DEF BackoffInv, BackoffOK, CaptureThread
<1>4. Healthy \in CaptureThread /\ Healthy.fails = 0 /\ Healthy.slept = 0
      /\ Healthy.backoff = min
  BY HealthyThread, <1>1, <1>2 DEF VideoInv, CaptureThread, Healthy
<1>5. \A twice \in Doubled(cap.backoff) : Fine(Capped(twice), 0)
  <2>1. SUFFICES ASSUME NEW twice \in Doubled(cap.backoff) PROVE Fine(Capped(twice), 0)
    OBVIOUS
  <2>2. cap.backoff \in Int /\ IntLimit \in Nat /\ twice \in Int
    BY <1>3, <2>1, VideoAssumption DEF Doubled
  <2>3. Capped(twice) = IF twice < max THEN twice ELSE max
    BY DEF Capped
  <2>4. CASE 2 * cap.backoff \in -IntLimit .. (IntLimit - 1)
    <3>1. twice = 2 * cap.backoff
      BY <2>1, <2>4 DEF Doubled
    <3> QED
      BY <1>1, <1>3, <2>2, <2>3, <3>1
  <2>5. CASE 2 * cap.backoff \notin -IntLimit .. (IntLimit - 1)
    <3>1. ~tidy
      BY <1>1, <1>3, <2>2, <2>5
    <3> QED
      BY <1>1, <2>2, <2>3, <3>1
  <2> QED
    BY <2>4, <2>5
<1>7. Fine(min, 0)
  BY <1>1
<1>8. \A n : Fine(cap.backoff, n) /\ n < cap.backoff => Fine(cap.backoff, n + 1)
  BY <1>3
<1> HIDE DEF Fine, tidy, min, max
<1>6. /\ cap'.fails \in 0 .. FailThreshold
      /\ cap'.pc \in {"read", "push", "publish", "notify"} => cap'.fails < FailThreshold
      /\ Fine(cap'.backoff, cap'.slept)
  <2>1. CASE CaptureStops
    BY <1>2, <1>3, <2>1 DEF CaptureStops, CaptureThread
  <2>2. CASE ReadFrame
    BY <1>2, <1>4, <1>7, <2>2 DEF ReadFrame, CaptureThread
  <2>3. CASE ReadFails
    BY <1>2, <1>3, <2>3 DEF ReadFails, CaptureThread
  <2>4. CASE PushToRecorder
    BY <1>2, <1>3, <2>4 DEF PushToRecorder, CaptureThread
  <2>5. CASE Publish
    BY <1>2, <1>3, <2>5 DEF Publish, CaptureThread
  <2>6. CASE NotifyMain
    BY <1>2, <1>3, <2>6 DEF NotifyMain, CaptureThread
  <2>7. CASE Doze
    <3>1. /\ cap'.backoff = cap.backoff /\ cap'.slept = cap.slept + 1
          /\ cap'.fails = cap.fails /\ cap'.pc = "backoff" /\ cap.slept < cap.backoff
      BY <1>2, <2>7 DEF Doze, CaptureThread
    <3> QED
      BY <1>3, <1>8, <3>1
  <2>8. CASE Reopen
    <3>1. CASE cap' = [Healthy EXCEPT !.pc = "read"]
      BY <1>2, <1>4, <1>7, <3>1, VideoAssumption DEF CaptureThread
    <3>2. ASSUME NEW twice \in Doubled(cap.backoff),
                 cap' = [cap EXCEPT !.backoff = Capped(twice), !.slept = 0]
          PROVE  /\ cap'.backoff = Capped(twice) /\ cap'.slept = 0
                 /\ cap'.fails = cap.fails /\ cap'.pc = cap.pc
      <4>1. Capped(twice) \in Int
        BY <1>5 DEF Fine
      <4> QED
        BY <3>2, <4>1, PausedThread DEF VideoInv
    <3> QED
      BY <1>3, <1>5, <2>8, <3>1, <3>2, ReopenSplit
  <2>9. CASE cap' = cap
    BY <1>3, <2>9
  <2> QED
    BY <2>1, <2>2, <2>3, <2>4, <2>5, <2>6, <2>7, <2>8, <2>9
       DEF SlotsNext, Capture, Main, Deadline, Display, OnSignal, DropOut, ComeBack, slotsVars,
           TestSlot, Block, Draw, NotifyDisplay, NextFrame, StopCapture, JoinCapture,
           StopDisplay, JoinDisplay, TestDisplay, NoKey, QuitKey, WakeMain
<1> QED
  BY <1>1, <1>6 DEF BackoffInv, BackoffOK, Fine, tidy, min, max

LEMMA CameraKept ==
  ASSUME CameraInv, [SlotsNext]_slotsVars PROVE CameraInv'
<1>1. CASE Capture
  <2>1. CASE Reopen
    BY <2>1, ReopenSplit DEF CameraInv
  <2>2. CASE ~Reopen
    BY <1>1, <2>2 DEF CameraInv, Capture, CaptureStops, ReadFrame, ReadFails,
       PushToRecorder, Publish, NotifyMain, Doze
  <2> QED
    BY <2>1, <2>2
<1>2. CASE Main \/ Deadline
  BY <1>2 DEF CameraInv, Main, Deadline, TestSlot, Block, Draw, NotifyDisplay, NextFrame,
     StopCapture, JoinCapture, StopDisplay, JoinDisplay
<1>3. CASE Display \/ OnSignal \/ ComeBack \/ UNCHANGED slotsVars
  BY <1>3 DEF CameraInv, Display, TestDisplay, NoKey, QuitKey, WakeMain, OnSignal,
     ComeBack, slotsVars
<1>4. CASE DropOut
  BY <1>4, VideoAssumption DEF CameraInv, DropOut
<1> QED
  BY <1>1, <1>2, <1>3, <1>4 DEF SlotsNext

(***************************************************************************)
(* Type correctness, the back-off included, for every configuration, the   *)
(* ones with bounds in the wrong order or below zero and a doubling beyond *)
(* an int among them: a pause is the lower bound or at most the upper one, *)
(* and not shorter than the lower one when they are in order and twice the *)
(* upper one is an int.  The count of failures stops at its threshold.     *)
(***************************************************************************)
THEOREM VideoIsTyped == SlotsSpec => []VideoTypeOK
<1>1. SlotsInit => BackoffInv /\ CameraInv
  BY BackoffInit
<1>2. VideoInv /\ BackoffInv /\ CameraInv /\ [SlotsNext]_slotsVars => BackoffInv' /\ CameraInv'
  BY BackoffKept, CameraKept
<1>3. VideoInv /\ BackoffInv /\ CameraInv => VideoTypeOK
  <2> SUFFICES ASSUME VideoInv, BackoffInv, CameraInv PROVE VideoTypeOK
    OBVIOUS
  <2>1. cap = [pc |-> cap.pc, local |-> cap.local, fails |-> cap.fails,
               backoff |-> cap.backoff, slept |-> cap.slept]
        /\ cap.pc \in Capturing /\ cap.local \in Images
        /\ cap.backoff \in Int /\ cap.slept \in Int
    BY DEF VideoInv, ThreadsTypeOK, CaptureThread
  <2>2. cap \in [pc : Capturing, local : Images, fails : 0 .. FailThreshold,
                 backoff : Int, slept : Nat]
    BY <2>1 DEF BackoffInv
  <2> QED
    BY <2>2 DEF VideoTypeOK, VideoInv, ThreadsTypeOK, HasNumbers, Numbers, BackoffInv,
       CameraInv, Capturing, Processing, Showing
<1> QED
  BY <1>1, <1>2, <1>3, VideoInvariant, PTL DEF SlotsSpec
=============================================================================
