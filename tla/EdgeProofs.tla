----------------------------- MODULE EdgeProofs -----------------------------
(***************************************************************************)
(* What the Edge Core gets is in order and at most once, and what it does  *)
(* not get is counted; and what the tables of the resident database hold   *)
(* is in the order it was queued, and without a failed statement nothing   *)
(* of it is lost: for every size of the queue and any number of outcomes,  *)
(* heartbeats and failures.  Both arguments follow one sequence of all     *)
(* that is still somewhere: the messages received, being written, in the   *)
(* flush, queued; the jobs committed, in the open transaction, in the      *)
(* batch, queued.  A step appends to it, moves from one part to the next,  *)
(* or takes out, so it keeps ascending; the parts are compared pairwise.   *)
(***************************************************************************)
EXTENDS OutcomeSinks, SequenceTheorems, FiniteSetTheorems,
        WellFoundedInduction, TLAPS

\* Every message of s was made before every message of t.
Before(s, t) ==
  \A i \in 1 .. Len(s), j \in 1 .. Len(t) : s[i].n < t[j].n

Below(s, m) == \A i \in 1 .. Len(s) : s[i].n <= m

-----------------------------------------------------------------------------
(* Sequences of numbered things.                                            *)

\* Nothing is out of order in an empty sequence.
LEMMA EmptyOrderIn ==
  ASSUME NEW M, NEW s \in Seq(M), NEW m
  PROVE  /\ Ascending(<<>>) /\ Below(<<>>, m)
         /\ Before(<<>>, s) /\ Before(s, <<>>)
BY DEF Ascending, Before, Below

\* One message more, the newest.
LEMMA NewestOrderIn ==
  ASSUME NEW M, \A e \in M : e.n \in Nat, NEW x \in M
  PROVE  /\ <<x>> \in Seq(M) /\ Len(<<x>>) = 1 /\ Ascending(<<x>>)
         /\ \A m \in Nat : x.n <= m => Below(<<x>>, m)
         /\ \A s \in Seq(M), m \in Nat :
              Below(s, m) /\ x.n = m + 1 => Before(s, <<x>>) /\ Below(s, x.n)
<1>1. /\ <<x>> \in Seq(M) /\ Len(<<x>>) = 1
      /\ \A i \in 1 .. Len(<<x>>) : <<x>>[i] = x
  OBVIOUS
<1>2. Ascending(<<x>>)
  BY DEF Ascending
<1>3. \A m \in Nat : x.n <= m => Below(<<x>>, m)
  BY DEF Below
<1>4. ASSUME NEW s \in Seq(M), NEW m \in Nat, Below(s, m), x.n = m + 1
      PROVE  Before(s, <<x>>) /\ Below(s, x.n)
  <2>1. \A i \in 1 .. Len(s) : s[i] \in M
    OBVIOUS
  <2>2. \A e \in M : e.n \in Nat
    OBVIOUS
  <2>3. \A i \in 1 .. Len(s) : s[i].n <= m /\ s[i].n \in Nat
    BY <2>2, <1>4 DEF Below
  <2>4. \A i \in 1 .. Len(s) : s[i].n < x.n
    BY <2>3, <1>4
  <2>5. Below(s, x.n)
    BY <2>1, <2>4 DEF Below
  <2> DEFINE o == <<x>>
  <2>6. Len(o) = 1 /\ \A j \in 1 .. Len(o) : o[j] = x
    OBVIOUS
  <2> HIDE DEF o
  <2>7. Before(s, o)
    BY <2>4, <2>6 DEF Before
  <2> QED
    BY <2>5, <2>7 DEF o
<1> QED
  BY <1>2, <1>3, <1>4

\* The order of a concatenation is the order of its parts, and between them.
LEMMA ConcatOrderIn ==
  ASSUME NEW M, NEW s \in Seq(M), NEW t \in Seq(M), NEW u \in Seq(M),
         NEW m \in Nat
  PROVE  /\ s \o t \in Seq(M) /\ Len(s \o t) = Len(s) + Len(t)
         /\ Ascending(s \o t) <=> Ascending(s) /\ Ascending(t) /\ Before(s, t)
         /\ Before(u, s \o t) <=> Before(u, s) /\ Before(u, t)
         /\ Before(s \o t, u) <=> Before(s, u) /\ Before(t, u)
         /\ Below(s \o t, m) <=> Below(s, m) /\ Below(t, m)
<1> DEFINE c == s \o t
<1>1. /\ c \in Seq(M) /\ Len(c) = Len(s) + Len(t)
      /\ Len(s) \in Nat /\ Len(t) \in Nat
  OBVIOUS
<1>2. /\ \A i \in 1 .. Len(s) : i \in 1 .. Len(c) /\ c[i] = s[i]
      /\ \A i \in 1 .. Len(t) : i + Len(s) \in 1 .. Len(c) /\ c[i + Len(s)] = t[i]
  OBVIOUS
<1>3. \A i \in 1 .. Len(c) :
        \/ i \in 1 .. Len(s)
        \/ i - Len(s) \in 1 .. Len(t) /\ c[i] = t[i - Len(s)]
  OBVIOUS
<1> HIDE DEF c
<1>4. Ascending(c) => Ascending(s) /\ Ascending(t) /\ Before(s, t)
  <2> SUFFICES ASSUME Ascending(c)
               PROVE  Ascending(s) /\ Ascending(t) /\ Before(s, t)
    OBVIOUS
  <2>1. Ascending(s)
    BY <1>2 DEF Ascending
  <2>2. \A i, j \in 1 .. Len(t) : i < j => i + Len(s) < j + Len(s)
    OBVIOUS
  <2>3. Ascending(t)
    BY <1>2, <2>2 DEF Ascending
  <2>4. \A i \in 1 .. Len(s), j \in 1 .. Len(t) : i < j + Len(s)
    OBVIOUS
  <2>5. Before(s, t)
    BY <1>2, <2>4 DEF Ascending, Before
  <2> QED
    BY <2>1, <2>3, <2>5
<1>5. ASSUME Ascending(s), Ascending(t), Before(s, t)
      PROVE  Ascending(c)
  <2> SUFFICES ASSUME NEW i \in 1 .. Len(c), NEW j \in 1 .. Len(c), i < j
               PROVE  c[i].n < c[j].n
    BY DEF Ascending
  <2>1. CASE j \in 1 .. Len(s)
    <3>1. i \in 1 .. Len(s)
      BY <2>1
    <3>2. c[i] = s[i] /\ c[j] = s[j]
      BY <2>1, <1>2
    <3> QED
      BY <3>2, <2>1, <1>5 DEF Ascending
  <2>2. CASE i \in 1 .. Len(s) /\ j \notin 1 .. Len(s)
    BY <2>2, <1>2, <1>3, <1>5 DEF Before
  <2>3. CASE i \notin 1 .. Len(s) /\ j \notin 1 .. Len(s)
    <3>1. /\ i - Len(s) \in 1 .. Len(t) /\ c[i] = t[i - Len(s)]
          /\ j - Len(s) \in 1 .. Len(t) /\ c[j] = t[j - Len(s)]
      BY <2>3, <1>3
    <3>2. i - Len(s) < j - Len(s)
      OBVIOUS
    <3> QED
      BY <3>1, <3>2, <1>5 DEF Ascending
  <2> QED
    BY <2>1, <2>2, <2>3
<1>6. Before(u, c) <=> Before(u, s) /\ Before(u, t)
  BY <1>2, <1>3 DEF Before
<1>7. Before(c, u) <=> Before(s, u) /\ Before(t, u)
  BY <1>2, <1>3 DEF Before
<1>8. Below(c, m) <=> Below(s, m) /\ Below(t, m)
  BY <1>2, <1>3 DEF Below
<1> QED
  BY <1>4, <1>5, <1>6, <1>7, <1>8 DEF c

\* The same of the messages of the client and of the jobs of the writer.
LEMMA EmptyOrder ==
  ASSUME NEW s \in Seq(Message), NEW m
  PROVE  /\ Ascending(<<>>) /\ Below(<<>>, m)
         /\ Before(<<>>, s) /\ Before(s, <<>>)
BY EmptyOrderIn DEF Message

LEMMA NewestOrder ==
  ASSUME NEW x \in Message
  PROVE  /\ <<x>> \in Seq(Message) /\ Len(<<x>>) = 1 /\ Ascending(<<x>>)
         /\ \A m \in Nat : x.n <= m => Below(<<x>>, m)
         /\ \A s \in Seq(Message), m \in Nat :
              Below(s, m) /\ x.n = m + 1 => Before(s, <<x>>) /\ Below(s, x.n)
<1>1. \A e \in Message : e.n \in Nat
  BY DEF Message
<1> QED BY <1>1, NewestOrderIn

LEMMA ConcatOrder ==
  ASSUME NEW s \in Seq(Message), NEW t \in Seq(Message), NEW u \in Seq(Message),
         NEW m \in Nat
  PROVE  /\ s \o t \in Seq(Message) /\ Len(s \o t) = Len(s) + Len(t)
         /\ Ascending(s \o t) <=> Ascending(s) /\ Ascending(t) /\ Before(s, t)
         /\ Before(u, s \o t) <=> Before(u, s) /\ Before(u, t)
         /\ Before(s \o t, u) <=> Before(s, u) /\ Before(t, u)
         /\ Below(s \o t, m) <=> Below(s, m) /\ Below(t, m)
BY ConcatOrderIn DEF Message

LEMMA JobEmptyOrder ==
  ASSUME NEW s \in Seq(Job), NEW m
  PROVE  /\ Ascending(<<>>) /\ Below(<<>>, m)
         /\ Before(<<>>, s) /\ Before(s, <<>>)
BY EmptyOrderIn DEF Job

LEMMA JobNewestOrder ==
  ASSUME NEW x \in Job
  PROVE  /\ <<x>> \in Seq(Job) /\ Len(<<x>>) = 1 /\ Ascending(<<x>>)
         /\ \A m \in Nat : x.n <= m => Below(<<x>>, m)
         /\ \A s \in Seq(Job), m \in Nat :
              Below(s, m) /\ x.n = m + 1 => Before(s, <<x>>) /\ Below(s, x.n)
<1>1. \A e \in Job : e.n \in Nat
  BY DEF Job
<1> QED BY <1>1, NewestOrderIn

LEMMA JobConcatOrder ==
  ASSUME NEW s \in Seq(Job), NEW t \in Seq(Job), NEW u \in Seq(Job),
         NEW m \in Nat
  PROVE  /\ s \o t \in Seq(Job) /\ Len(s \o t) = Len(s) + Len(t)
         /\ Ascending(s \o t) <=> Ascending(s) /\ Ascending(t) /\ Before(s, t)
         /\ Before(u, s \o t) <=> Before(u, s) /\ Before(u, t)
         /\ Before(s \o t, u) <=> Before(s, u) /\ Before(t, u)
         /\ Below(s \o t, m) <=> Below(s, m) /\ Below(t, m)
BY ConcatOrderIn DEF Job

\* A sequence that is not empty is its head and its tail.
LEMMA HeadAndTail ==
  ASSUME NEW s \in Seq(Message), s # <<>>
  PROVE  /\ Head(s) \in Message /\ Tail(s) \in Seq(Message)
         /\ Len(Tail(s)) = Len(s) - 1
         /\ <<Head(s)>> \in Seq(Message)
         /\ s = <<Head(s)>> \o Tail(s)
<1>1. /\ Head(s) \in Message /\ Tail(s) \in Seq(Message) /\ Head(s) = s[1]
      /\ Len(Tail(s)) = Len(s) - 1 /\ Len(s) \in Nat \ {0}
      /\ \A i \in 1 .. Len(Tail(s)) : Tail(s)[i] = s[i + 1]
  OBVIOUS
<1>2. <<Head(s)>> \in Seq(Message)
  OBVIOUS
<1>3. s = <<Head(s)>> \o Tail(s)
  OBVIOUS
<1> QED
  OBVIOUS

-----------------------------------------------------------------------------
(* The messages of the client.                                              *)

\* The parts of the line, in pairs.
OrderInv ==
  /\ Ascending(arrived) /\ Ascending(job) /\ Ascending(rest) /\ Ascending(q)
  /\ Before(arrived, job) /\ Before(arrived, rest) /\ Before(arrived, q)
  /\ Before(job, rest) /\ Before(job, q) /\ Before(rest, q)
  /\ Below(arrived, made) /\ Below(job, made)
  /\ Below(rest, made) /\ Below(q, made)

CountInv ==
  /\ sent = Len(arrived)
  /\ ~edgeStop /\ main # "dead" =>
       Len(arrived) + Len(job) + Len(rest) + Len(q) + dropped = made
  /\ sender \in {"flush", "flushing", "exited"} => edgeStop \/ main = "dead"

EdgeInv == EdgeTypeOK /\ OrderInv /\ CountInv

LEMMA EdgeInvIsFifo == EdgeInv => EdgeCountedFifo
<1> SUFFICES ASSUME EdgeInv PROVE EdgeCountedFifo
  OBVIOUS
<1>1. /\ arrived \in Seq(Message) /\ job \in Seq(Message)
      /\ rest \in Seq(Message) /\ q \in Seq(Message) /\ made \in Nat
  BY DEF EdgeInv, EdgeTypeOK
<1> DEFINE a == arrived \o job
           b == a \o rest
<1>2. /\ a \in Seq(Message) /\ Ascending(a) /\ Before(a, rest) /\ Before(a, q)
      /\ Len(a) = Len(arrived) + Len(job)
  BY <1>1, ConcatOrder DEF EdgeInv, OrderInv
<1> HIDE DEF a
<1>3. /\ b \in Seq(Message) /\ Ascending(b) /\ Before(b, q)
      /\ Len(b) = Len(a) + Len(rest)
  BY <1>1, <1>2, ConcatOrder DEF EdgeInv, OrderInv
<1> HIDE DEF b
<1>4. Ascending(b \o q) /\ Len(b \o q) = Len(b) + Len(q)
  BY <1>1, <1>3, ConcatOrder DEF EdgeInv, OrderInv
<1>5. Line = b \o q
  BY DEF Line, a, b
<1> QED
  BY <1>2, <1>3, <1>4, <1>5 DEF EdgeCountedFifo, EdgeInv, CountInv

LEMMA EdgeInitInv == Init => EdgeInv
<1> SUFFICES ASSUME Init PROVE EdgeInv
  OBVIOUS
<1>1. <<>> \in Seq(Message) /\ Len(<<>>) = 0
  OBVIOUS
<1>2. MinBackoff \in MinBackoff .. MaxBackoff /\ 0 \in 0 .. MaxPings
  BY EdgeAssumption
<1>3. EdgeTypeOK
  <2>1. /\ q \in Seq(Message) /\ Len(q) <= MaxQueue
        /\ job \in Seq(Message) /\ Len(job) = 0
        /\ rest \in Seq(Message) /\ rest = <<>> /\ arrived \in Seq(Message)
    BY EdgeAssumption DEF Init, EdgeInit
  <2>2. /\ edgeStop = FALSE /\ fd = "none" /\ sender = "top"
        /\ backoff \in MinBackoff .. MaxBackoff
        /\ sent \in Nat /\ dropped \in Nat /\ made \in Nat /\ pings \in 0 .. MaxPings
    BY <1>2 DEF Init, EdgeInit
  <2> QED
    BY <2>1, <2>2 DEF EdgeTypeOK
<1>4. OrderInv
  BY <1>1, EmptyOrder DEF Init, EdgeInit, OrderInv
<1>5. CountInv
  BY DEF Init, EdgeInit, CountInv
<1> QED
  BY <1>3, <1>4, <1>5 DEF EdgeInv

\* Taking the oldest message out of a full queue.
LEMMA RoomyOrder ==
  ASSUME EdgeInv
  PROVE  /\ Roomy \in Seq(Message) /\ Len(Roomy) \in 0 .. MaxQueue - 1
         /\ DroppedNow \in Nat /\ Len(Roomy) + DroppedNow = Len(q) + dropped
         /\ Ascending(Roomy) /\ Below(Roomy, made)
         /\ Before(arrived, Roomy) /\ Before(job, Roomy) /\ Before(rest, Roomy)
<1>1. /\ arrived \in Seq(Message) /\ job \in Seq(Message) /\ rest \in Seq(Message)
      /\ q \in Seq(Message) /\ made \in Nat /\ dropped \in Nat
      /\ Len(q) \in 0 .. MaxQueue /\ MaxQueue \in Nat \ {0}
  BY EdgeAssumption DEF EdgeInv, EdgeTypeOK
<1>2. CASE Len(q) < MaxQueue
  <2>1. Roomy = q /\ DroppedNow = dropped
    BY <1>1, <1>2 DEF Roomy, DroppedNow
  <2>2. Len(q) \in 0 .. MaxQueue - 1
    BY <1>1, <1>2
  <2> QED
    BY <1>1, <2>1, <2>2 DEF EdgeInv, OrderInv
<1>3. CASE Len(q) >= MaxQueue
  <2>1. q # <<>>
    BY <1>1, <1>3
  <2> DEFINE h == <<Head(q)>>
             t == Tail(q)
  <2>2. /\ t \in Seq(Message) /\ h \in Seq(Message)
        /\ Len(t) = Len(q) - 1 /\ q = h \o t
    BY <1>1, <2>1
  <2>3. Roomy = t /\ DroppedNow = dropped + 1
    BY <1>3 DEF Roomy, DroppedNow
  <2> HIDE DEF h, t
  <2>4. /\ Ascending(h \o t) /\ Below(h \o t, made)
        /\ Before(arrived, h \o t) /\ Before(job, h \o t) /\ Before(rest, h \o t)
    BY <2>2 DEF EdgeInv, OrderInv
  <2>5. /\ Ascending(t) /\ Below(t, made)
        /\ Before(arrived, t) /\ Before(job, t) /\ Before(rest, t)
    BY <1>1, <2>2, <2>4, ConcatOrder
  <2>6. Len(t) \in 0 .. MaxQueue - 1
    BY <1>1, <2>2
  <2>7. DroppedNow \in Nat /\ Len(t) + DroppedNow = Len(q) + dropped
    BY <1>1, <2>2, <2>3
  <2> QED
    BY <2>2, <2>3, <2>5, <2>6, <2>7
<1> QED
  BY <1>1, <1>2, <1>3

LEMMA EnqueueKeepsInv ==
  ASSUME EdgeInv, NEW type \in {"recog", "unknown"}, Enqueue(type),
         main = "dead" => main' = "dead"
  PROVE  EdgeInv'
<1> DEFINE new == NewMessage(type)
           last == <<new>>
<1>1. /\ arrived \in Seq(Message) /\ job \in Seq(Message) /\ rest \in Seq(Message)
      /\ made \in Nat /\ MaxQueue \in Nat
  BY EdgeAssumption DEF EdgeInv, EdgeTypeOK
<1>2. new \in Message /\ new.n = made + 1
  BY <1>1 DEF NewMessage, Message
<1> HIDE DEF new
<1>3. q' = Roomy \o last
  BY DEF Enqueue, new
<1>4. /\ last \in Seq(Message) /\ Len(last) = 1 /\ Ascending(last)
      /\ Below(last, made + 1)
      /\ Before(arrived, last) /\ Before(job, last)
      /\ Before(rest, last) /\ Before(Roomy, last)
      /\ Below(arrived, made + 1) /\ Below(job, made + 1)
      /\ Below(rest, made + 1) /\ Below(Roomy, made + 1)
  <2>1. /\ Roomy \in Seq(Message) /\ Below(Roomy, made)
        /\ Below(arrived, made) /\ Below(job, made) /\ Below(rest, made)
    BY RoomyOrder DEF EdgeInv, OrderInv
  <2>2. /\ last \in Seq(Message) /\ Len(last) = 1 /\ Ascending(last)
        /\ Below(last, made + 1)
    BY <1>1, <1>2, NewestOrder
  <2>3. \A s \in Seq(Message) :
          Below(s, made) => Before(s, last) /\ Below(s, made + 1)
    BY <1>1, <1>2, NewestOrder
  <2> HIDE DEF last
  <2> QED
    BY <1>1, <2>1, <2>2, <2>3
<1> HIDE DEF last
<1>5. /\ q' \in Seq(Message) /\ Len(q') = Len(Roomy) + 1 /\ Ascending(q')
      /\ Below(q', made + 1)
      /\ Before(arrived, q') /\ Before(job, q') /\ Before(rest, q')
  <2>1. Roomy \in Seq(Message) /\ Ascending(Roomy) /\ made + 1 \in Nat
    BY <1>1, RoomyOrder
  <2>2. /\ q' \in Seq(Message) /\ Len(q') = Len(Roomy) + 1
        /\ Ascending(q') /\ Below(q', made + 1)
    BY <2>1, <1>3, <1>4, ConcatOrder
  <2>3. Before(arrived, q') /\ Before(job, q') /\ Before(rest, q')
    BY <1>1, <1>3, <1>4, RoomyOrder, ConcatOrder
  <2> QED
    BY <2>2, <2>3
<1>6. EdgeTypeOK'
  BY <1>1, <1>5, RoomyOrder DEF Enqueue, EdgeInv, EdgeTypeOK
<1>7. OrderInv'
  BY <1>4, <1>5 DEF Enqueue, EdgeInv, OrderInv
<1>8. CountInv'
  <2>1. /\ Len(q') + dropped' = Len(q) + dropped + 1 /\ made' = made + 1
        /\ dropped' \in Nat /\ Len(q') \in Nat /\ Len(q) \in Nat
        /\ dropped \in Nat
    <3>1. /\ Len(q') \in Nat /\ Len(q) \in Nat /\ dropped \in Nat
      BY DEF EdgeInv, EdgeTypeOK
    <3>2. /\ dropped' = DroppedNow /\ DroppedNow \in Nat /\ Len(Roomy) \in Nat
          /\ Len(Roomy) + DroppedNow = Len(q) + dropped
          /\ Len(q') = Len(Roomy) + 1
      BY RoomyOrder DEF Enqueue
    <3>3. made' = made + 1
      BY DEF Enqueue
    <3>4. Len(Roomy) + 1 + DroppedNow = Len(q) + dropped + 1
      BY <3>1, <3>2
    <3> QED
      BY <3>1, <3>2, <3>3, <3>4
  <2>2. /\ UNCHANGED <<edgeStop, sender, job, rest, sent, arrived>>
        /\ main' # "dead" => main # "dead"
    BY DEF Enqueue
  <2>3. ASSUME ~edgeStop', main' # "dead"
        PROVE  Len(arrived') + Len(job') + Len(rest') + Len(q') + dropped' = made'
    <3> DEFINE others == Len(arrived) + Len(job) + Len(rest)
    <3>1. others \in Nat /\ others + Len(q) + dropped = made
      BY <2>2, <2>3 DEF EdgeInv, CountInv
    <3> HIDE DEF others
    <3>2. others + Len(q') + dropped' = made'
      BY <2>1, <3>1
    <3> QED
      BY <2>2, <3>2 DEF others
  <2> QED
    BY <2>2, <2>3 DEF EdgeInv, CountInv
<1> QED
  BY <1>6, <1>7, <1>8 DEF EdgeInv

-----------------------------------------------------------------------------
(* The worker.                                                              *)

\* The steps that move no message.
Quiet ==
  /\ UNCHANGED <<q, job, rest, sent, dropped, made, pings, arrived>>
  /\ edgeStop' = edgeStop /\ fd' \in {"none", "open"}
  /\ backoff' \in MinBackoff .. MaxBackoff
  /\ sender = "write" <=> sender' = "write"
  /\ sender' # sender => rest = <<>>
  /\ \/ sender' \in {"top", "connect", "backoff", "wait", "write"}
     \/ sender' = sender
     \/ /\ sender' \in {"flush", "exited"}
        /\ edgeStop \/ main = "dead"

\* What EdgeInv says of the variables a quiet step may change.
ControlFacts ==
  /\ edgeStop \in BOOLEAN /\ fd \in {"none", "open"}
  /\ sender \in {"top", "connect", "backoff", "wait", "write", "flush",
                 "flushing", "exited"}
  /\ backoff \in MinBackoff .. MaxBackoff
  /\ sender # "flushing" => rest = <<>>
  /\ sender \in {"flush", "flushing", "exited"} => edgeStop \/ main = "dead"

LEMMA EdgeControl == EdgeInv => ControlFacts
BY DEF EdgeInv, EdgeTypeOK, CountInv, ControlFacts

LEMMA QuietKeepsInv ==
  ASSUME EdgeInv, Quiet, main = "dead" => main' = "dead"
  PROVE  EdgeInv'
<1>1. EdgeTypeOK'
  BY DEF EdgeInv, EdgeTypeOK, Quiet
<1>2. OrderInv'
  BY DEF EdgeInv, OrderInv, Quiet
<1>3. CountInv'
  <2>1. sent' = Len(arrived')
    BY DEF EdgeInv, CountInv, Quiet
  <2>2. ControlFacts /\ edgeStop' = edgeStop
    BY EdgeControl DEF Quiet
  <2>3. ~edgeStop' /\ main' # "dead" => ~edgeStop /\ main # "dead"
    BY <2>2
  <2>4. ~edgeStop' /\ main' # "dead" =>
          Len(arrived') + Len(job') + Len(rest') + Len(q') + dropped' = made'
    BY DEF EdgeInv, CountInv, Quiet
  <2>5. sender' \in {"flush", "flushing", "exited"} => edgeStop' \/ main' = "dead"
    BY <2>2 DEF ControlFacts, Quiet
  <2> QED
    BY <2>1, <2>4, <2>5 DEF CountInv
<1> QED
  BY <1>1, <1>2, <1>3 DEF EdgeInv

LEMMA DoubledInRange ==
  ASSUME backoff \in MinBackoff .. MaxBackoff
  PROVE  Doubled \in MinBackoff .. MaxBackoff
BY EdgeAssumption DEF Doubled

LEMMA TakeJobKeepsInv ==
  ASSUME EdgeInv, TakeJob, main = "dead" => main' = "dead"
  PROVE  EdgeInv'
<1> DEFINE h == <<Head(q)>>
           t == Tail(q)
<1>1. /\ arrived \in Seq(Message) /\ rest \in Seq(Message) /\ q \in Seq(Message)
      /\ job \in Seq(Message) /\ Len(job) = 0 /\ made \in Nat /\ dropped \in Nat
      /\ Len(arrived) \in Nat /\ Len(rest) \in Nat /\ Len(q) \in Nat
      /\ Len(q) <= MaxQueue /\ MaxQueue \in Nat
  BY EdgeAssumption DEF TakeJob, EdgeInv, EdgeTypeOK
<1>2. /\ t \in Seq(Message) /\ h \in Seq(Message) /\ Len(h) = 1
      /\ Len(t) = Len(q) - 1 /\ q = h \o t
  BY <1>1 DEF TakeJob
<1>3. rest = <<>>
  BY DEF TakeJob, EdgeInv, EdgeTypeOK
<1>4. job' = h /\ q' = t
  BY DEF TakeJob
<1> HIDE DEF h, t
<1>5. /\ Ascending(h \o t) /\ Below(h \o t, made)
      /\ Before(arrived, h \o t)
  BY <1>2 DEF EdgeInv, OrderInv
<1>6. /\ Ascending(h) /\ Ascending(t) /\ Before(h, t)
      /\ Below(h, made) /\ Below(t, made)
      /\ Before(arrived, h) /\ Before(arrived, t)
  BY <1>1, <1>2, <1>5, ConcatOrder
<1>7. Before(h, rest) /\ Before(rest, t)
  BY <1>2, <1>3, EmptyOrder
<1>8. OrderInv'
  BY <1>4, <1>6, <1>7 DEF TakeJob, EdgeInv, OrderInv
<1>9. EdgeTypeOK'
  BY <1>1 DEF TakeJob, EdgeInv, EdgeTypeOK
<1>10. CountInv'
  <2>1. Len(job') + Len(q') = Len(job) + Len(q)
    BY <1>1, <1>2, <1>4
  <2>2. Len(job') \in Nat /\ Len(q') \in Nat
    OBVIOUS
  <2> QED
    <3>1. ~edgeStop' /\ main' # "dead" => ~edgeStop /\ main # "dead"
      BY DEF TakeJob
    <3>2. ~edgeStop /\ main # "dead" =>
            Len(arrived) + Len(job) + Len(rest) + Len(q) + dropped = made
      BY DEF EdgeInv, CountInv
    <3>3. /\ arrived' = arrived /\ rest' = rest /\ dropped' = dropped
          /\ made' = made /\ sent' = sent /\ sender' = "write"
      BY DEF TakeJob
    <3>4. ~edgeStop' /\ main' # "dead" =>
            Len(arrived') + Len(job') + Len(rest') + Len(q') + dropped' = made'
      BY <2>1, <3>1, <3>2, <3>3
    <3> QED
      BY <3>3, <3>4 DEF EdgeInv, CountInv
<1> QED
  BY <1>8, <1>9, <1>10 DEF EdgeInv

LEMMA HeartbeatKeepsInv ==
  ASSUME EdgeInv, Heartbeat, main = "dead" => main' = "dead"
  PROVE  EdgeInv'
<1> DEFINE ping == NewMessage("ping")
           last == <<ping>>
<1>1. /\ arrived \in Seq(Message) /\ rest \in Seq(Message) /\ q \in Seq(Message)
      /\ job \in Seq(Message) /\ Len(job) = 0 /\ made \in Nat /\ dropped \in Nat
      /\ Len(arrived) \in Nat /\ Len(rest) \in Nat /\ Len(q) \in Nat
      /\ pings \in Nat /\ MaxPings \in Nat
  BY EdgeAssumption DEF Heartbeat, EdgeInv, EdgeTypeOK
<1>2. ping \in Message /\ ping.n = made + 1
  BY <1>1 DEF NewMessage, Message
<1>3. rest = <<>> /\ q = <<>>
  BY DEF Heartbeat, EdgeInv, EdgeTypeOK
<1>4. job' = last /\ q' = q /\ made' = made + 1
  BY DEF Heartbeat
<1> HIDE DEF ping
<1>5. /\ last \in Seq(Message) /\ Len(last) = 1 /\ Ascending(last)
      /\ Below(last, made + 1) /\ Before(arrived, last)
      /\ Below(arrived, made + 1) /\ Below(rest, made + 1) /\ Below(q, made + 1)
  BY <1>1, <1>2, NewestOrder DEF EdgeInv, OrderInv
<1> HIDE DEF last
<1>6. Before(last, rest) /\ Before(last, q)
  BY <1>3, <1>5, EmptyOrder
<1>7. OrderInv'
  BY <1>4, <1>5, <1>6 DEF Heartbeat, EdgeInv, OrderInv
<1>8. EdgeTypeOK'
  <2>1. pings' \in 0 .. MaxPings /\ made' \in Nat
    BY <1>1 DEF Heartbeat
  <2> QED
    BY <1>4, <1>5, <2>1 DEF Heartbeat, EdgeInv, EdgeTypeOK
<1>9. CountInv'
  BY <1>1, <1>4 DEF Heartbeat, EdgeInv, CountInv
<1> QED
  BY <1>7, <1>8, <1>9 DEF EdgeInv

LEMMA WrittenKeepsInv ==
  ASSUME EdgeInv, Written, main = "dead" => main' = "dead"
  PROVE  EdgeInv'
<1>1. /\ arrived \in Seq(Message) /\ rest \in Seq(Message) /\ q \in Seq(Message)
      /\ job \in Seq(Message) /\ Len(job) = 1 /\ made \in Nat /\ dropped \in Nat
      /\ Len(arrived) \in Nat /\ Len(rest) \in Nat /\ Len(q) \in Nat
  BY DEF Written, EdgeInv, EdgeTypeOK
<1>2. <<>> \in Seq(Message) /\ Len(<<>>) = 0 /\ job' = <<>>
  BY DEF Written
<1>3. /\ arrived' \in Seq(Message) /\ Len(arrived') = Len(arrived) + 1
      /\ Ascending(arrived') /\ Below(arrived', made)
      /\ Before(arrived', rest) /\ Before(arrived', q)
  BY <1>1, ConcatOrder DEF Written, EdgeInv, OrderInv
<1>4. /\ Ascending(job') /\ Below(job', made) /\ Before(arrived', job')
      /\ Before(job', rest) /\ Before(job', q)
  BY <1>1, <1>2, <1>3, EmptyOrder
<1>5. OrderInv'
  BY <1>3, <1>4 DEF Written, EdgeInv, OrderInv
<1>6. EdgeTypeOK'
  <2>1. rest = <<>> /\ sent' \in Nat
    BY DEF Written, EdgeInv, EdgeTypeOK
  <2> QED
    BY DEF Written, EdgeInv, EdgeTypeOK
<1>7. CountInv'
  BY <1>3 DEF Written, EdgeInv, CountInv
<1> QED
  BY <1>5, <1>6, <1>7 DEF EdgeInv

LEMMA WriteFailsKeepsInv ==
  ASSUME EdgeInv, WriteFails, main = "dead" => main' = "dead"
  PROVE  EdgeInv'
<1>1. /\ arrived \in Seq(Message) /\ rest \in Seq(Message) /\ q \in Seq(Message)
      /\ job \in Seq(Message) /\ Len(job) = 1 /\ made \in Nat /\ dropped \in Nat
      /\ Len(arrived) \in Nat /\ Len(rest) \in Nat /\ Len(q) \in Nat
      /\ rest = <<>> /\ MaxQueue \in Nat
  BY EdgeAssumption DEF WriteFails, EdgeInv, EdgeTypeOK
<1>2. <<>> \in Seq(Message) /\ Len(<<>>) = 0 /\ job' = <<>>
  BY DEF WriteFails
<1>3. q' \in Seq(Message) /\ Len(q') <= MaxQueue /\ dropped' \in Nat
      /\ (edgeStop \/ Len(q') + dropped' = Len(q) + dropped + 1)
      /\ Ascending(q') /\ Below(q', made) /\ Before(arrived, q')
  <2>1. CASE edgeStop
    BY <2>1 DEF WriteFails, EdgeInv, EdgeTypeOK, OrderInv
  <2>2. CASE ~edgeStop
    <3>1. q' = job \o Roomy /\ dropped' = DroppedNow
      BY <2>2 DEF WriteFails
    <3>2. /\ Roomy \in Seq(Message) /\ Ascending(Roomy) /\ Below(Roomy, made)
          /\ Before(job, Roomy) /\ Before(arrived, Roomy)
          /\ Len(Roomy) \in 0 .. MaxQueue - 1
          /\ DroppedNow \in Nat /\ Len(Roomy) + DroppedNow = Len(q) + dropped
      BY RoomyOrder
    <3>3. Ascending(job) /\ Below(job, made) /\ Before(arrived, job)
      BY DEF EdgeInv, OrderInv
    <3>4. /\ job \o Roomy \in Seq(Message)
          /\ Len(job \o Roomy) = Len(job) + Len(Roomy)
          /\ Ascending(job \o Roomy) /\ Below(job \o Roomy, made)
          /\ Before(arrived, job \o Roomy)
      BY <1>1, <3>2, <3>3, ConcatOrder
    <3>5. Len(q') = 1 + Len(Roomy)
      BY <1>1, <3>1, <3>4
    <3>6. Len(q') <= MaxQueue /\ dropped' \in Nat
          /\ Len(q') + dropped' = Len(q) + dropped + 1
      BY <1>1, <3>1, <3>2, <3>5
    <3> QED
      BY <3>1, <3>4, <3>6
  <2> QED
    BY <2>1, <2>2
<1>4. /\ Ascending(job') /\ Below(job', made) /\ Before(arrived, job')
      /\ Before(job', rest) /\ Before(job', q') /\ Before(rest, q')
  BY <1>1, <1>2, <1>3, EmptyOrder
<1>5. OrderInv'
  BY <1>3, <1>4 DEF WriteFails, EdgeInv, OrderInv
<1>6. EdgeTypeOK'
  BY <1>3 DEF WriteFails, EdgeInv, EdgeTypeOK
<1>7. CountInv'
  <2>1. Len(q') \in Nat /\ dropped' \in Nat
    BY <1>3
  <2> QED
    <3>1. ~edgeStop' /\ main' # "dead" => ~edgeStop /\ main # "dead"
      BY DEF WriteFails
    <3>2. ~edgeStop /\ main # "dead" =>
            Len(arrived) + Len(job) + Len(rest) + Len(q) + dropped = made
      BY DEF EdgeInv, CountInv
    <3>3. /\ arrived' = arrived /\ rest' = rest
          /\ made' = made /\ sent' = sent /\ sender' = "top"
      BY DEF WriteFails
    <3>4. ASSUME ~edgeStop', main' # "dead"
          PROVE  Len(arrived') + Len(job') + Len(rest') + Len(q') + dropped' = made'
      <4> DEFINE others == Len(arrived) + Len(rest)
                 kept == Len(job') + Len(q') + dropped'
      <4>1. /\ others \in Nat /\ Len(job) \in Nat /\ Len(q) \in Nat
            /\ dropped \in Nat /\ kept \in Nat
        BY <1>1, <1>3, <2>1
      <4>2. kept = Len(job) + Len(q) + dropped
        BY <1>1, <1>2, <1>3, <2>1, <3>1, <3>4, <4>1
      <4>3. others + Len(job) + Len(q) + dropped = made
        <5>1. Len(arrived) + Len(job) + Len(rest) + Len(q) + dropped = made
          BY <3>1, <3>2, <3>4
        <5>2. \A a, b, c, d, e \in Nat : a + c + b + d + e = a + b + c + d + e
          OBVIOUS
        <5>3. Len(arrived) \in Nat /\ Len(rest) \in Nat
          BY <1>1
        <5> QED
          BY <4>1, <5>1, <5>2, <5>3
      <4>4. Len(arrived') + Len(job') + Len(rest') + Len(q') + dropped'
              = others + kept
        BY <1>1, <1>3, <2>1, <3>3
      <4> HIDE DEF others, kept
      <4>5. others + kept = made
        BY <4>1, <4>2, <4>3
      <4> QED
        BY <3>3, <4>4, <4>5
    <3> QED
      BY <3>3, <3>4 DEF EdgeInv, CountInv
<1> QED
  BY <1>5, <1>6, <1>7 DEF EdgeInv

LEMMA FlushWritesKeepsInv ==
  ASSUME EdgeInv, FlushWrites, main = "dead" => main' = "dead"
  PROVE  EdgeInv'
<1> DEFINE h == <<Head(rest)>>
           t == Tail(rest)
<1>1. /\ arrived \in Seq(Message) /\ rest \in Seq(Message) /\ q \in Seq(Message)
      /\ job \in Seq(Message) /\ made \in Nat
      /\ Len(arrived) \in Nat
  BY DEF EdgeInv, EdgeTypeOK
<1>2. /\ t \in Seq(Message) /\ h \in Seq(Message) /\ Len(h) = 1
      /\ rest = h \o t /\ Head(rest) \in Message
  BY <1>1 DEF FlushWrites
<1>3. arrived' = arrived \o h /\ rest' = t
  BY DEF FlushWrites
<1> HIDE DEF h, t
<1>4. Len(job) = 0
  BY DEF FlushWrites, EdgeInv, EdgeTypeOK
<1>5. job = <<>>
  BY <1>4
<1>6. /\ Ascending(h \o t) /\ Below(h \o t, made)
      /\ Before(arrived, h \o t) /\ Before(h \o t, q)
  BY <1>2 DEF EdgeInv, OrderInv
<1>7. /\ Ascending(h) /\ Ascending(t) /\ Before(h, t)
      /\ Below(h, made) /\ Below(t, made)
      /\ Before(arrived, h) /\ Before(arrived, t) /\ Before(h, q) /\ Before(t, q)
  BY <1>1, <1>2, <1>6, ConcatOrder
<1>8. /\ arrived' \in Seq(Message) /\ Len(arrived') = Len(arrived) + 1
      /\ Ascending(arrived') /\ Below(arrived', made)
  BY <1>1, <1>2, <1>3, ConcatOrder DEF EdgeInv, OrderInv
<1>9. Before(arrived', t) /\ Before(arrived', q)
  BY <1>1, <1>2, <1>3, ConcatOrder DEF EdgeInv, OrderInv
<1>10. Before(arrived', job) /\ Before(job, t)
  BY <1>2, <1>5, <1>8, EmptyOrder
<1>11. OrderInv'
  BY <1>3, <1>7, <1>8, <1>9, <1>10 DEF FlushWrites, EdgeInv, OrderInv
<1>12. EdgeTypeOK'
  <2>1. sent' \in Nat /\ rest' \in Seq(Message) /\ sender' = "flushing"
    BY DEF FlushWrites, EdgeInv, EdgeTypeOK
  <2> QED
    BY DEF FlushWrites, EdgeInv, EdgeTypeOK
<1>13. CountInv'
  BY DEF FlushWrites, EdgeInv, CountInv
<1> QED
  BY <1>11, <1>12, <1>13 DEF EdgeInv

LEMMA FlushBeginsKeepsInv ==
  ASSUME EdgeInv, FlushBegins, main = "dead" => main' = "dead"
  PROVE  EdgeInv'
<1>1. /\ arrived \in Seq(Message) /\ rest \in Seq(Message) /\ q \in Seq(Message)
      /\ job \in Seq(Message) /\ rest = <<>> /\ Len(job) = 0 /\ MaxQueue \in Nat
  BY EdgeAssumption DEF FlushBegins, EdgeInv, EdgeTypeOK
<1>2. <<>> \in Seq(Message) /\ Len(<<>>) = 0 /\ job = <<>>
  BY <1>1
<1>3. CASE fd = "open"
  <2>1. rest' = q /\ q' = <<>> /\ sender' = "flushing"
    BY <1>3 DEF FlushBegins
  <2>2. /\ Ascending(q') /\ Below(q', made) /\ Before(arrived, q')
        /\ Before(job, q') /\ Before(rest', q')
    BY <1>1, <2>1, EmptyOrder
  <2>3. OrderInv'
    BY <2>2 DEF FlushBegins, EdgeInv, OrderInv
  <2>4. EdgeTypeOK'
    BY <1>1, <2>1 DEF FlushBegins, EdgeInv, EdgeTypeOK
  <2>5. CountInv'
    BY DEF FlushBegins, EdgeInv, CountInv
  <2> QED
    BY <2>3, <2>4, <2>5 DEF EdgeInv
<1>4. CASE fd # "open"
  <2>1. Quiet
    BY <1>4 DEF FlushBegins, EdgeInv, EdgeTypeOK, CountInv, Quiet
  <2> QED
    BY <2>1, QuietKeepsInv
<1> QED
  BY <1>3, <1>4

LEMMA FlushEndsKeepsInv ==
  ASSUME EdgeInv, FlushEnds, main = "dead" => main' = "dead"
  PROVE  EdgeInv'
<1>1. /\ arrived \in Seq(Message) /\ q \in Seq(Message) /\ job \in Seq(Message)
      /\ <<>> \in Seq(Message) /\ Len(job) = 0
  BY DEF FlushEnds, EdgeInv, EdgeTypeOK
<1>2. rest' = <<>>
  BY DEF FlushEnds
<1>3. /\ Ascending(rest') /\ Below(rest', made) /\ Before(arrived, rest')
      /\ Before(job, rest') /\ Before(rest', q)
  BY <1>1, <1>2, EmptyOrder
<1>4. OrderInv'
  BY <1>3 DEF FlushEnds, EdgeInv, OrderInv
<1>5. EdgeTypeOK'
  BY DEF FlushEnds, EdgeInv, EdgeTypeOK
<1>6. CountInv'
  BY DEF FlushEnds, EdgeInv, CountInv
<1> QED
  BY <1>4, <1>5, <1>6 DEF EdgeInv

LEMMA SenderKeepsInv ==
  ASSUME EdgeInv, SenderStep, main' = main
  PROVE  EdgeInv'
<1>0. ControlFacts
  BY EdgeControl
<1>1. CASE Top
  <2>1. Quiet
    BY <1>0, <1>1 DEF Top, ControlFacts, Quiet
  <2> QED
    BY <2>1, QuietKeepsInv
<1>2. CASE Connected
  <2>1. Quiet
    BY <1>0, <1>2, EdgeAssumption DEF Connected, ControlFacts, Quiet
  <2> QED
    BY <2>1, QuietKeepsInv
<1>3. CASE ConnectFails
  <2>1. Quiet
    BY <1>0, <1>3 DEF ConnectFails, ControlFacts, Quiet
  <2> QED
    BY <2>1, QuietKeepsInv
<1>4. CASE BackoffEnds
  <2>1. Quiet
    BY <1>0, <1>4, DoubledInRange DEF BackoffEnds, ControlFacts, Quiet
  <2> QED
    BY <2>1, QuietKeepsInv
<1>5. CASE StopSeen
  <2>1. Quiet
    BY <1>0, <1>5 DEF StopSeen, ControlFacts, Quiet
  <2> QED
    BY <2>1, QuietKeepsInv
<1> QED
  BY <1>1, <1>2, <1>3, <1>4, <1>5, TakeJobKeepsInv, HeartbeatKeepsInv,
     WrittenKeepsInv, WriteFailsKeepsInv, FlushBeginsKeepsInv,
     FlushWritesKeepsInv, FlushEndsKeepsInv
     DEF SenderStep

-----------------------------------------------------------------------------
(* The whole program.                                                       *)

LEMMA DiesKeepsInv ==
  ASSUME EdgeInv, Dies
  PROVE  EdgeInv'
<1>1. /\ arrived \in Seq(Message) /\ <<>> \in Seq(Message) /\ Len(<<>>) = 0
      /\ MaxQueue \in Nat
  BY EdgeAssumption DEF EdgeInv, EdgeTypeOK
<1>2. q' = <<>> /\ job' = <<>> /\ rest' = <<>>
  BY DEF Dies
<1>3. OrderInv'
  BY <1>1, EmptyOrder DEF Dies, EdgeInv, OrderInv
<1>4. EdgeTypeOK'
  <2>1. /\ q' \in Seq(Message) /\ Len(q') <= MaxQueue
        /\ job' \in Seq(Message) /\ Len(job') = 0 /\ rest' \in Seq(Message)
    BY <1>1, <1>2
  <2> QED
    BY <2>1 DEF Dies, EdgeInv, EdgeTypeOK
<1>5. CountInv'
  BY DEF Dies, EdgeInv, CountInv
<1> QED
  BY <1>3, <1>4, <1>5 DEF EdgeInv

LEMMA EdgeNextInv == EdgeInv /\ [Next]_vars => EdgeInv'
<1> SUFFICES ASSUME EdgeInv, [Next]_vars PROVE EdgeInv'
  OBVIOUS
<1>1. ASSUME UNCHANGED edgeVars, main = "dead" => main' = "dead"
      PROVE  EdgeInv'
  <2>1. Quiet
    BY <1>1, EdgeControl DEF edgeVars, ControlFacts, Quiet
  <2> QED
    BY <1>1, <2>1, QuietKeepsInv
<1>2. ASSUME NEW r \in Residents \cup {Nobody}, Outcome(r)
      PROVE  EdgeInv'
  BY <1>1, <1>2 DEF Outcome
<1>3. CASE Touch
  BY <1>1, <1>3 DEF Touch
<1>4. CASE Send
  <2>1. main # "dead"
    BY <1>4 DEF Send
  <2> QED
    BY <1>4, EnqueueKeepsInv DEF Send
<1>5. CASE Quit
  <2>1. /\ edgeStop' = TRUE /\ main' # "dead"
        /\ UNCHANGED <<q, fd, sender, job, rest, backoff, sent, dropped, made,
                       pings, arrived>>
    BY <1>5 DEF Quit, EdgeClose
  <2> QED
    BY <2>1 DEF EdgeInv, EdgeTypeOK, OrderInv, CountInv
<1>6. CASE EdgeIsClosed
  <2>1. Quiet /\ main # "dead"
    BY <1>6, EdgeControl DEF EdgeIsClosed, EdgeJoined, ControlFacts, Quiet
  <2> QED
    BY <2>1, QuietKeepsInv
<1>7. CASE CloseDb
  BY <1>1, <1>7 DEF CloseDb
<1>8. CASE DbIsClosed
  BY <1>1, <1>8 DEF DbIsClosed
<1>9. CASE Sender
  BY <1>9, SenderKeepsInv DEF Sender, mainVars
<1>10. CASE Writer
  BY <1>1, <1>10 DEF Writer, mainVars
<1>11. CASE UNCHANGED vars
  BY <1>1, <1>11 DEF vars, mainVars
<1> QED
  BY <1>2, <1>3, <1>4, <1>5, <1>6, <1>7, <1>8, <1>9, <1>10, <1>11,
     DiesKeepsInv
  DEF Next, FinishOutcome, Shutdown

\* The worker's program counter, its queue and its counters agree, and all
\* messages that are somewhere are in the order they were made.
THEOREM EdgeInvariant == Spec => []EdgeInv
BY EdgeInitInv, EdgeNextInv, PTL DEF Spec

\* The Edge Core gets messages at most once, in order, over failed writes,
\* reconnections and the flush; and what it does not get is waiting or counted
\* in dropped_ until the client is closed (edge_client.cpp:98-215).
THEOREM EdgeIsCountedFifo == Spec => []EdgeCountedFifo
BY EdgeInvariant, EdgeInvIsFifo, PTL

-----------------------------------------------------------------------------
(* The table.  As the messages above, the jobs that are somewhere are in    *)
(* the order they were queued; and as long as no statement failed they are  *)
(* all there, so that what a job follows in the line it follows for good.   *)

\* Every touch comes right after the event of its resident.
Paired(s) ==
  \A i \in 1 .. Len(s) : s[i].kind = "touch" =>
    /\ i - 1 \in 1 .. Len(s)
    /\ s[i - 1].kind = "event" /\ s[i - 1].resident = s[i].resident

\* Every event of a resident has its touch right after it, but for the last
\* one when the frame thread has yet to queue it.
Touched(s, waits) ==
  \A i \in 1 .. Len(s) :
    s[i].kind = "event" /\ s[i].resident \in Residents =>
      \/ /\ i + 1 \in 1 .. Len(s)
         /\ s[i + 1].kind = "touch" /\ s[i + 1].resident = s[i].resident
      \/ i = Len(s) /\ waits

\* The last job is the event of resident r.
Pending(s, r) ==
  Len(s) \in 1 .. Len(s) /\ s[Len(s)].kind = "event"
    /\ s[Len(s)].resident = r

ControlInv ==
  /\ main \in {"loop", "touch", "send", "closingEdge", "closeDb", "closingDb",
               "closed", "dead"}
  /\ main = "touch" => subject \in Residents
  /\ writer \in {"wait", "exited"} => batch = <<>>
  /\ writer = "exited" => jobs = <<>> /\ (dbStop \/ main = "dead")
  /\ dbStop => main \in {"closingDb", "closed", "dead"}
  /\ main \in {"closingDb", "closed"} => dbStop
  /\ main = "closed" => writer = "exited" /\ open = <<>>
  /\ main = "dead" => open = <<>> /\ batch = <<>> /\ writer = "exited"

TableOrder ==
  /\ Ascending(stored) /\ Ascending(open) /\ Ascending(batch) /\ Ascending(jobs)
  /\ Before(stored, open) /\ Before(stored, batch) /\ Before(stored, jobs)
  /\ Before(open, batch) /\ Before(open, jobs) /\ Before(batch, jobs)
  /\ Below(stored, logged) /\ Below(open, logged)
  /\ Below(batch, logged) /\ Below(jobs, logged)

PairInv ==
  faults = 0 =>
    /\ Paired(Log)
    /\ main # "dead" =>
         /\ Len(Log) = logged
         /\ writer = "run" <=> ~autocommit
         /\ Touched(Log, main = "touch")
         /\ main = "touch" => Pending(Log, subject)

TableInv == WriterTypeOK /\ ControlInv /\ TableOrder /\ PairInv

\* The types of the parts, as the lemmas on sequences want them.
LEMMA PartsTyped ==
  ASSUME WriterTypeOK
  PROVE  /\ stored \in Seq(Job) /\ open \in Seq(Job) /\ batch \in Seq(Job)
         /\ jobs \in Seq(Job) /\ logged \in Nat /\ faults \in Nat
         /\ MaxFaults \in Nat /\ Log \in Seq(Job)
BY WriterAssumption DEF WriterTypeOK, Log

LEMMA LogAscends ==
  ASSUME WriterTypeOK, TableOrder
  PROVE  Ascending(Log)
<1> DEFINE a == stored \o open
           b == a \o batch
<1>1. /\ a \in Seq(Job) /\ Ascending(a) /\ Before(a, batch) /\ Before(a, jobs)
  BY PartsTyped, JobConcatOrder DEF TableOrder
<1> HIDE DEF a
<1>2. b \in Seq(Job) /\ Ascending(b) /\ Before(b, jobs)
  BY <1>1, PartsTyped, JobConcatOrder DEF TableOrder
<1> HIDE DEF b
<1>3. Ascending(b \o jobs)
  BY <1>2, PartsTyped, JobConcatOrder DEF TableOrder
<1> QED BY <1>3 DEF Log, a, b

LEMMA BeginsWith ==
  ASSUME NEW s \in Seq(Job), NEW t \in Seq(Job)
  PROVE  /\ s \o t \in Seq(Job)
         /\ \A i \in 1 .. Len(s) : i \in 1 .. Len(s \o t) /\ (s \o t)[i] = s[i]
OBVIOUS

\* What is committed is where the line begins.
LEMMA StoredIsPrefix ==
  ASSUME WriterTypeOK
  PROVE  \A i \in 1 .. Len(stored) : i \in 1 .. Len(Log) /\ Log[i] = stored[i]
<1> DEFINE a == stored \o open
           b == a \o batch
<1>1. /\ a \in Seq(Job)
      /\ \A i \in 1 .. Len(stored) : i \in 1 .. Len(a) /\ a[i] = stored[i]
  BY PartsTyped, BeginsWith
<1> HIDE DEF a
<1>2. /\ b \in Seq(Job)
      /\ \A i \in 1 .. Len(a) : i \in 1 .. Len(b) /\ b[i] = a[i]
  BY <1>1, PartsTyped, BeginsWith
<1> HIDE DEF b
<1>3. \A i \in 1 .. Len(b) : i \in 1 .. Len(b \o jobs) /\ (b \o jobs)[i] = b[i]
  BY <1>2, PartsTyped, BeginsWith
<1> QED BY <1>1, <1>2, <1>3 DEF Log, a, b

LEMMA StoredIsPaired ==
  ASSUME WriterTypeOK, Paired(Log)
  PROVE  Paired(stored)
<1>1. \A i \in 1 .. Len(stored) : i \in 1 .. Len(Log) /\ Log[i] = stored[i]
  BY StoredIsPrefix
<1>2. \A i \in 1 .. Len(stored) :
        i - 1 \in 1 .. Len(Log) => i - 1 \in 1 .. Len(stored)
  BY PartsTyped
<1> QED BY <1>1, <1>2 DEF Paired

-----------------------------------------------------------------------------
(* How often a resident is in the table.                                    *)

Places(s, kind, r) ==
  {i \in 1 .. Len(s) : s[i].kind = kind /\ s[i].resident = r}

LEMMA TouchesHaveEvents ==
  ASSUME NEW s \in Seq(Job), Paired(s), NEW r
  PROVE  /\ Cardinality(Places(s, "touch", r)) <= Cardinality(Places(s, "event", r))
         /\ (\A i \in Places(s, "event", r) : i + 1 \in Places(s, "touch", r)) =>
              Cardinality(Places(s, "touch", r)) = Cardinality(Places(s, "event", r))
<1> DEFINE T == Places(s, "touch", r)
           E == Places(s, "event", r)
           back == [i \in T |-> i - 1]
<1>1. /\ T \subseteq 1 .. Len(s) /\ E \subseteq 1 .. Len(s) /\ Len(s) \in Nat
      /\ \A i \in T : i \in Int /\ i - 1 \in E
  BY DEF Places, Paired
<1>2. IsFiniteSet(1 .. Len(s))
  BY <1>1, FS_Interval
<1>3. IsFiniteSet(T) /\ IsFiniteSet(E)
  BY <1>1, <1>2, FS_Subset
<1> HIDE DEF T, E
<1>4. back \in Injection(T, E)
  BY <1>1 DEF Injection, IsInjective
<1>5. /\ Cardinality(T) <= Cardinality(E)
      /\ Cardinality(T) = Cardinality(E) <=> back \in Surjection(T, E)
  BY <1>3, <1>4, FS_Injection
<1>6. ASSUME \A i \in E : i + 1 \in T PROVE back \in Surjection(T, E)
  <2>1. \A i \in E : back[i + 1] = i
    BY <1>1, <1>6
  <2> QED BY <1>4, <1>6, <2>1 DEF Injection, Surjection
<1> QED BY <1>5, <1>6 DEF T, E

LEMMA TableInvFollows == TableInv => TableFollowsEvents
<1> SUFFICES ASSUME TableInv PROVE TableFollowsEvents
  OBVIOUS
<1>1. Ascending(Log)
  BY LogAscends DEF TableInv
<1> SUFFICES ASSUME faults = 0, NEW r \in Residents
             PROVE  /\ Of("touch", r) <= Of("event", r)
                    /\ main = "closed" => /\ Of("touch", r) = Of("event", r)
                                          /\ Len(stored) = logged
  BY <1>1 DEF TableFollowsEvents
<1>2. /\ Of("touch", r) = Cardinality(Places(stored, "touch", r))
      /\ Of("event", r) = Cardinality(Places(stored, "event", r))
  BY DEF Of, Places
<1>3. Paired(stored) /\ stored \in Seq(Job)
  BY StoredIsPaired, PartsTyped DEF TableInv, PairInv
<1>4. CASE main = "closed"
  <2>1. Log = stored
    <3>1. open = <<>> /\ batch = <<>> /\ jobs = <<>>
      BY <1>4 DEF TableInv, ControlInv
    <3> QED BY <1>3, <3>1 DEF Log
  <2>2. Len(stored) = logged /\ Touched(stored, FALSE)
    BY <1>4, <2>1 DEF TableInv, PairInv
  <2>3. \A i \in Places(stored, "event", r) : i + 1 \in Places(stored, "touch", r)
    BY <1>4, <2>2 DEF Touched, Places
  <2> QED BY <1>2, <1>3, <2>2, <2>3, TouchesHaveEvents
<1>5. CASE main # "closed"
  BY <1>2, <1>3, <1>5, TouchesHaveEvents
<1> QED BY <1>4, <1>5

-----------------------------------------------------------------------------
(* The batch without the jobs of a kind.                                    *)

\* A set of numbers that is not empty has a least one.
LEMMA LeastOf ==
  ASSUME NEW T \in SUBSET Nat, T # {}
  PROVE  \E m \in T : \A k \in T : m <= k
<1> DEFINE R == {p \in Nat \X Nat : p[1] < p[2]}
<1>1. IsWellFoundedOn(R, Nat)
  BY NatLessThanWellFounded DEF OpToRel
<1>2. \A a, b \in Nat : a < b => <<a, b>> \in R
  OBVIOUS
<1> HIDE DEF R
<1>3. PICK m \in T : \A y \in T : ~(<<y, m>> \in R)
  BY <1>1, WFMin
<1>4. \A k \in T : k \in Nat /\ m \in Nat /\ ~(k < m)
  BY <1>2, <1>3
<1>5. \A k \in T : m <= k
  BY <1>4
<1> QED BY <1>5

\* The recursive function of Without satisfies its equation.
LEMMA WithoutByTurn ==
  ASSUME NEW s \in Seq(Job), NEW kind
  PROVE  \E f : /\ f = [n \in 0 .. Len(s) |->
                          IF n = 0 THEN <<>>
                          ELSE IF s[n].kind = kind THEN f[n - 1]
                          ELSE Append(f[n - 1], s[n])]
                /\ Without(s, kind) = f[Len(s)]
<1> DEFINE D(g, n) ==
             IF n = 0 THEN <<>>
             ELSE IF s[n].kind = kind THEN g[n - 1]
             ELSE Append(g[n - 1], s[n])
           N == Len(s)
           F == CHOOSE f : f = [n \in 0 .. N |-> D(f, n)]
<1>0. N \in Nat
  OBVIOUS
<1>1. Without(s, kind) = F[N]
  BY DEF Without
<1>2. ASSUME NEW g, NEW h, NEW n \in 0 .. N, n > 0 => g[n - 1] = h[n - 1]
      PROVE  D(g, n) = D(h, n)
  <2>1. CASE n = 0
    BY <2>1
  <2>2. CASE n # 0
    <3>1. g[n - 1] = h[n - 1]
      BY <1>0, <1>2, <2>2
    <3> QED BY <2>2, <3>1, Zenon
  <2> QED BY <2>1, <2>2
<1>4. F = CHOOSE f : f = [n \in 0 .. N |-> D(f, n)]
  OBVIOUS
<1> HIDE DEF D, F, N
<1>3. \E f : f = [n \in 0 .. N |-> D(f, n)]
  <2> DEFINE Has(k) == \E f : f = [n \in 0 .. k |-> D(f, n)]
             T == {k \in 0 .. N : ~Has(k)}
  <2>1. Has(0)
    <3> DEFINE f == [n \in 0 .. 0 |-> D(<<>>, 0)]
    <3>1. \A n \in 0 .. 0 : D(f, n) = D(<<>>, 0)
      BY <1>0, <1>2
    <3> HIDE DEF f
    <3>2. f = [n \in 0 .. 0 |-> D(f, n)]
      BY <3>1 DEF f
    <3> QED BY <3>2
  <2>2. ASSUME NEW k \in 1 .. N, Has(k - 1)
        PROVE  Has(k)
    <3>1. PICK f : f = [n \in 0 .. k - 1 |-> D(f, n)]
      BY <2>2
    <3> DEFINE g == [n \in 0 .. k |-> IF n = k THEN D(f, k) ELSE f[n]]
    <3>2. \A n \in 0 .. k - 1 : g[n] = f[n] /\ f[n] = D(f, n)
      <4>1. \A n \in 0 .. k - 1 : f[n] = D(f, n)
        BY <3>1
      <4>2. \A n \in 0 .. k - 1 : n # k /\ n \in 0 .. k
        BY <1>0
      <4> QED BY <4>1, <4>2
    <3>3. g[k] = D(f, k)
      BY <1>0
    <3> HIDE DEF g
    <3>4. ASSUME NEW n \in 0 .. k PROVE g[n] = D(g, n)
      <4>1. (n > 0 => g[n - 1] = f[n - 1]) /\ n \in 0 .. N
        BY <1>0, <3>2
      <4>2. D(g, n) = D(f, n)
        BY <1>2, <4>1
      <4>3. g[n] = D(f, n)
        BY <1>0, <3>2, <3>3
      <4> QED BY <4>2, <4>3
    <3>5. g = [n \in 0 .. k |-> g[n]]
      BY DEF g
    <3>6. g = [n \in 0 .. k |-> D(g, n)]
      BY <3>4, <3>5
    <3> QED BY <3>6
  <2> HIDE DEF Has
  <2>3. T = {}
    <3> SUFFICES ASSUME T # {} PROVE FALSE
      OBVIOUS
    <3>1. T \in SUBSET Nat
      BY <1>0
    <3>2. PICK m \in T : \A k \in T : m <= k
      BY <3>1, LeastOf
    <3>3. m # 0
      BY <2>1, <3>2
    <3>4. m \in 1 .. N /\ m - 1 \in 0 .. N /\ ~(m <= m - 1)
      BY <1>0, <3>2, <3>3
    <3>5. Has(m - 1)
      BY <3>2, <3>4
    <3> QED BY <2>2, <3>2, <3>4, <3>5
  <2>4. Has(N)
    BY <1>0, <2>3
  <2> QED BY <2>4 DEF Has
<1>5. F = [n \in 0 .. N |-> D(F, n)]
  BY <1>3, <1>4
<1> QED BY <1>1, <1>5 DEF D, N

\* What is left was there, in the same order.
LEMMA WithoutKeepsOrder ==
  ASSUME NEW s \in Seq(Job), NEW kind, Ascending(s)
  PROVE  /\ Without(s, kind) \in Seq(Job) /\ Ascending(Without(s, kind))
         /\ \A i \in 1 .. Len(Without(s, kind)) :
              \E j \in 1 .. Len(s) : Without(s, kind)[i] = s[j]
<1> DEFINE N == Len(s)
           Good(w, n) ==
             /\ w \in Seq(Job) /\ Ascending(w)
             /\ \A i \in 1 .. Len(w) : \E j \in 1 .. n : w[i] = s[j]
<1>0. N \in Nat /\ \A j \in 1 .. N : s[j] \in Job /\ s[j].n \in Nat
  BY DEF Job
<1>1. PICK f : /\ f = [n \in 0 .. N |->
                         IF n = 0 THEN <<>>
                         ELSE IF s[n].kind = kind THEN f[n - 1]
                         ELSE Append(f[n - 1], s[n])]
               /\ Without(s, kind) = f[N]
  BY WithoutByTurn
<1>2. Good(<<>>, 0)
  BY JobEmptyOrder
<1>3. ASSUME NEW n \in 1 .. N, NEW w, Good(w, n - 1)
      PROVE  Good(w, n) /\ Good(Append(w, s[n]), n)
  <2>1. \A j \in 1 .. n - 1 : j \in 1 .. n /\ j \in 1 .. N /\ j < n /\ n \in 1 .. n
    BY <1>0
  <2>2. Good(w, n)
    BY <1>3, <2>1
  <2> DEFINE v == Append(w, s[n])
  <2>0. w \in Seq(Job) /\ s[n] \in Job
    BY <1>0, <1>3
  <2>3. /\ v \in Seq(Job) /\ Len(v) = Len(w) + 1 /\ Len(w) \in Nat
        /\ v[Len(v)] = s[n]
        /\ \A i \in 1 .. Len(w) : v[i] = w[i]
        /\ \A i \in 1 .. Len(v) : i \in 1 .. Len(w) \/ i = Len(v)
    BY <2>0
  <2> HIDE DEF v
  <2>4. \A i \in 1 .. Len(w) : w[i].n < s[n].n
    BY <1>3, <2>1 DEF Ascending
  <2>5. Ascending(v)
    <3> SUFFICES ASSUME NEW i \in 1 .. Len(v), NEW j \in 1 .. Len(v), i < j
                 PROVE  v[i].n < v[j].n
      BY DEF Ascending
    <3>1. i \in 1 .. Len(w) /\ v[i] = w[i]
      BY <2>3
    <3>2. CASE j \in 1 .. Len(w)
      BY <1>3, <2>3, <3>1, <3>2 DEF Ascending
    <3>3. CASE j = Len(v)
      BY <2>3, <2>4, <3>1, <3>3
    <3> QED BY <2>3, <3>2, <3>3
  <2>6. \A i \in 1 .. Len(v) : \E j \in 1 .. n : v[i] = s[j]
    <3>1. n \in 1 .. n
      BY <1>0
    <3> QED BY <2>2, <2>3, <3>1
  <2> QED BY <2>2, <2>3, <2>5, <2>6 DEF v
<1> HIDE DEF Good
<1> DEFINE T == {n \in 0 .. N : ~Good(f[n], n)}
<1>4. T = {}
  <2> SUFFICES ASSUME T # {} PROVE FALSE
    OBVIOUS
  <2>1. T \in SUBSET Nat
    BY <1>0
  <2>2. PICK m \in T : \A k \in T : m <= k
    BY <2>1, LeastOf
  <2>3. m # 0
    BY <1>0, <1>1, <1>2, <2>2
  <2>4. m \in 1 .. N /\ m - 1 \in 0 .. N /\ ~(m <= m - 1) /\ m \in 0 .. N
    BY <1>0, <2>2, <2>3
  <2>5. Good(f[m - 1], m - 1)
    BY <2>2, <2>4
  <2>6. f[m] = IF s[m].kind = kind THEN f[m - 1] ELSE Append(f[m - 1], s[m])
    BY <1>1, <2>3, <2>4
  <2>7. Good(f[m], m)
    BY <1>3, <2>4, <2>5, <2>6
  <2> QED BY <2>2, <2>7
<1>5. Good(f[N], N)
  BY <1>0, <1>4
<1> QED BY <1>1, <1>5 DEF Good

-----------------------------------------------------------------------------
(* The steps of the writer.                                                 *)

LEMMA JobHeadAndTail ==
  ASSUME NEW s \in Seq(Job), s # <<>>
  PROVE  /\ Head(s) \in Job /\ Tail(s) \in Seq(Job)
         /\ <<Head(s)>> \in Seq(Job)
         /\ s = <<Head(s)>> \o Tail(s)
<1>1. /\ Head(s) \in Job /\ Tail(s) \in Seq(Job) /\ Head(s) = s[1]
      /\ Len(Tail(s)) = Len(s) - 1 /\ Len(s) \in Nat \ {0}
      /\ \A i \in 1 .. Len(Tail(s)) : Tail(s)[i] = s[i + 1]
  OBVIOUS
<1>2. <<Head(s)>> \in Seq(Job)
  OBVIOUS
<1>3. s = <<Head(s)>> \o Tail(s)
  OBVIOUS
<1> QED BY <1>1, <1>2, <1>3

LEMMA Associates ==
  ASSUME NEW s \in Seq(Job), NEW t \in Seq(Job), NEW u \in Seq(Job)
  PROVE  /\ (s \o t) \o u = s \o (t \o u)
         /\ s \o t \in Seq(Job)
         /\ s \o <<>> = s /\ <<>> \o s = s /\ <<>> \in Seq(Job)
BY ConcatAssociative, ConcatEmptySeq

LEMMA Regrouped ==
  \A s, t, u \in Seq(Job) : (s \o t) \o u = s \o (t \o u)
BY ConcatAssociative

\* A job is taken over from one part to the next: the order stays.
LEMMA MoveKeepsOrder ==
  ASSUME NEW x \in Seq(Job), NEW a \in Seq(Job), NEW h \in Seq(Job),
         NEW t \in Seq(Job), NEW z \in Seq(Job), NEW m \in Nat,
         Ascending(a), Ascending(h \o t), Before(a, h \o t),
         Before(x, a), Before(x, h \o t), Before(a, z), Before(h \o t, z),
         Below(a, m), Below(h \o t, m)
  PROVE  /\ Ascending(a \o h) /\ Ascending(t) /\ Before(a \o h, t)
         /\ Before(x, a \o h) /\ Before(x, t) /\ Before(a \o h, z) /\ Before(t, z)
         /\ Below(a \o h, m) /\ Below(t, m)
         /\ a \o h \in Seq(Job)
<1>1. /\ Ascending(h) /\ Ascending(t) /\ Before(h, t)
      /\ Before(a, h) /\ Before(a, t) /\ Before(x, h) /\ Before(x, t)
      /\ Before(h, z) /\ Before(t, z) /\ Below(h, m) /\ Below(t, m)
  BY JobConcatOrder
<1>2. a \o h \in Seq(Job) /\ Ascending(a \o h) /\ Below(a \o h, m)
  BY <1>1, JobConcatOrder
<1>3. Before(a \o h, t) /\ Before(a \o h, z) /\ Before(x, a \o h)
  BY <1>1, JobConcatOrder
<1> QED BY <1>1, <1>2, <1>3

\* The line stays as it is.
LEMMA LineKeepsPairs ==
  ASSUME PairInv, Log' = Log, logged' = logged,
         faults' = 0 =>
           faults = 0 /\ (main' # "dead" => (writer' = "run" <=> ~autocommit')),
         main' # "dead" => main # "dead",
         main' = "touch" <=> main = "touch", subject' = subject
  PROVE  PairInv'
<1> SUFFICES ASSUME faults' = 0
             PROVE  /\ Paired(Log')
                    /\ main' # "dead" =>
                         /\ Len(Log') = logged'
                         /\ writer' = "run" <=> ~autocommit'
                         /\ Touched(Log', main' = "touch")
                         /\ main' = "touch" => Pending(Log', subject')
  BY DEF PairInv
<1>1. Paired(Log')
  BY DEF PairInv
<1>2. ASSUME main' # "dead"
      PROVE  Len(Log') = logged' /\ (writer' = "run" <=> ~autocommit')
  BY <1>2 DEF PairInv
<1>3. ASSUME main' # "dead" PROVE Touched(Log', main' = "touch")
  BY <1>3 DEF PairInv, Touched
<1>4. ASSUME main' = "touch" PROVE Pending(Log', subject')
  BY <1>4 DEF PairInv, Pending
<1> QED BY <1>1, <1>2, <1>3, <1>4

LEMMA TakeBatchKeepsTable ==
  ASSUME TableInv, TakeBatch, UNCHANGED mainVars
  PROVE  TableInv'
<1>1. /\ stored \in Seq(Job) /\ open \in Seq(Job) /\ jobs \in Seq(Job)
      /\ <<>> \in Seq(Job) /\ batch = <<>>
      /\ batch' = jobs /\ jobs' = <<>> /\ stored' = stored /\ open' = open
  BY PartsTyped DEF TableInv, ControlInv, TakeBatch
<1>2. WriterTypeOK'
  BY <1>1 DEF TableInv, WriterTypeOK, TakeBatch
<1>3. ControlInv'
  BY DEF TableInv, ControlInv, WriterTypeOK, TakeBatch, mainVars
<1>4. TableOrder'
  BY <1>1, JobEmptyOrder DEF TableInv, TableOrder, TakeBatch
<1>5. Log' = Log
  <2> DEFINE a == stored \o open
  <2>1. a \in Seq(Job)
    BY <1>1
  <2>2. (a \o jobs) \in Seq(Job)
    BY <1>1, <2>1
  <2>3. a \o <<>> = a /\ (a \o jobs) \o <<>> = a \o jobs
    BY <2>1, <2>2, Associates
  <2> QED BY <1>1, <2>3 DEF Log
<1>6. PairInv'
  BY <1>5, LineKeepsPairs
     DEF TableInv, ControlInv, PairInv, WriterTypeOK, TakeBatch, mainVars
<1> QED BY <1>2, <1>3, <1>4, <1>6 DEF TableInv

\* A statement failed by itself: of the table nothing but the order is
\* promised.
LEMMA FaultKeepsTable ==
  ASSUME WriterTypeOK', ControlInv', TableOrder', faults \in Nat, Fault
  PROVE  TableInv'
BY DEF TableInv, PairInv, Fault

LEMMA FaultIsCounted ==
  ASSUME WriterTypeOK, Fault
  PROVE  faults' \in 0 .. MaxFaults
BY WriterAssumption DEF WriterTypeOK, Fault

LEMMA PrepareFailsKeepsTable ==
  ASSUME TableInv, NEW kind \in {"event", "touch"}, PrepareFails(kind),
         UNCHANGED mainVars
  PROVE  TableInv'
<1> DEFINE w == Without(batch, kind)
<1>1. /\ stored \in Seq(Job) /\ open \in Seq(Job) /\ jobs \in Seq(Job)
      /\ batch \in Seq(Job) /\ batch' = w /\ faults \in Nat
      /\ Ascending(batch)
  BY PartsTyped DEF TableInv, TableOrder, PrepareFails
<1>2. /\ w \in Seq(Job) /\ Ascending(w)
      /\ \A i \in 1 .. Len(w) : \E j \in 1 .. Len(batch) : w[i] = batch[j]
  BY <1>1, WithoutKeepsOrder
<1> HIDE DEF w
<1>3. /\ Before(stored, w) /\ Before(open, w) /\ Before(w, jobs)
      /\ Below(w, logged)
  BY <1>2 DEF TableInv, TableOrder, Before, Below
<1>4. WriterTypeOK'
  BY <1>1, <1>2, FaultIsCounted DEF TableInv, WriterTypeOK, PrepareFails
<1>5. ControlInv'
  BY DEF TableInv, ControlInv, PrepareFails, mainVars
<1>6. TableOrder'
  BY <1>1, <1>2, <1>3 DEF TableInv, TableOrder, PrepareFails
<1> QED BY <1>1, <1>4, <1>5, <1>6, FaultKeepsTable DEF PrepareFails

LEMMA BatchBeginsKeepsTable ==
  ASSUME TableInv, BatchBegins, UNCHANGED mainVars
  PROVE  TableInv'
<1>1. WriterTypeOK'
  BY DEF TableInv, WriterTypeOK, BatchBegins
<1>2. ControlInv'
  BY DEF TableInv, ControlInv, BatchBegins, mainVars
<1>3. TableOrder'
  BY DEF TableInv, TableOrder, BatchBegins
<1>4. Log' = Log
  BY DEF Log, BatchBegins
<1>5. PairInv'
  BY <1>4, LineKeepsPairs DEF TableInv, BatchBegins, mainVars
<1> QED BY <1>1, <1>2, <1>3, <1>5 DEF TableInv

LEMMA WriterExitsKeepsTable ==
  ASSUME TableInv, WriterExits, UNCHANGED mainVars
  PROVE  TableInv'
<1>1. WriterTypeOK'
  BY DEF TableInv, WriterTypeOK, WriterExits
<1>2. ControlInv'
  BY DEF TableInv, ControlInv, WriterExits, mainVars
<1>3. TableOrder'
  BY DEF TableInv, TableOrder, WriterExits
<1>4. Log' = Log
  BY DEF Log, WriterExits
<1>5. PairInv'
  BY <1>4, LineKeepsPairs
     DEF TableInv, ControlInv, PairInv, WriterExits, mainVars
<1> QED BY <1>1, <1>2, <1>3, <1>5 DEF TableInv

\* The batch is given up.  Without a fault that cannot be: a transaction that
\* is still open is left by one.
LEMMA BatchDroppedKeepsTable ==
  ASSUME TableInv, BatchDropped, UNCHANGED mainVars
  PROVE  TableInv'
<1>1. /\ stored \in Seq(Job) /\ open \in Seq(Job) /\ jobs \in Seq(Job)
      /\ <<>> \in Seq(Job) /\ batch' = <<>> /\ faults \in Nat
  BY PartsTyped DEF TableInv, BatchDropped
<1>2. WriterTypeOK'
  BY <1>1, FaultIsCounted DEF TableInv, WriterTypeOK, BatchDropped
<1>3. ControlInv'
  BY DEF TableInv, ControlInv, BatchDropped, mainVars
<1>4. TableOrder'
  BY <1>1, JobEmptyOrder DEF TableInv, TableOrder, BatchDropped
<1>5. CASE autocommit
  BY <1>1, <1>2, <1>3, <1>4, <1>5, FaultKeepsTable DEF BatchDropped
<1>6. CASE ~autocommit
  <2>1. main # "dead" /\ faults # 0
    BY <1>6 DEF TableInv, ControlInv, PairInv, BatchDropped
  <2>2. faults' # 0
    BY <1>6, <2>1 DEF BatchDropped
  <2> QED BY <1>2, <1>3, <1>4, <2>2 DEF TableInv, PairInv
<1> QED BY <1>5, <1>6

LEMMA JobRunsKeepsTable ==
  ASSUME TableInv, JobRuns, UNCHANGED mainVars
  PROVE  TableInv'
<1> DEFINE h == <<Head(batch)>>
           t == Tail(batch)
<1>1. /\ stored \in Seq(Job) /\ open \in Seq(Job) /\ jobs \in Seq(Job)
      /\ batch \in Seq(Job) /\ batch # <<>> /\ logged \in Nat
  BY PartsTyped DEF TableInv, JobRuns
<1>2. /\ h \in Seq(Job) /\ t \in Seq(Job) /\ batch = h \o t
  BY <1>1, JobHeadAndTail
<1>3. Append(stored, Head(batch)) = stored \o h /\ Append(open, Head(batch)) = open \o h
  BY <1>1, JobHeadAndTail, AppendIsConcat
<1>4. batch' = t /\ jobs' = jobs /\ logged' = logged
  BY DEF JobRuns
<1> HIDE DEF h, t
<1>5. ControlInv'
  BY DEF TableInv, ControlInv, JobRuns, mainVars
<1>6. CASE autocommit
  <2>1. stored' = stored \o h /\ open' = open /\ open = <<>>
    BY <1>3, <1>6 DEF JobRuns, TableInv, WriterTypeOK
  <2>2. /\ Ascending(stored') /\ Ascending(t) /\ Before(stored', t)
        /\ Before(stored', jobs) /\ Before(t, jobs)
        /\ Below(stored', logged) /\ Below(t, logged) /\ stored' \in Seq(Job)
    <3>1. /\ Ascending(stored) /\ Ascending(h \o t) /\ Before(stored, h \o t)
          /\ Before(stored, jobs) /\ Before(h \o t, jobs)
          /\ Below(stored, logged) /\ Below(h \o t, logged)
      BY <1>2 DEF TableInv, TableOrder
    <3> DEFINE e == <<>>
    <3>2. Before(e, stored) /\ Before(e, h \o t) /\ e \in Seq(Job)
      BY <1>1, <1>2, JobEmptyOrder, Associates
    <3> HIDE DEF e
    <3> QED BY <1>1, <1>2, <2>1, <3>1, <3>2, MoveKeepsOrder
  <2>3. TableOrder'
    BY <1>1, <1>2, <1>4, <2>1, <2>2, JobEmptyOrder DEF TableInv, TableOrder
  <2>4. WriterTypeOK'
    BY <1>2, <1>4, <2>1, <2>2 DEF TableInv, WriterTypeOK, JobRuns
  <2>5. Log' = Log
    <3>1. Log = (stored \o (h \o t)) \o jobs
      BY <1>1, <1>2, <2>1, Associates DEF Log
    <3>2. Log' = ((stored \o h) \o t) \o jobs
      BY <1>1, <1>2, <1>4, <2>1, <2>2, Associates DEF Log
    <3>3. (stored \o h) \o t = stored \o (h \o t)
      <4>1. stored \in Seq(Job) /\ h \in Seq(Job) /\ t \in Seq(Job)
        BY <1>1, <1>2
      <4> QED BY <4>1, Regrouped
    <3> QED BY <3>1, <3>2, <3>3
  <2>6. PairInv'
    BY <1>6, <2>5, LineKeepsPairs DEF TableInv, PairInv, JobRuns, mainVars
  <2> QED BY <1>5, <2>3, <2>4, <2>6 DEF TableInv
<1>7. CASE ~autocommit
  <2>1. open' = open \o h /\ stored' = stored
    BY <1>3, <1>7 DEF JobRuns
  <2>2. /\ Ascending(open') /\ Ascending(t) /\ Before(open', t)
        /\ Before(stored, open') /\ Before(stored, t)
        /\ Before(open', jobs) /\ Before(t, jobs)
        /\ Below(open', logged) /\ Below(t, logged) /\ open' \in Seq(Job)
    <3>1. /\ Ascending(open) /\ Ascending(h \o t) /\ Before(open, h \o t)
          /\ Before(stored, open) /\ Before(stored, h \o t)
          /\ Before(open, jobs) /\ Before(h \o t, jobs)
          /\ Below(open, logged) /\ Below(h \o t, logged)
      BY <1>2 DEF TableInv, TableOrder
    <3> QED BY <1>1, <1>2, <2>1, <3>1, MoveKeepsOrder
  <2>3. TableOrder'
    BY <1>4, <2>1, <2>2 DEF TableInv, TableOrder
  <2>4. WriterTypeOK'
    BY <1>2, <1>4, <1>7, <2>1, <2>2 DEF TableInv, WriterTypeOK, JobRuns
  <2>5. Log' = Log
    <3> DEFINE a == stored \o open
    <3>1. a \in Seq(Job) /\ stored \o (open \o h) = a \o h
      <4>1. a \in Seq(Job)
        BY <1>1, Associates
      <4>2. stored \in Seq(Job) /\ open \in Seq(Job) /\ h \in Seq(Job)
        BY <1>1, <1>2
      <4>3. (stored \o open) \o h = stored \o (open \o h)
        BY <4>2, Regrouped
      <4> QED BY <4>1, <4>3
    <3> HIDE DEF a
    <3>2. (a \o h) \o t = a \o (h \o t)
      <4>1. a \in Seq(Job) /\ h \in Seq(Job) /\ t \in Seq(Job)
        BY <1>2, <3>1
      <4> QED BY <4>1, Regrouped
    <3>3. Log = (a \o (h \o t)) \o jobs
      BY <1>2 DEF Log, a
    <3>4. Log' = ((stored \o (open \o h)) \o t) \o jobs
      BY <1>4, <2>1 DEF Log
    <3> QED BY <3>1, <3>2, <3>3, <3>4
  <2>6. PairInv'
    BY <2>5, LineKeepsPairs DEF TableInv, PairInv, JobRuns, mainVars
  <2> QED BY <1>5, <2>3, <2>4, <2>6 DEF TableInv
<1> QED BY <1>6, <1>7

LEMMA JobFailsKeepsTable ==
  ASSUME TableInv, JobFails, UNCHANGED mainVars
  PROVE  TableInv'
<1> DEFINE h == <<Head(batch)>>
           t == Tail(batch)
<1>1. /\ stored \in Seq(Job) /\ open \in Seq(Job) /\ jobs \in Seq(Job)
      /\ batch \in Seq(Job) /\ batch # <<>> /\ logged \in Nat /\ faults \in Nat
      /\ <<>> \in Seq(Job)
  BY PartsTyped DEF TableInv, JobFails
<1>2. /\ h \in Seq(Job) /\ t \in Seq(Job) /\ batch = h \o t
  BY <1>1, JobHeadAndTail
<1>3. /\ batch' = t /\ jobs' = jobs /\ logged' = logged /\ stored' = stored
      /\ open' = open \/ open' = <<>>
  BY DEF JobFails
<1> HIDE DEF h, t
<1>4. ControlInv'
  BY DEF TableInv, ControlInv, JobFails, mainVars
<1>5. WriterTypeOK'
  <2>1. open' \in Seq(Job)
    BY <1>1, <1>3
  <2>3. /\ autocommit' \in BOOLEAN
        /\ autocommit' => open' = <<>>
    <3>1. \/ autocommit' = autocommit /\ open' = open
          \/ autocommit' = TRUE /\ open' = <<>>
      BY DEF JobFails
    <3>2. CASE autocommit' = autocommit /\ open' = open
      BY <3>2 DEF TableInv, WriterTypeOK
    <3>3. CASE autocommit' = TRUE /\ open' = <<>>
      BY <3>3
    <3> QED BY <3>1, <3>2, <3>3
  <2>2. /\ dbStop' = dbStop /\ writer' = writer /\ faults' \in 0 .. MaxFaults
    BY FaultIsCounted DEF TableInv, JobFails
  <2> QED BY <1>1, <1>2, <1>3, <2>1, <2>2, <2>3 DEF TableInv, WriterTypeOK
<1>6. /\ Ascending(t) /\ Before(stored, t) /\ Before(open, t) /\ Before(t, jobs)
      /\ Below(t, logged)
  <2>1. /\ Ascending(h \o t) /\ Before(stored, h \o t) /\ Before(open, h \o t)
        /\ Before(h \o t, jobs) /\ Below(h \o t, logged)
    BY <1>2 DEF TableInv, TableOrder
  <2> QED BY <1>1, <1>2, <2>1, JobConcatOrder
<1>7. /\ Ascending(open') /\ Before(stored, open') /\ Before(open', t)
      /\ Before(open', jobs) /\ Below(open', logged)
  BY <1>1, <1>2, <1>3, <1>6, JobEmptyOrder DEF TableInv, TableOrder
<1>8. TableOrder'
  BY <1>3, <1>6, <1>7 DEF TableInv, TableOrder
<1> QED BY <1>1, <1>4, <1>5, <1>8, FaultKeepsTable DEF JobFails

LEMMA CommitsKeepsTable ==
  ASSUME TableInv, Commits, UNCHANGED mainVars
  PROVE  TableInv'
<1>1. /\ stored \in Seq(Job) /\ open \in Seq(Job) /\ jobs \in Seq(Job)
      /\ batch \in Seq(Job) /\ <<>> \in Seq(Job) /\ logged \in Nat
      /\ stored' = stored \o open /\ open' = <<>> /\ jobs' = jobs
      /\ batch' = <<>> /\ logged' = logged /\ batch = <<>>
  BY PartsTyped DEF TableInv, Commits
<1>2. /\ Ascending(stored') /\ Before(stored', jobs) /\ Below(stored', logged)
      /\ stored' \in Seq(Job)
  BY <1>1, JobConcatOrder DEF TableInv, TableOrder
<1>3. TableOrder'
  BY <1>1, <1>2, JobEmptyOrder DEF TableInv, TableOrder
<1>4. WriterTypeOK'
  BY <1>1, <1>2 DEF TableInv, WriterTypeOK, Commits
<1>5. ControlInv'
  BY DEF TableInv, ControlInv, Commits, mainVars
<1>6. Log' = Log
  <2> DEFINE a == stored \o open
  <2>1. a \in Seq(Job) /\ a \o <<>> = a
    BY <1>1, Associates
  <2> QED BY <1>1, <2>1 DEF Log
<1>7. PairInv'
  BY <1>6, LineKeepsPairs DEF TableInv, PairInv, Commits, mainVars
<1> QED BY <1>3, <1>4, <1>5, <1>7 DEF TableInv

LEMMA CommitFailsKeepsTable ==
  ASSUME TableInv, CommitFails, UNCHANGED mainVars
  PROVE  TableInv'
<1>1. /\ stored \in Seq(Job) /\ open \in Seq(Job) /\ jobs \in Seq(Job)
      /\ batch \in Seq(Job) /\ <<>> \in Seq(Job) /\ logged \in Nat
      /\ stored' = stored /\ jobs' = jobs /\ batch' = batch /\ logged' = logged
      /\ open' = open \/ open' = <<>>
      /\ faults \in Nat
  BY PartsTyped DEF TableInv, CommitFails
<1>2. TableOrder'
  BY <1>1, JobEmptyOrder DEF TableInv, TableOrder
<1>3. WriterTypeOK'
  BY <1>1, FaultIsCounted DEF TableInv, WriterTypeOK, CommitFails
<1>4. ControlInv'
  BY DEF TableInv, ControlInv, CommitFails, mainVars
<1>5. CASE autocommit
  <2>1. main # "dead" /\ faults # 0 /\ faults' = faults
    BY <1>5 DEF TableInv, ControlInv, PairInv, CommitFails
  <2> QED BY <1>2, <1>3, <1>4, <2>1 DEF TableInv, PairInv
<1>6. CASE ~autocommit
  BY <1>1, <1>2, <1>3, <1>4, <1>6, FaultKeepsTable DEF CommitFails
<1> QED BY <1>5, <1>6

-----------------------------------------------------------------------------
(* The steps of the frame thread and the end.                               *)

NewJob(kind, r) == [n |-> logged + 1, kind |-> kind, resident |-> r]

\* Queueing a job appends it to the line.
LEMMA QueuedKeepsOrder ==
  ASSUME TableInv, NEW kind, NEW r, Queued(kind, r), NewJob(kind, r) \in Job
  PROVE  /\ WriterTypeOK' /\ TableOrder' /\ Log' = Append(Log, NewJob(kind, r))
         /\ Log \in Seq(Job)
<1> DEFINE x == NewJob(kind, r)
           l == <<x>>
<1>1. /\ stored \in Seq(Job) /\ open \in Seq(Job) /\ jobs \in Seq(Job)
      /\ batch \in Seq(Job) /\ Log \in Seq(Job) /\ logged \in Nat
  BY PartsTyped DEF TableInv
<1>2. x \in Job /\ x.n = logged + 1 /\ x.n \in Nat
  BY <1>1 DEF NewJob
<1>3. /\ stored' = stored /\ open' = open /\ batch' = batch
      /\ jobs' = Append(jobs, x) /\ logged' = x.n
      /\ UNCHANGED <<dbStop, writer, autocommit, faults>>
  BY <1>2 DEF Queued, NewJob
<1> HIDE DEF x
<1>4. /\ l \in Seq(Job) /\ Ascending(l) /\ Below(l, x.n)
      /\ \A s \in Seq(Job) : Below(s, logged) => Before(s, l) /\ Below(s, x.n)
  BY <1>1, <1>2, JobNewestOrder
<1>5. Append(jobs, x) = jobs \o l /\ Append(Log, x) = Log \o l
  BY <1>1, <1>2, AppendIsConcat
<1> HIDE DEF l
<1>6. /\ Before(stored, l) /\ Before(open, l) /\ Before(batch, l) /\ Before(jobs, l)
      /\ Below(stored, x.n) /\ Below(open, x.n) /\ Below(batch, x.n)
      /\ Below(jobs, x.n)
  BY <1>1, <1>4 DEF TableInv, TableOrder
<1>7. /\ jobs \o l \in Seq(Job) /\ Ascending(jobs \o l) /\ Below(jobs \o l, x.n)
      /\ Before(stored, jobs \o l) /\ Before(open, jobs \o l)
      /\ Before(batch, jobs \o l)
  BY <1>1, <1>2, <1>4, <1>6, JobConcatOrder DEF TableInv, TableOrder
<1>8. TableOrder'
  BY <1>3, <1>5, <1>6, <1>7 DEF TableInv, TableOrder
<1>9. WriterTypeOK'
  BY <1>2, <1>3, <1>5, <1>7 DEF TableInv, WriterTypeOK
<1>10. Log' = Log \o l
  <2> DEFINE b == stored \o open \o batch
  <2>1. b \in Seq(Job)
    BY <1>1, Associates
  <2>2. Log = b \o jobs /\ Log' = b \o (jobs \o l)
    BY <1>3, <1>5 DEF Log
  <2> HIDE DEF b
  <2>3. (b \o jobs) \o l = b \o (jobs \o l)
    <3>1. b \in Seq(Job) /\ jobs \in Seq(Job) /\ l \in Seq(Job)
      BY <1>1, <1>4, <2>1
    <3> QED BY <3>1, Regrouped
  <2> QED BY <2>2, <2>3
<1> QED BY <1>1, <1>5, <1>8, <1>9, <1>10 DEF x

\* The line with one job more.
LEMMA Longer ==
  ASSUME NEW s \in Seq(Job), NEW x \in Job
  PROVE  /\ Append(s, x) \in Seq(Job) /\ Len(Append(s, x)) = Len(s) + 1
         /\ Append(s, x)[Len(s) + 1] = x /\ Len(s) \in Nat
         /\ \A i \in 1 .. Len(s) : Append(s, x)[i] = s[i]
OBVIOUS

LEMMA OutcomeKeepsTable ==
  ASSUME TableInv, NEW r \in Residents \cup {Nobody}, Outcome(r)
  PROVE  TableInv'
<1> DEFINE x == NewJob("event", r)
           s == Append(Log, x)
<1>1. logged \in Nat /\ Log \in Seq(Job)
  BY PartsTyped DEF TableInv
<1>2. x \in Job /\ x.kind = "event" /\ x.resident = r
  BY <1>1 DEF NewJob, Job
<1>3. WriterTypeOK' /\ TableOrder' /\ Log' = s
  BY <1>2, QueuedKeepsOrder DEF Outcome, LogEvent
<1>4. ControlInv'
  BY DEF TableInv, ControlInv, Outcome, LogEvent, Queued
<1> HIDE DEF x
<1>5. /\ Len(s) = Len(Log) + 1 /\ Len(Log) \in Nat /\ s[Len(s)] = x
      /\ \A i \in 1 .. Len(Log) : s[i] = Log[i]
      /\ \A i \in 1 .. Len(s) : i \in 1 .. Len(Log) \/ i = Len(s)
  BY <1>1, <1>2, Longer
<1> HIDE DEF s
<1>6. ASSUME faults' = 0
      PROVE  /\ Paired(s) /\ Len(s) = logged' /\ (writer' = "run" <=> ~autocommit')
             /\ Touched(s, main' = "touch")
             /\ main' = "touch" => Pending(s, subject')
  <2>1. /\ faults = 0 /\ main = "loop" /\ main # "dead" /\ subject' = r
        /\ logged' = logged + 1 /\ writer' = writer /\ autocommit' = autocommit
        /\ main' = "touch" <=> r # Nobody
    BY <1>6 DEF Outcome, LogEvent, Queued
  <2>2. /\ Paired(Log) /\ Len(Log) = logged /\ (writer = "run" <=> ~autocommit)
        /\ Touched(Log, FALSE)
    BY <2>1 DEF TableInv, PairInv
  <2>3. Paired(s)
    <3>1. \A i \in 1 .. Len(Log) : i - 1 \in 1 .. Len(Log) => i - 1 \in 1 .. Len(s)
      BY <1>5
    <3> QED BY <1>2, <1>5, <2>2, <3>1 DEF Paired
  <2>4. Touched(s, main' = "touch")
    <3> SUFFICES ASSUME NEW i \in 1 .. Len(s), s[i].kind = "event",
                        s[i].resident \in Residents
                 PROVE  \/ /\ i + 1 \in 1 .. Len(s)
                           /\ s[i + 1].kind = "touch"
                           /\ s[i + 1].resident = s[i].resident
                        \/ i = Len(s) /\ main' = "touch"
      BY DEF Touched
    <3>1. CASE i \in 1 .. Len(Log)
      BY <1>5, <2>2, <3>1 DEF Touched
    <3>2. CASE i = Len(s)
      BY <1>2, <1>5, <2>1, <3>2, WriterAssumption
    <3> QED BY <1>5, <3>1, <3>2
  <2>5. Pending(s, subject')
    BY <1>2, <1>5, <2>1 DEF Pending
  <2> QED BY <1>5, <2>1, <2>2, <2>3, <2>4, <2>5
<1>7. PairInv'
  BY <1>3, <1>6 DEF PairInv
<1> QED BY <1>3, <1>4, <1>7 DEF TableInv

LEMMA TouchKeepsTable ==
  ASSUME TableInv, Touch
  PROVE  TableInv'
<1> DEFINE x == NewJob("touch", subject)
           s == Append(Log, x)
<1>1. logged \in Nat /\ Log \in Seq(Job) /\ subject \in Residents
  BY PartsTyped DEF TableInv, ControlInv, Touch
<1>2. x \in Job /\ x.kind = "touch" /\ x.resident = subject
  BY <1>1 DEF NewJob, Job
<1>3. WriterTypeOK' /\ TableOrder' /\ Log' = s
  BY <1>2, QueuedKeepsOrder DEF Touch, TouchResident
<1>4. ControlInv'
  BY DEF TableInv, ControlInv, Touch, TouchResident, Queued
<1> HIDE DEF x
<1>5. /\ Len(s) = Len(Log) + 1 /\ Len(Log) \in Nat /\ s[Len(s)] = x
      /\ \A i \in 1 .. Len(Log) : s[i] = Log[i]
      /\ \A i \in 1 .. Len(s) : i \in 1 .. Len(Log) \/ i = Len(s)
  BY <1>1, <1>2, Longer
<1> HIDE DEF s
<1>6. ASSUME faults' = 0
      PROVE  /\ Paired(s) /\ Len(s) = logged' /\ (writer' = "run" <=> ~autocommit')
             /\ Touched(s, main' = "touch")
  <2>1. /\ faults = 0 /\ main = "touch" /\ main # "dead" /\ main' = "send"
        /\ logged' = logged + 1 /\ writer' = writer /\ autocommit' = autocommit
    BY <1>6 DEF Touch, TouchResident, Queued
  <2>2. /\ Paired(Log) /\ Len(Log) = logged /\ (writer = "run" <=> ~autocommit)
        /\ Touched(Log, TRUE) /\ Pending(Log, subject)
    BY <2>1 DEF TableInv, PairInv
  <2>3. Paired(s)
    <3>1. /\ Len(Log) \in 1 .. Len(s) /\ s[Len(Log)] = Log[Len(Log)]
          /\ Len(s) - 1 = Len(Log)
      BY <1>5, <2>2 DEF Pending
    <3>2. \A i \in 1 .. Len(Log) :
            i - 1 \in 1 .. Len(Log) => i - 1 \in 1 .. Len(s)
      BY <1>5
    <3> QED BY <1>2, <1>5, <2>2, <3>1, <3>2 DEF Paired, Pending
  <2>4. Touched(s, FALSE)
    <3> SUFFICES ASSUME NEW i \in 1 .. Len(s), s[i].kind = "event",
                        s[i].resident \in Residents
                 PROVE  /\ i + 1 \in 1 .. Len(s)
                        /\ s[i + 1].kind = "touch"
                        /\ s[i + 1].resident = s[i].resident
      BY DEF Touched
    <3>1. i \in 1 .. Len(Log) /\ s[i] = Log[i]
      BY <1>2, <1>5
    <3>2. CASE i = Len(Log)
      BY <1>2, <1>5, <2>2, <3>1, <3>2 DEF Pending
    <3>3. CASE i # Len(Log)
      BY <1>5, <2>2, <3>1, <3>3 DEF Touched
    <3> QED BY <3>2, <3>3
  <2> QED BY <1>5, <2>1, <2>2, <2>3, <2>4
<1>7. PairInv'
  <2>1. main' # "touch"
    BY DEF Touch
  <2> QED BY <1>3, <1>6, <2>1 DEF PairInv
<1> QED BY <1>3, <1>4, <1>7 DEF TableInv

LEMMA DiesKeepsTable ==
  ASSUME TableInv, Dies
  PROVE  TableInv'
<1>1. /\ stored \in Seq(Job) /\ <<>> \in Seq(Job)
      /\ stored' = stored /\ open' = <<>> /\ batch' = <<>> /\ jobs' = <<>>
      /\ logged' = logged /\ faults' = faults /\ main' = "dead"
  BY PartsTyped DEF TableInv, Dies
<1>2. WriterTypeOK'
  BY <1>1 DEF TableInv, WriterTypeOK, Dies
<1>3. ControlInv'
  BY DEF TableInv, ControlInv, Dies
<1>4. TableOrder'
  BY <1>1, JobEmptyOrder DEF TableInv, TableOrder
<1>5. PairInv'
  <2>1. Log' = stored
    BY <1>1, Associates DEF Log
  <2>2. faults = 0 => Paired(stored)
    BY StoredIsPaired DEF TableInv, PairInv
  <2> QED BY <1>1, <2>1, <2>2 DEF PairInv
<1> QED BY <1>2, <1>3, <1>4, <1>5 DEF TableInv

\* The steps of the frame thread that leave the database alone.
LEMMA ElsewhereKeepsTable ==
  ASSUME TableInv, UNCHANGED writerVars,
         \/ UNCHANGED mainVars
         \/ Send \/ Quit \/ EdgeIsClosed
  PROVE  TableInv'
<1>1. /\ WriterTypeOK' /\ TableOrder' /\ Log' = Log
      /\ logged' = logged /\ faults' = faults
      /\ writer' = writer /\ autocommit' = autocommit
  BY DEF TableInv, WriterTypeOK, TableOrder, Log, writerVars
<1>2. ControlInv'
  BY DEF TableInv, ControlInv, writerVars, mainVars, Send, Quit, EdgeIsClosed
<1>3. /\ main' = "touch" <=> main = "touch"
      /\ subject' = subject
      /\ main' # "dead" => main # "dead"
  BY DEF mainVars, Send, Quit, EdgeIsClosed
<1>4. faults' = 0 => faults = 0 /\ (main' # "dead" => (writer' = "run" <=> ~autocommit'))
  BY <1>1, <1>3 DEF TableInv, PairInv
<1>5. PairInv'
  BY <1>1, <1>3, <1>4, LineKeepsPairs DEF TableInv
<1> QED BY <1>1, <1>2, <1>5 DEF TableInv

LEMMA CloseDbKeepsTable ==
  ASSUME TableInv, CloseDb
  PROVE  TableInv'
<1>1. /\ WriterTypeOK' /\ TableOrder' /\ Log' = Log
  BY DEF TableInv, WriterTypeOK, TableOrder, Log, CloseDb, DbStop
<1>2. ControlInv'
  BY DEF TableInv, ControlInv, CloseDb, DbStop
<1>3. PairInv'
  BY <1>1, LineKeepsPairs DEF TableInv, PairInv, CloseDb, DbStop
<1> QED BY <1>1, <1>2, <1>3 DEF TableInv

\* Without a fault there is nothing left to roll back.
LEMMA DbIsClosedKeepsTable ==
  ASSUME TableInv, DbIsClosed
  PROVE  TableInv'
<1>1. /\ stored \in Seq(Job) /\ open \in Seq(Job) /\ batch \in Seq(Job)
      /\ jobs \in Seq(Job) /\ <<>> \in Seq(Job)
      /\ stored' = stored /\ open' = <<>> /\ batch' = batch /\ jobs' = jobs
      /\ logged' = logged /\ autocommit' = TRUE /\ faults' = faults
      /\ writer = "exited" /\ writer' = writer /\ subject' = subject
      /\ main = "closingDb" /\ main' = "closed"
  BY PartsTyped DEF TableInv, DbIsClosed, DbClosed
<1>2. WriterTypeOK'
  BY <1>1 DEF TableInv, WriterTypeOK, DbIsClosed, DbClosed
<1>3. TableOrder'
  BY <1>1, JobEmptyOrder DEF TableInv, TableOrder
<1>4. ControlInv'
  BY DEF TableInv, ControlInv, DbIsClosed, DbClosed
<1>5. CASE faults = 0
  <2>1. autocommit
    BY <1>1, <1>5 DEF TableInv, PairInv
  <2>2. Log' = Log
    BY <1>1, <2>1 DEF TableInv, WriterTypeOK, Log
  <2>3. PairInv'
    BY <1>1, <1>5, <2>2, LineKeepsPairs DEF TableInv
  <2> QED BY <1>2, <1>3, <1>4, <2>3 DEF TableInv
<1>6. CASE faults # 0
  BY <1>1, <1>2, <1>3, <1>4, <1>6 DEF TableInv, PairInv
<1> QED BY <1>5, <1>6

LEMMA TableInitInv == Init => TableInv
<1> SUFFICES ASSUME Init PROVE TableInv
  OBVIOUS
<1>1. /\ <<>> \in Seq(Job) /\ Len(<<>>) = 0
      /\ stored = <<>> /\ open = <<>> /\ batch = <<>> /\ jobs = <<>>
      /\ logged = 0 /\ faults = 0 /\ main = "loop" /\ writer = "wait"
      /\ autocommit = TRUE /\ dbStop = FALSE
  BY DEF Init, WriterInit
<1>2. WriterTypeOK
  <2>1. 0 \in 0 .. MaxFaults
    BY WriterAssumption
  <2> QED BY <1>1, <2>1 DEF WriterTypeOK
<1>3. ControlInv
  BY <1>1 DEF ControlInv
<1>4. TableOrder
  BY <1>1, JobEmptyOrder DEF TableOrder
<1>5. PairInv
  <2>1. Log = <<>>
    BY <1>1, Associates DEF Log
  <2>2. Paired(<<>>) /\ Touched(<<>>, FALSE)
    BY DEF Paired, Touched
  <2> QED BY <1>1, <2>1, <2>2 DEF PairInv
<1> QED BY <1>2, <1>3, <1>4, <1>5 DEF TableInv

LEMMA TableNextInv == TableInv /\ [Next]_vars => TableInv'
<1> SUFFICES ASSUME TableInv, [Next]_vars PROVE TableInv'
  OBVIOUS
<1>1. ASSUME NEW r \in Residents \cup {Nobody}, Outcome(r)
      PROVE  TableInv'
  BY <1>1, OutcomeKeepsTable
<1>2. CASE FinishOutcome
  BY <1>2, TouchKeepsTable, ElsewhereKeepsTable DEF FinishOutcome, Send
<1>3. CASE Quit
  BY <1>3, ElsewhereKeepsTable DEF Quit
<1>4. CASE Shutdown
  BY <1>4, ElsewhereKeepsTable, CloseDbKeepsTable, DbIsClosedKeepsTable
     DEF Shutdown, EdgeIsClosed
<1>5. CASE Dies
  BY <1>5, DiesKeepsTable
<1>6. CASE Sender
  BY <1>6, ElsewhereKeepsTable DEF Sender
<1>7. CASE Writer
  BY <1>7, TakeBatchKeepsTable, WriterExitsKeepsTable, PrepareFailsKeepsTable,
     BatchBeginsKeepsTable, BatchDroppedKeepsTable, JobRunsKeepsTable,
     JobFailsKeepsTable, CommitsKeepsTable, CommitFailsKeepsTable
     DEF Writer, WriterStep
<1>8. CASE UNCHANGED vars
  BY <1>8, ElsewhereKeepsTable DEF vars
<1> QED BY <1>1, <1>2, <1>3, <1>4, <1>5, <1>6, <1>7, <1>8 DEF Next

\* The jobs that are somewhere are in the order they were queued, and as long
\* as no statement failed none is missing.
THEOREM TableInvariant == Spec => []TableInv
BY TableInitInv, TableNextInv, PTL DEF Spec

\* The table has each job at most once and in order, whatever fails; without a
\* failed statement match_count never runs ahead of the events and is equal to
\* them once the database is closed, when every event logged has its row
\* (resident_db.cpp:536-637, 807-825).
THEOREM TableFollows == Spec => []TableFollowsEvents
BY TableInvariant, TableInvFollows, PTL
=============================================================================
