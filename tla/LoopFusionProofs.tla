-------------------------- MODULE LoopFusionProofs --------------------------
(***************************************************************************)
(* Proofs about LoopFusion for every graph on disk, every number of recent *)
(* keyframes and every interleaving of the callbacks, process(), the       *)
(* optimization and restarts: messages that are paired have one stamp, the *)
(* loops among the frames of an optimization stay inside them, and a       *)
(* sequence that was shifted settles in one frame.                         *)
(*                                                                         *)
(* The first is inductive with the order of the messages: the images wait  *)
(* in a row that ends with the newest, and a pose at or after the first of *)
(* them still has its points.  The second, with earliest_loop_index below  *)
(* every loop in the graph: it is written before the keyframe that made it *)
(* is queued, so what the optimization reads covers the keyframes up to    *)
(* the queued one.  The third, with where what is stale lies: after        *)
(* earliest_loop_index, so that an optimization which is queued after the  *)
(* last shift covers all of it; and with sequence_loop, which lets a       *)
(* sequence be shifted once.                                               *)
(***************************************************************************)
EXTENDS LoopFusion, SequenceTheorems, FiniteSetTheorems, WellFoundedInduction, TLAPS

Increasing(s) == \A i, j \in DOMAIN s : i < j => s[i] < s[j]

In(s, t) == \E i \in DOMAIN s : s[i] = t

UpTo(s, t) == \A i \in DOMAIN s : s[i] <= t

Before(s, r) == \A i \in DOMAIN s, j \in DOMAIN r : s[i] < r[j]

(* The keyframes' messages, in the order they were published in.           *)
Ordered ==
  /\ Increasing(toPose) /\ Increasing(pose_buf) /\ Before(pose_buf, toPose)
  /\ Increasing(toPoint) /\ Increasing(point_buf) /\ Before(point_buf, toPoint)
  /\ UpTo(toPose, newest) /\ UpTo(pose_buf, newest)
  /\ UpTo(toPoint, newest) /\ UpTo(point_buf, newest)

(* The images that wait end with the newest and have no gap.               *)
ImagesInRow ==
  /\ \A i \in DOMAIN image_buf : image_buf[i] = now - Len(image_buf) + i
  /\ last_image_time = None => image_buf = <<>>
  /\ ~up => last_image_time = None

(* A pose that is not before the images has its points, or they are on     *)
(* their way.                                                              *)
PointsThere ==
  \A t \in Nat : /\ In(toPose, t) \/ In(pose_buf, t)
                 /\ t > now - Len(image_buf)
                 => In(toPoint, t) \/ In(point_buf, t)

(* A loop of the keyframe with this index, below which no optimization     *)
(* that is to come starts.                                                 *)
LoopBack(loop, index) ==
  loop # None => /\ loop \in 0 .. index - Recent - 1
                 /\ earliest_loop_index # None /\ earliest_loop_index <= loop

GraphLoops == \A i \in Indices : LoopBack(Kf(i).loop_index, i)

CurrentLoop ==
  /\ pc \in {"shift", "append"} => LoopBack(cur_kf.loop_index, Len(keyframelist))
  /\ pc = "shift" => earliest_loop_index # None
  /\ pc = "detect" => cur_kf.loop_index = None

(* A queued keyframe is in the graph, or about to be appended.             *)
Queued(index) ==
  /\ index \in 0 .. Len(keyframelist)
  /\ index = Len(keyframelist) => pc = "append"

QueueLoops ==
  \A k \in DOMAIN optimize_buf : Queued(optimize_buf[k]) /\ earliest_loop_index # None

(* What the optimization has taken covers the loops of its frames.         *)
TakenLoops ==
  opt.stage = "taken" =>
    /\ Queued(opt.cur) /\ opt.first # None
    /\ \A i \in Indices : i <= opt.cur /\ Kf(i).loop_index # None => opt.first <= Kf(i).loop_index
    /\ opt.cur = Len(keyframelist) /\ cur_kf.loop_index # None => opt.first <= cur_kf.loop_index

SavedLoops == LoopsBack(file)

NothingRuns == ~up => pc = "idle" /\ optimize_buf = <<>> /\ opt.stage = "idle"

NothingToShift == ~up => toShift = {}

StreamInv == Ordered /\ ImagesInRow /\ PointsThere /\ PairsSameStamp
GraphInv  == GraphLoops /\ CurrentLoop /\ QueueLoops /\ TakenLoops /\ SavedLoops /\ NothingRuns
IInv      == TypeOK /\ StreamInv /\ GraphInv /\ NothingToShift

-----------------------------------------------------------------------------
(* Sequences of stamps.                                                    *)

LEMMA TailOfStamps ==
  ASSUME NEW S, NEW s \in Seq(S), s # <<>>
  PROVE  /\ Tail(s) \in Seq(S) /\ Len(Tail(s)) = Len(s) - 1 /\ Head(s) = s[1] /\ 1 \in DOMAIN s
         /\ s[1] \in S
         /\ \A i \in DOMAIN Tail(s) : i + 1 \in DOMAIN s /\ Tail(s)[i] = s[i + 1]
         /\ \A i \in DOMAIN s : i = 1 \/ (i - 1 \in DOMAIN Tail(s) /\ Tail(s)[i - 1] = s[i])
<1>1. Len(s) \in Nat /\ DOMAIN s = 1 .. Len(s) /\ Len(s) > 0
  BY LenProperties, EmptySeq
<1>2. /\ Tail(s) \in Seq(S) /\ Len(Tail(s)) = Len(s) - 1
      /\ \A i \in 1 .. Len(Tail(s)) : Tail(s)[i] = s[i + 1]
  BY HeadTailProperties
<1>3. DOMAIN Tail(s) = 1 .. Len(s) - 1
  BY <1>2, LenProperties
<1>4. Head(s) = s[1]
  BY <1>1
<1>5. s[1] \in S
  BY <1>1, ElementOfSeq
<1>6. \A i \in DOMAIN Tail(s) : i + 1 \in DOMAIN s /\ Tail(s)[i] = s[i + 1]
  BY <1>1, <1>2, <1>3
<1>8. \A i \in DOMAIN s : i = 1 \/ (i - 1 \in DOMAIN Tail(s) /\ Tail(s)[i - 1] = s[i])
  <2> SUFFICES ASSUME NEW i \in DOMAIN s, i # 1
               PROVE  i - 1 \in DOMAIN Tail(s) /\ Tail(s)[i - 1] = s[i]
    OBVIOUS
  <2>1. i - 1 \in DOMAIN Tail(s) /\ (i - 1) + 1 = i
    BY <1>1, <1>3
  <2> QED
    BY <2>1, <1>6
<1>9. 1 \in DOMAIN s
  BY <1>1
<1> QED
  BY <1>2, <1>4, <1>5, <1>6, <1>8, <1>9

LEMMA AppendOfStamps ==
  ASSUME NEW S, NEW s \in Seq(S), NEW t \in S
  PROVE  /\ Append(s, t) \in Seq(S) /\ Len(Append(s, t)) = Len(s) + 1
         /\ Append(s, t)[Len(s) + 1] = t /\ Len(s) + 1 \in DOMAIN Append(s, t)
         /\ \A i \in DOMAIN s : i \in DOMAIN Append(s, t) /\ Append(s, t)[i] = s[i]
         /\ \A i \in DOMAIN Append(s, t) : i \in DOMAIN s \/ i = Len(s) + 1
<1>1. Len(s) \in Nat /\ DOMAIN s = 1 .. Len(s)
  BY LenProperties
<1>2. /\ Append(s, t) \in Seq(S) /\ Len(Append(s, t)) = Len(s) + 1
      /\ \A i \in 1 .. Len(s) : Append(s, t)[i] = s[i]
      /\ Append(s, t)[Len(s) + 1] = t
  BY AppendProperties
<1>3. DOMAIN Append(s, t) = 1 .. Len(s) + 1
  BY <1>2, LenProperties
<1> QED
  BY <1>1, <1>2, <1>3

(* The while loops of process() stop at the message they look for, and     *)
(* taking it leaves the later ones.                                        *)
LEMMA FromFinds ==
  ASSUME NEW s \in Stamps, Increasing(s), NEW m \in DOMAIN s
  PROVE  /\ Head(From(s, s[m])) = s[m]
         /\ Tail(From(s, s[m])) \in Stamps /\ Len(Tail(From(s, s[m]))) = Len(s) - m
         /\ \A i \in DOMAIN Tail(From(s, s[m])) :
              m + i \in DOMAIN s /\ Tail(From(s, s[m]))[i] = s[m + i]
         /\ \A i \in DOMAIN s : i > m => /\ i - m \in DOMAIN Tail(From(s, s[m]))
                                         /\ Tail(From(s, s[m]))[i - m] = s[i]
<1>1. Len(s) \in Nat /\ DOMAIN s = 1 .. Len(s) /\ m \in 1 .. Len(s)
  BY LenProperties DEF Stamps
<1>2. \A i \in DOMAIN s : s[i] \in Nat
  BY ElementOfSeq DEF Stamps
<1> DEFINE P(k) == s[k] >= s[m] /\ \A j \in DOMAIN s : j < k => s[j] < s[m]
<1>3. P(m)
  BY <1>1, <1>2 DEF Increasing
<1>4. \A k \in DOMAIN s : P(k) => k = m
  <2> SUFFICES ASSUME NEW k \in DOMAIN s, P(k), k # m PROVE FALSE
    OBVIOUS
  <2>1. CASE k < m
    <3>1. s[k] < s[m]
      BY <2>1 DEF Increasing
    <3> QED
      BY <3>1, <1>2
  <2>2. CASE m < k
    <3>1. s[m] < s[m]
      BY <2>2
    <3> QED
      BY <3>1, <1>2
  <2> QED
    BY <2>1, <2>2, <1>1
<1>5. (CHOOSE k \in DOMAIN s : P(k)) = m
  <2> HIDE DEF P
  <2> QED
    BY <1>3, <1>4
<1>6. From(s, s[m]) = SubSeq(s, m, Len(s))
  BY <1>5 DEF From
<1> DEFINE r == SubSeq(s, m, Len(s))
<1>7. /\ r \in Seq(Nat) /\ Len(r) = Len(s) - m + 1
      /\ \A i \in 0 .. Len(s) - m : r[i + 1] = s[m + i]
  <2>1. \A i \in m .. Len(s) : s[i] \in Nat
    BY <1>1, <1>2
  <2>2. m \in Int /\ Len(s) \in Int /\ m <= Len(s)
    BY <1>1
  <2>3. /\ SubSeq(s, m, Len(s)) \in Seq(Nat)
        /\ Len(SubSeq(s, m, Len(s))) = IF m <= Len(s) THEN Len(s) - m + 1 ELSE 0
        /\ \A i \in 1 .. Len(s) - m + 1 : SubSeq(s, m, Len(s))[i] = s[m + i - 1]
    BY <2>1, <2>2, SubSeqProperties
  <2>4. ASSUME NEW i \in 0 .. Len(s) - m PROVE r[i + 1] = s[m + i]
    <3>1. i + 1 \in 1 .. Len(s) - m + 1 /\ m + (i + 1) - 1 = m + i
      BY <1>1
    <3>2. r[i + 1] = s[m + (i + 1) - 1]
      BY <3>1, <2>3
    <3> QED
      BY <3>1, <3>2
  <2> QED
    BY <2>2, <2>3, <2>4
<1>8. r # <<>>
  <2>1. Len(r) # 0
    BY <1>7, <1>1
  <2> QED
    BY <2>1, <1>7, EmptySeq
<1> HIDE DEF r
<1>9. /\ Tail(r) \in Seq(Nat) /\ Len(Tail(r)) = Len(r) - 1 /\ Head(r) = r[1]
      /\ \A i \in DOMAIN Tail(r) : i + 1 \in DOMAIN r /\ Tail(r)[i] = r[i + 1]
  BY <1>7, <1>8, TailOfStamps
<1>10. DOMAIN Tail(r) = 1 .. Len(s) - m
  BY <1>7, <1>9, LenProperties
<1>11. Head(r) = s[m]
  <2>1. 0 \in 0 .. Len(s) - m /\ 0 + 1 = 1 /\ m + 0 = m
    BY <1>1
  <2>2. r[0 + 1] = s[m + 0]
    BY <2>1, <1>7
  <2> QED
    BY <2>1, <2>2, <1>9
<1>12. \A i \in DOMAIN Tail(r) : m + i \in DOMAIN s /\ Tail(r)[i] = s[m + i]
  <2> SUFFICES ASSUME NEW i \in 1 .. Len(s) - m PROVE m + i \in DOMAIN s /\ Tail(r)[i] = s[m + i]
    BY <1>10
  <2>1. Tail(r)[i] = r[i + 1]
    BY <1>9, <1>10
  <2>2. i \in 0 .. Len(s) - m /\ m + i \in 1 .. Len(s)
    BY <1>1
  <2>3. r[i + 1] = s[m + i]
    BY <2>2, <1>7
  <2> QED
    BY <1>1, <2>1, <2>2, <2>3
<1>13. \A i \in DOMAIN s : i > m => i - m \in DOMAIN Tail(r) /\ Tail(r)[i - m] = s[i]
  <2> SUFFICES ASSUME NEW i \in DOMAIN s, i > m PROVE i - m \in DOMAIN Tail(r) /\ Tail(r)[i - m] = s[i]
    OBVIOUS
  <2>1. i - m \in DOMAIN Tail(r) /\ m + (i - m) = i
    BY <1>1, <1>10
  <2> QED
    BY <2>1, <1>12
<1> QED
  BY <1>6, <1>7, <1>9, <1>10, <1>11, <1>12, <1>13 DEF r, Stamps
-----------------------------------------------------------------------------
(* The messages.                                                           *)

streamVars == <<stream, image_buf, point_buf, pose_buf, last_image_time, taken, up>>

LEMMA StreamUnchanged == StreamInv /\ UNCHANGED streamVars => StreamInv'
  BY DEF StreamInv, streamVars, stream, Ordered, ImagesInRow, PointsThere, PairsSameStamp, Increasing,
         In, UpTo, Before

StreamType ==
  /\ now \in Nat /\ newest \in 0 .. now
  /\ toPose \in Stamps /\ toPoint \in Stamps
  /\ image_buf \in Stamps /\ point_buf \in Stamps /\ pose_buf \in Stamps
  /\ last_image_time \in {None, now}

(* A message that is handed on stays in order.                             *)
LEMMA HandOver ==
  ASSUME NEW s \in Stamps, NEW r \in Stamps, NEW t \in Nat, s # <<>>,
         Increasing(s), Increasing(r), Before(r, s), UpTo(s, t), UpTo(r, t)
  PROVE  /\ Increasing(Tail(s)) /\ Increasing(Append(r, Head(s))) /\ Before(Append(r, Head(s)), Tail(s))
         /\ UpTo(Tail(s), t) /\ UpTo(Append(r, Head(s)), t)
         /\ Tail(s) \in Stamps /\ Append(r, Head(s)) \in Stamps
         /\ \A u : In(Tail(s), u) \/ In(Append(r, Head(s)), u) <=> In(s, u) \/ In(r, u)
<1> DEFINE q == Tail(s)
           a == Append(r, Head(s))
<1>1. /\ q \in Seq(Nat) /\ Head(s) = s[1] /\ 1 \in DOMAIN s /\ s[1] \in Nat
      /\ \A i \in DOMAIN q : i + 1 \in DOMAIN s /\ q[i] = s[i + 1]
      /\ \A i \in DOMAIN s : i = 1 \/ (i - 1 \in DOMAIN q /\ q[i - 1] = s[i])
  BY TailOfStamps DEF Stamps
<1>2. /\ a \in Seq(Nat) /\ a[Len(r) + 1] = s[1] /\ Len(r) + 1 \in DOMAIN a
      /\ \A i \in DOMAIN r : i \in DOMAIN a /\ a[i] = r[i]
      /\ \A i \in DOMAIN a : i \in DOMAIN r \/ i = Len(r) + 1
  BY <1>1, AppendOfStamps DEF Stamps
<1>3. DOMAIN r = 1 .. Len(r) /\ Len(r) \in Nat /\ DOMAIN q \subseteq Nat \ {0} /\ DOMAIN s \subseteq Nat
  BY <1>1, LenProperties DEF Stamps
<1> HIDE DEF q, a
<1>4. Increasing(q)
  BY <1>1, <1>3 DEF Increasing
<1>5. Increasing(a)
  <2> SUFFICES ASSUME NEW i \in DOMAIN a, NEW j \in DOMAIN a, i < j PROVE a[i] < a[j]
    BY DEF Increasing
  <2>1. i \in DOMAIN r
    BY <1>2, <1>3
  <2>2. CASE j \in DOMAIN r
    BY <2>1, <2>2, <1>2 DEF Increasing
  <2>3. CASE j = Len(r) + 1
    BY <2>1, <2>3, <1>1, <1>2 DEF Before
  <2> QED
    BY <1>2, <2>2, <2>3
<1>6. Before(a, q)
  <2> SUFFICES ASSUME NEW i \in DOMAIN a, NEW j \in DOMAIN q PROVE a[i] < q[j]
    BY DEF Before
  <2>1. j + 1 \in DOMAIN s /\ q[j] = s[j + 1] /\ 1 < j + 1
    BY <1>1, <1>3
  <2>2. CASE i \in DOMAIN r
    BY <2>1, <2>2, <1>2 DEF Before
  <2>3. CASE i = Len(r) + 1
    BY <2>1, <2>3, <1>1, <1>2 DEF Increasing
  <2> QED
    BY <1>2, <2>2, <2>3
<1>7. UpTo(q, t)
  BY <1>1 DEF UpTo
<1>8. UpTo(a, t)
  BY <1>1, <1>2 DEF UpTo
<1>9. \A u : In(q, u) \/ In(a, u) => In(s, u) \/ In(r, u)
  <2>1. ASSUME NEW u, In(q, u) PROVE In(s, u)
    BY <2>1, <1>1 DEF In
  <2>2. ASSUME NEW u, In(a, u) PROVE In(s, u) \/ In(r, u)
    <3>1. PICK i \in DOMAIN a : a[i] = u
      BY <2>2 DEF In
    <3>2. CASE i \in DOMAIN r
      BY <3>1, <3>2, <1>2 DEF In
    <3>3. CASE i = Len(r) + 1
      BY <3>1, <3>3, <1>1, <1>2 DEF In
    <3> QED
      BY <3>2, <3>3, <1>2
  <2> QED
    BY <2>1, <2>2
<1>10. \A u : In(s, u) \/ In(r, u) => In(q, u) \/ In(a, u)
  <2>1. ASSUME NEW u, In(r, u) PROVE In(a, u)
    BY <2>1, <1>2 DEF In
  <2>2. ASSUME NEW u, In(s, u) PROVE In(q, u) \/ In(a, u)
    <3>1. PICK i \in DOMAIN s : s[i] = u
      BY <2>2 DEF In
    <3>2. CASE i = 1
      BY <3>1, <3>2, <1>2 DEF In
    <3>3. CASE i - 1 \in DOMAIN q /\ q[i - 1] = s[i]
      BY <3>1, <3>3 DEF In
    <3> QED
      BY <3>2, <3>3, <1>1
  <2> QED
    BY <2>1, <2>2
<1> QED
  BY <1>1, <1>2, <1>4, <1>5, <1>6, <1>7, <1>8, <1>9, <1>10 DEF q, a, Stamps

(* Throwing the first message away keeps the order of the others.          *)
LEMMA ThrowFirst ==
  ASSUME NEW s \in Stamps, NEW r, NEW t, s # <<>>,
         Increasing(s), Before(s, r), UpTo(s, t)
  PROVE  /\ Increasing(Tail(s)) /\ Before(Tail(s), r) /\ UpTo(Tail(s), t) /\ Tail(s) \in Stamps
         /\ \A u : In(Tail(s), u) => In(s, u)
         /\ \A u : In(s, u) => u = Head(s) \/ In(Tail(s), u)
<1> DEFINE q == Tail(s)
<1>1. /\ q \in Seq(Nat) /\ Head(s) = s[1] /\ 1 \in DOMAIN s /\ s[1] \in Nat
      /\ \A i \in DOMAIN q : i + 1 \in DOMAIN s /\ q[i] = s[i + 1]
      /\ \A i \in DOMAIN s : i = 1 \/ (i - 1 \in DOMAIN q /\ q[i - 1] = s[i])
  BY TailOfStamps DEF Stamps
<1>2. DOMAIN q \subseteq Nat
  BY <1>1, LenProperties
<1> HIDE DEF q
<1>3. Increasing(q)
  BY <1>1, <1>2 DEF Increasing
<1>4. Before(q, r)
  BY <1>1 DEF Before
<1>5. UpTo(q, t)
  BY <1>1 DEF UpTo
<1>6. \A u : In(q, u) => In(s, u)
  BY <1>1 DEF In
<1>7. ASSUME NEW u, In(s, u) PROVE u = Head(s) \/ In(q, u)
  <2>1. PICK i \in DOMAIN s : s[i] = u
    BY <1>7 DEF In
  <2> QED
    BY <2>1, <1>1 DEF In
<1> QED
  BY <1>1, <1>3, <1>4, <1>5, <1>6, <1>7 DEF q, Stamps

(* A message newer than all others goes to the end.                        *)
LEMMA AppendNewest ==
  ASSUME NEW s \in Stamps, NEW r, NEW t \in Nat, NEW u \in Nat, t < u,
         Increasing(s), Before(r, s), UpTo(s, t), UpTo(r, t), \A i \in DOMAIN r : r[i] \in Nat
  PROVE  /\ Increasing(Append(s, u)) /\ Before(r, Append(s, u)) /\ UpTo(Append(s, u), u) /\ UpTo(r, u)
         /\ Append(s, u) \in Stamps
         /\ In(Append(s, u), u)
         /\ \A v : In(s, v) => In(Append(s, u), v)
         /\ \A v : In(Append(s, u), v) => v = u \/ In(s, v)
<1> DEFINE a == Append(s, u)
<1>1. /\ a \in Seq(Nat) /\ a[Len(s) + 1] = u /\ Len(s) + 1 \in DOMAIN a
      /\ \A i \in DOMAIN s : i \in DOMAIN a /\ a[i] = s[i]
      /\ \A i \in DOMAIN a : i \in DOMAIN s \/ i = Len(s) + 1
  BY AppendOfStamps DEF Stamps
<1>2. DOMAIN s = 1 .. Len(s) /\ Len(s) \in Nat /\ \A i \in DOMAIN s : s[i] \in Nat
  BY LenProperties, ElementOfSeq DEF Stamps
<1> HIDE DEF a
<1>3. Increasing(a)
  <2> SUFFICES ASSUME NEW i \in DOMAIN a, NEW j \in DOMAIN a, i < j PROVE a[i] < a[j]
    BY DEF Increasing
  <2>1. i \in DOMAIN s
    BY <1>1, <1>2
  <2>2. CASE j \in DOMAIN s
    BY <2>1, <2>2, <1>1 DEF Increasing
  <2>3. CASE j = Len(s) + 1
    BY <2>1, <2>3, <1>1, <1>2 DEF UpTo
  <2> QED
    BY <1>1, <2>2, <2>3
<1>4. Before(r, a)
  <2> SUFFICES ASSUME NEW i \in DOMAIN r, NEW j \in DOMAIN a PROVE r[i] < a[j]
    BY DEF Before
  <2>1. CASE j \in DOMAIN s
    BY <2>1, <1>1 DEF Before
  <2>2. CASE j = Len(s) + 1
    BY <2>2, <1>1 DEF UpTo
  <2> QED
    BY <1>1, <2>1, <2>2
<1>5. UpTo(a, u) /\ UpTo(r, u)
  BY <1>1, <1>2 DEF UpTo
<1>6. In(a, u) /\ \A v : In(s, v) => In(a, v)
  BY <1>1 DEF In
<1>7. ASSUME NEW v, In(a, v) PROVE v = u \/ In(s, v)
  <2>1. PICK i \in DOMAIN a : a[i] = v
    BY <1>7 DEF In
  <2> QED
    BY <2>1, <1>1 DEF In
<1> QED
  BY <1>1, <1>3, <1>4, <1>5, <1>6, <1>7 DEF a, Stamps

LEMMA StampsTyped ==
  \A s \in Stamps : Len(s) \in Nat /\ DOMAIN s = 1 .. Len(s) /\ \A i \in DOMAIN s : s[i] \in Nat
  BY LenProperties, ElementOfSeq DEF Stamps

LEMMA EmptyStamps == <<>> \in Stamps /\ Len(<<>>) = 0 /\ DOMAIN <<>> = {}
<1>1. <<>> \in Seq(Nat) /\ Len(<<>>) = 0
  BY EmptySeq
<1>2. DOMAIN <<>> = 1 .. 0
  BY <1>1, LenProperties
<1> QED
  BY <1>1, <1>2 DEF Stamps

LEMMA EmptyIsOrdered ==
  /\ Increasing(<<>>)
  /\ \A s : Before(<<>>, s) /\ Before(s, <<>>)
  /\ \A t : UpTo(<<>>, t) /\ ~In(<<>>, t)
  BY EmptyStamps DEF Increasing, Before, UpTo, In

LEMMA PubKeyframeKeeps == TypeOK /\ StreamInv /\ PubKeyframe => StreamInv'
<1> SUFFICES ASSUME TypeOK, StreamInv,
                    NEW t \in newest + 1 .. now, newest' = t,
                    toPose' = Append(toPose, t), toPoint' = Append(toPoint, t),
                    UNCHANGED <<now, buffers, sequence, process, graph, drift, optimize_buf, opt, node>>
             PROVE  StreamInv'
  BY DEF PubKeyframe
<1>1. /\ now \in Nat /\ newest \in Nat /\ newest < t /\ t \in Nat
      /\ toPose \in Stamps /\ toPoint \in Stamps /\ pose_buf \in Stamps /\ point_buf \in Stamps
  BY DEF TypeOK
<1>2. UNCHANGED <<now, image_buf, point_buf, pose_buf, last_image_time, taken, up>>
  BY DEF buffers, process, node
<1>3. /\ \A i \in DOMAIN pose_buf : pose_buf[i] \in Nat
      /\ \A i \in DOMAIN point_buf : point_buf[i] \in Nat
  BY <1>1, StampsTyped
<1>4. /\ Increasing(toPose) /\ Increasing(pose_buf) /\ Before(pose_buf, toPose)
      /\ Increasing(toPoint) /\ Increasing(point_buf) /\ Before(point_buf, toPoint)
      /\ UpTo(toPose, newest) /\ UpTo(pose_buf, newest)
      /\ UpTo(toPoint, newest) /\ UpTo(point_buf, newest)
  BY DEF StreamInv, Ordered
<1>5. /\ Increasing(Append(toPose, t)) /\ Before(pose_buf, Append(toPose, t))
      /\ UpTo(Append(toPose, t), t) /\ UpTo(pose_buf, t)
      /\ \A v : In(Append(toPose, t), v) => v = t \/ In(toPose, v)
  BY <1>1, <1>3, <1>4, AppendNewest
<1>6. /\ Increasing(Append(toPoint, t)) /\ Before(point_buf, Append(toPoint, t))
      /\ UpTo(Append(toPoint, t), t) /\ UpTo(point_buf, t)
      /\ In(Append(toPoint, t), t) /\ \A v : In(toPoint, v) => In(Append(toPoint, t), v)
  BY <1>1, <1>3, <1>4, AppendNewest
<1>7. Ordered'
  BY <1>2, <1>4, <1>5, <1>6 DEF Ordered, Increasing, Before, UpTo
<1>8. ImagesInRow' /\ PairsSameStamp'
  BY <1>2 DEF StreamInv, ImagesInRow, PairsSameStamp
<1>9. PointsThere'
  BY <1>2, <1>5, <1>6 DEF StreamInv, PointsThere, In
<1> QED
  BY <1>7, <1>8, <1>9 DEF StreamInv

LEMMA PoseCallbackKeeps == TypeOK /\ StreamInv /\ PoseCallback => StreamInv'
<1> SUFFICES ASSUME TypeOK, StreamInv, PoseCallback PROVE StreamInv'
  OBVIOUS
<1>1. /\ newest \in Nat /\ toPose \in Stamps /\ pose_buf \in Stamps /\ toPose # <<>>
      /\ toPose' = Tail(toPose) /\ pose_buf' = Append(pose_buf, Head(toPose))
  BY DEF TypeOK, PoseCallback
<1>2. UNCHANGED <<now, toPoint, newest, image_buf, point_buf, last_image_time, taken, up>>
  BY DEF PoseCallback, process, node
<1>3. /\ Increasing(toPose) /\ Increasing(pose_buf) /\ Before(pose_buf, toPose)
      /\ UpTo(toPose, newest) /\ UpTo(pose_buf, newest)
  BY DEF StreamInv, Ordered
<1>4. /\ Increasing(toPose') /\ Increasing(pose_buf') /\ Before(pose_buf', toPose')
      /\ UpTo(toPose', newest) /\ UpTo(pose_buf', newest)
      /\ \A u : In(toPose', u) \/ In(pose_buf', u) <=> In(toPose, u) \/ In(pose_buf, u)
  BY <1>1, <1>3, HandOver
<1>5. Ordered'
  BY <1>2, <1>4 DEF StreamInv, Ordered, Increasing, Before, UpTo
<1>6. ImagesInRow' /\ PairsSameStamp'
  BY <1>2 DEF StreamInv, ImagesInRow, PairsSameStamp
<1>7. PointsThere'
  BY <1>2, <1>4 DEF StreamInv, PointsThere, In
<1> QED
  BY <1>5, <1>6, <1>7 DEF StreamInv

LEMMA PointCallbackKeeps == TypeOK /\ StreamInv /\ PointCallback => StreamInv'
<1> SUFFICES ASSUME TypeOK, StreamInv, PointCallback PROVE StreamInv'
  OBVIOUS
<1>1. /\ newest \in Nat /\ toPoint \in Stamps /\ point_buf \in Stamps /\ toPoint # <<>>
      /\ toPoint' = Tail(toPoint) /\ point_buf' = Append(point_buf, Head(toPoint))
  BY DEF TypeOK, PointCallback
<1>2. UNCHANGED <<now, toPose, newest, image_buf, pose_buf, last_image_time, taken, up>>
  BY DEF PointCallback, process, node
<1>3. /\ Increasing(toPoint) /\ Increasing(point_buf) /\ Before(point_buf, toPoint)
      /\ UpTo(toPoint, newest) /\ UpTo(point_buf, newest)
  BY DEF StreamInv, Ordered
<1>4. /\ Increasing(toPoint') /\ Increasing(point_buf') /\ Before(point_buf', toPoint')
      /\ UpTo(toPoint', newest) /\ UpTo(point_buf', newest)
      /\ \A u : In(toPoint', u) \/ In(point_buf', u) <=> In(toPoint, u) \/ In(point_buf, u)
  BY <1>1, <1>3, HandOver
<1>5. Ordered'
  BY <1>2, <1>4 DEF StreamInv, Ordered, Increasing, Before, UpTo
<1>6. ImagesInRow' /\ PairsSameStamp'
  BY <1>2 DEF StreamInv, ImagesInRow, PairsSameStamp
<1>7. PointsThere'
  BY <1>2, <1>4 DEF StreamInv, PointsThere, In
<1> QED
  BY <1>5, <1>6, <1>7 DEF StreamInv

(* Stamps jump to the next one, or begin a new sequence.                   *)
LEMMA ImageCallbackKeeps == TypeOK /\ StreamInv /\ ImageCallback => StreamInv'
<1> SUFFICES ASSUME TypeOK, StreamInv, ImageCallback PROVE StreamInv'
  OBVIOUS
<1>1. PICK t \in now + 1 .. now + 2 :
        /\ now' = t
        /\ IF ~up THEN UNCHANGED <<buffers, sequence>>
           ELSE /\ last_image_time' = t
                /\ IF Discontinued(t) THEN NewSequence
                   ELSE image_buf' = Append(image_buf, t) /\ UNCHANGED <<point_buf, pose_buf, sequence>>
  BY DEF ImageCallback
<1>2. UNCHANGED <<toPose, toPoint, newest, taken, up>>
  BY DEF ImageCallback, process, node
<1>3. /\ now \in Nat /\ t \in Nat /\ now < t /\ newest \in Nat /\ newest <= now
      /\ image_buf \in Stamps /\ last_image_time \in {None, now}
  BY DEF TypeOK
<1>4. Ordered /\ PointsThere /\ ImagesInRow /\ PairsSameStamp
  BY DEF StreamInv
<1>5. PairsSameStamp'
  BY <1>2, <1>4 DEF PairsSameStamp
<1>6. \A u \in Nat : In(toPose, u) \/ In(pose_buf, u) => u <= now
  BY <1>3, <1>4 DEF Ordered, UpTo, In
<1>7. CASE ~up
  <2>1. UNCHANGED <<image_buf, point_buf, pose_buf, last_image_time>>
    BY <1>1, <1>7 DEF buffers
  <2>2. image_buf = <<>> /\ last_image_time = None
    BY <1>4, <1>7 DEF ImagesInRow
  <2>3. Ordered'
    BY <1>2, <1>4, <2>1 DEF Ordered, Increasing, Before, UpTo
  <2>4. ImagesInRow'
    BY <1>2, <2>1, <2>2, EmptyStamps DEF ImagesInRow
  <2>5. PointsThere'
    <3>1. \A u \in Nat : In(toPose, u) \/ In(pose_buf, u) => ~(u > t - 0)
      BY <1>3, <1>6
    <3> QED
      BY <1>1, <1>2, <2>1, <2>2, <3>1, EmptyStamps DEF PointsThere, In
  <2> QED
    BY <1>5, <2>3, <2>4, <2>5 DEF StreamInv
<1>8. CASE up /\ Discontinued(t)
  <2>1. image_buf' = <<>> /\ point_buf' = <<>> /\ pose_buf' = <<>> /\ last_image_time' = t
    BY <1>1, <1>8 DEF NewSequence
  <2>2. Ordered'
    BY <1>2, <1>4, <2>1, EmptyIsOrdered DEF Ordered, Increasing, Before, UpTo
  <2>3. ImagesInRow'
    BY <1>2, <1>3, <1>8, <2>1, EmptyStamps DEF ImagesInRow, None
  <2>4. PointsThere'
    <3>1. \A u \in Nat : In(toPose, u) => ~(u > t - 0)
      BY <1>3, <1>6
    <3>2. \A u : In(toPose', u) \/ In(pose_buf', u) => In(toPose, u)
      BY <1>2, <2>1, EmptyIsOrdered DEF In
    <3> QED
      BY <1>1, <2>1, <3>1, <3>2, EmptyStamps DEF PointsThere
  <2> QED
    BY <1>5, <2>2, <2>3, <2>4 DEF StreamInv
<1>9. CASE up /\ ~Discontinued(t)
  <2>1. image_buf' = Append(image_buf, t) /\ UNCHANGED <<point_buf, pose_buf>> /\ last_image_time' = t
    BY <1>1, <1>9
  <2>2. Ordered'
    BY <1>2, <1>4, <2>1 DEF Ordered, Increasing, Before, UpTo
  <2>3. last_image_time # None => t = now + 1
    BY <1>3, <1>9 DEF Discontinued, None
  <2>4. /\ Len(image_buf) \in Nat /\ DOMAIN image_buf = 1 .. Len(image_buf)
        /\ Len(image_buf') = Len(image_buf) + 1
        /\ image_buf'[Len(image_buf) + 1] = t
        /\ \A i \in DOMAIN image_buf : image_buf'[i] = image_buf[i]
        /\ \A i \in DOMAIN image_buf' : i \in DOMAIN image_buf \/ i = Len(image_buf) + 1
    BY <1>3, <2>1, AppendOfStamps, StampsTyped DEF Stamps
  <2>5. last_image_time = None => DOMAIN image_buf = {} /\ Len(image_buf) = 0
    BY <1>4, EmptyStamps DEF ImagesInRow
  <2>6. \A i \in DOMAIN image_buf' : image_buf'[i] = t - Len(image_buf') + i
    <3> SUFFICES ASSUME NEW i \in DOMAIN image_buf' PROVE image_buf'[i] = t - (Len(image_buf) + 1) + i
      BY <2>4
    <3>1. CASE i \in DOMAIN image_buf
      <4>1. t = now + 1 /\ image_buf'[i] = now - Len(image_buf) + i /\ i \in Nat
        BY <1>4, <2>3, <2>4, <2>5, <3>1 DEF ImagesInRow
      <4> QED
        BY <4>1, <1>3, <2>4
    <3>2. CASE i = Len(image_buf) + 1
      BY <1>3, <2>4, <3>2
    <3> QED
      BY <2>4, <3>1, <3>2
  <2>7. ImagesInRow'
    BY <1>1, <1>2, <1>3, <1>9, <2>1, <2>6 DEF ImagesInRow, None
  <2>8. PointsThere'
    <3>1. \A u \in Nat : u > t - (Len(image_buf) + 1) => u > now - Len(image_buf) \/ u > now
      BY <1>3, <2>3, <2>4, <2>5
    <3>2. \A u \in Nat : /\ In(toPose, u) \/ In(pose_buf, u)
                         /\ u > t - (Len(image_buf) + 1)
                         => In(toPoint, u) \/ In(point_buf, u)
      BY <1>3, <1>4, <1>6, <3>1 DEF PointsThere
    <3> QED
      BY <1>1, <1>2, <2>1, <2>4, <3>2 DEF PointsThere, In
  <2> QED
    BY <1>5, <2>2, <2>7, <2>8 DEF StreamInv
<1> QED
  BY <1>7, <1>8, <1>9

LEMMA EmptiedKeeps ==
  ASSUME TypeOK, StreamInv,
         image_buf' = <<>>, point_buf' = <<>>, pose_buf' = <<>>,
         \/ toPose' = toPose /\ toPoint' = toPoint
         \/ toPose' = <<>> /\ toPoint' = <<>>,
         UNCHANGED <<now, newest>>,
         UNCHANGED <<last_image_time, up>> \/ last_image_time' = None,
         taken' = taken \/ taken' = NoMessages
  PROVE  StreamInv'
<1>1. now \in Nat /\ newest \in Nat /\ newest <= now
  BY DEF TypeOK
<1>2. Ordered'
  <2>1. CASE toPose' = toPose /\ toPoint' = toPoint
    BY <2>1, EmptyIsOrdered DEF StreamInv, Ordered, Increasing, Before, UpTo
  <2>2. CASE toPose' = <<>> /\ toPoint' = <<>>
    BY <2>2, EmptyIsOrdered DEF StreamInv, Ordered, Increasing, Before, UpTo
  <2> QED
    BY <2>1, <2>2
<1>3. ImagesInRow'
  BY EmptyStamps DEF StreamInv, ImagesInRow
<1>4. PointsThere'
  <2>1. \A u \in Nat : In(toPose, u) => ~(u > now - 0)
    BY <1>1 DEF StreamInv, Ordered, UpTo, In
  <2>2. \A u : In(toPose', u) \/ In(pose_buf', u) => In(toPose, u)
    BY EmptyIsOrdered DEF In
  <2> QED
    BY <2>1, <2>2, EmptyStamps DEF PointsThere
<1>5. PairsSameStamp'
  BY DEF StreamInv, PairsSameStamp, NoMessages
<1> QED
  BY <1>2, <1>3, <1>4, <1>5 DEF StreamInv

LEMMA DieKeeps == TypeOK /\ StreamInv /\ Die => StreamInv'
  BY EmptiedKeeps DEF Die

LEMMA CommandNewKeeps == TypeOK /\ StreamInv /\ CommandNew => StreamInv'
<1> SUFFICES ASSUME TypeOK, StreamInv, CommandNew PROVE StreamInv'
  OBVIOUS
<1>1. image_buf' = <<>> /\ point_buf' = <<>> /\ pose_buf' = <<>>
  BY DEF CommandNew, NewSequence
<1>2. /\ toPose' = toPose /\ toPoint' = toPoint /\ taken' = taken
      /\ UNCHANGED <<now, newest>> /\ UNCHANGED <<last_image_time, up>>
  BY DEF CommandNew, stream, process, node
<1> QED
  BY <1>1, <1>2, EmptiedKeeps

LEMMA ThrowPoseKeeps == TypeOK /\ StreamInv /\ ThrowPose => StreamInv'
<1> SUFFICES ASSUME TypeOK, StreamInv, ThrowPose PROVE StreamInv'
  OBVIOUS
<1>1. pose_buf \in Stamps /\ pose_buf # <<>> /\ pose_buf' = Tail(pose_buf)
  BY DEF TypeOK, ThrowPose, Buffered
<1>2. UNCHANGED <<now, toPose, toPoint, newest, image_buf, point_buf, last_image_time, taken, up>>
  BY DEF ThrowPose, process, node, stream
<1>3. Increasing(pose_buf) /\ Before(pose_buf, toPose) /\ UpTo(pose_buf, newest)
  BY DEF StreamInv, Ordered
<1>4. /\ Increasing(pose_buf') /\ Before(pose_buf', toPose) /\ UpTo(pose_buf', newest)
      /\ \A u : In(pose_buf', u) => In(pose_buf, u)
  BY <1>1, <1>3, ThrowFirst
<1>5. Ordered'
  BY <1>2, <1>4 DEF StreamInv, Ordered, Increasing, Before, UpTo
<1>6. ImagesInRow' /\ PairsSameStamp'
  BY <1>2 DEF StreamInv, ImagesInRow, PairsSameStamp
<1>7. PointsThere'
  BY <1>2, <1>4 DEF StreamInv, PointsThere, In
<1> QED
  BY <1>5, <1>6, <1>7 DEF StreamInv

(* What is thrown is before every image, and so before every pose that     *)
(* still counts.                                                           *)
LEMMA ThrowPointKeeps == TypeOK /\ StreamInv /\ ThrowPoint => StreamInv'
<1> SUFFICES ASSUME TypeOK, StreamInv, ThrowPoint PROVE StreamInv'
  OBVIOUS
<1>1. /\ point_buf \in Stamps /\ point_buf # <<>> /\ point_buf' = Tail(point_buf)
      /\ image_buf \in Stamps /\ image_buf # <<>> /\ Head(image_buf) > Head(point_buf)
      /\ now \in Nat
  BY DEF TypeOK, ThrowPoint, Buffered, Front
<1>2. UNCHANGED <<now, toPose, toPoint, newest, image_buf, pose_buf, last_image_time, taken, up>>
  BY DEF ThrowPoint, process, node, stream
<1>3. Increasing(point_buf) /\ Before(point_buf, toPoint) /\ UpTo(point_buf, newest)
  BY DEF StreamInv, Ordered
<1>4. /\ Increasing(point_buf') /\ Before(point_buf', toPoint) /\ UpTo(point_buf', newest)
      /\ \A u : In(point_buf, u) => u = Head(point_buf) \/ In(point_buf', u)
  BY <1>1, <1>3, ThrowFirst
<1>5. Ordered'
  BY <1>2, <1>4 DEF StreamInv, Ordered, Increasing, Before, UpTo
<1>6. ImagesInRow' /\ PairsSameStamp'
  BY <1>2 DEF StreamInv, ImagesInRow, PairsSameStamp
<1>7. /\ Head(image_buf) = now - Len(image_buf) + 1 /\ Head(point_buf) \in Nat
      /\ Len(image_buf) \in Nat
  BY <1>1, TailOfStamps, StampsTyped DEF Stamps, StreamInv, ImagesInRow
<1>8. \A u \in Nat : u > now - Len(image_buf) => u # Head(point_buf)
  BY <1>1, <1>7
<1>9. PointsThere'
  BY <1>2, <1>4, <1>8 DEF StreamInv, PointsThere, In
<1> QED
  BY <1>5, <1>6, <1>9 DEF StreamInv

(* The images have no gap, so the pose's is among them; its points are     *)
(* there, since they would otherwise still be behind the newest points.    *)
LEMMA PairKeeps ==
  ASSUME TypeOK, StreamInv, Pair
  PROVE  /\ StreamInv'
         /\ image_buf' \in Stamps /\ point_buf' \in Stamps /\ pose_buf' \in Stamps
         /\ taken' \in [image : Nat, pose : Nat, point : Nat]
<1> DEFINE p == Head(pose_buf)
           images == From(image_buf, p)
           points == From(point_buf, p)
           n == Len(image_buf)
<1>1. /\ image_buf # <<>> /\ point_buf # <<>> /\ pose_buf # <<>>
      /\ Head(image_buf) <= p
      /\ image_buf[Len(image_buf)] >= p /\ point_buf[Len(point_buf)] >= p
  BY DEF Pair, Buffered, Front, Back
<1>2. /\ taken' = [image |-> Head(images), pose |-> p, point |-> Head(points)]
      /\ image_buf' = Tail(images) /\ point_buf' = Tail(points) /\ pose_buf' = <<>>
      /\ UNCHANGED <<now, toPose, toPoint, newest, last_image_time, up>>
  BY DEF Pair, Front, stream, node
<1>3. /\ now \in Nat /\ newest \in Nat /\ newest <= now
      /\ image_buf \in Stamps /\ point_buf \in Stamps /\ pose_buf \in Stamps
  BY DEF TypeOK
<1>4. Ordered /\ ImagesInRow /\ PointsThere
  BY DEF StreamInv
<1>5. /\ p = pose_buf[1] /\ 1 \in DOMAIN pose_buf /\ p \in Nat
      /\ Head(image_buf) = image_buf[1] /\ 1 \in DOMAIN image_buf
  BY <1>1, <1>3, TailOfStamps DEF Stamps
<1>6. /\ n \in Nat /\ DOMAIN image_buf = 1 .. n /\ n >= 1
      /\ Len(point_buf) \in Nat /\ DOMAIN point_buf = 1 .. Len(point_buf)
      /\ \A i \in DOMAIN point_buf : point_buf[i] \in Nat
  BY <1>3, <1>5, StampsTyped
<1>7. /\ Increasing(point_buf) /\ Before(point_buf, toPoint) /\ UpTo(point_buf, newest)
      /\ UpTo(pose_buf, newest) /\ Before(pose_buf, toPose)
  BY <1>4 DEF Ordered
<1>8. \A i \in DOMAIN image_buf : image_buf[i] = now - n + i
  BY <1>4 DEF ImagesInRow
<1>9. p <= now /\ p > now - n
  <2>1. p <= newest
    BY <1>5, <1>7 DEF UpTo
  <2>2. image_buf[1] = now - n + 1
    BY <1>5, <1>8
  <2> QED
    BY <1>1, <1>3, <1>5, <1>6, <2>1, <2>2
<1>10. Increasing(image_buf)
  BY <1>3, <1>6, <1>8 DEF Increasing
<1>11. PICK m \in DOMAIN image_buf : image_buf[m] = p /\ m = p - (now - n)
  <2>1. p - (now - n) \in 1 .. n /\ now - n + (p - (now - n)) = p
    BY <1>3, <1>5, <1>6, <1>9
  <2> QED
    BY <1>6, <1>8, <2>1
<1>12. /\ Head(images) = p
       /\ image_buf' \in Stamps /\ Len(image_buf') = n - m
       /\ \A i \in DOMAIN image_buf' : m + i \in DOMAIN image_buf /\ image_buf'[i] = image_buf[m + i]
  BY <1>2, <1>3, <1>10, <1>11, FromFinds
<1>13. PICK k \in DOMAIN point_buf : point_buf[k] = p
  <2>1. In(pose_buf, p)
    BY <1>5 DEF In
  <2>2. In(toPoint, p) \/ In(point_buf, p)
    BY <1>4, <1>5, <1>9, <2>1 DEF PointsThere
  <2>3. Len(point_buf) \in DOMAIN point_buf
    <3>1. 1 \in DOMAIN point_buf
      BY <1>1, <1>3, TailOfStamps DEF Stamps
    <3> QED
      BY <3>1, <1>6
  <2>4. ~In(toPoint, p)
    <3> SUFFICES ASSUME NEW j \in DOMAIN toPoint, toPoint[j] = p PROVE FALSE
      BY DEF In
    <3>1. point_buf[Len(point_buf)] < p
      BY <2>3, <1>7 DEF Before
    <3> QED
      BY <3>1, <1>1, <1>5, <1>6, <2>3
  <2> QED
    BY <2>2, <2>4 DEF In
<1>14. /\ Head(points) = p
       /\ point_buf' \in Stamps
       /\ \A i \in DOMAIN point_buf' : k + i \in DOMAIN point_buf /\ point_buf'[i] = point_buf[k + i]
       /\ \A i \in DOMAIN point_buf : i > k => /\ i - k \in DOMAIN point_buf'
                                               /\ point_buf'[i - k] = point_buf[i]
  BY <1>2, <1>3, <1>7, <1>13, FromFinds
<1> HIDE DEF images, points, p, n
<1>15. PairsSameStamp'
  BY <1>2, <1>12, <1>14 DEF PairsSameStamp
<1>16. DOMAIN point_buf' \subseteq Nat /\ DOMAIN image_buf' \subseteq Nat
  BY <1>12, <1>14, StampsTyped
<1>17. Ordered'
  <2>1. Increasing(point_buf')
    BY <1>6, <1>7, <1>14, <1>16 DEF Increasing
  <2>2. Before(point_buf', toPoint) /\ UpTo(point_buf', newest)
    BY <1>7, <1>14 DEF Before, UpTo
  <2>3. Increasing(pose_buf') /\ Before(pose_buf', toPose) /\ UpTo(pose_buf', newest)
    BY <1>2, EmptyIsOrdered
  <2> QED
    BY <1>2, <1>4, <2>1, <2>2, <2>3 DEF Ordered, Increasing, Before, UpTo
<1>18. ImagesInRow'
  <2>1. ASSUME NEW i \in DOMAIN image_buf' PROVE image_buf'[i] = now - (n - m) + i
    <3>1. image_buf'[i] = now - n + (m + i)
      BY <1>8, <1>12
    <3> QED
      BY <3>1, <1>3, <1>6, <1>11, <1>16
  <2>2. last_image_time # None /\ up
    BY <1>1, <1>4 DEF ImagesInRow
  <2> QED
    BY <1>2, <1>12, <2>1, <2>2 DEF ImagesInRow
<1>19. PointsThere'
  <2> SUFFICES ASSUME NEW u \in Nat, In(toPose, u), u > now - (n - m)
               PROVE  In(toPoint, u) \/ In(point_buf', u)
    <3>1. \A u : ~In(pose_buf', u)
      BY <1>2, EmptyIsOrdered
    <3> QED
      BY <1>2, <1>12, <3>1 DEF PointsThere, In
  <2>1. u > now - n
    BY <1>3, <1>6, <1>11
  <2>2. In(toPoint, u) \/ In(point_buf, u)
    BY <1>4, <2>1 DEF PointsThere, n
  <2>3. p < u
    BY <1>5, <1>7 DEF Before, In
  <2>4. ASSUME NEW i \in DOMAIN point_buf, point_buf[i] = u PROVE In(point_buf', u)
    <3>1. i > k
      <4>1. ~(i < k)
        <5>1. i < k => u < p
          BY <1>7, <1>13, <2>4 DEF Increasing
        <5> QED
          BY <5>1, <2>3, <1>5
      <4>2. i # k
        BY <1>13, <2>3, <2>4, <1>5
      <4> QED
        BY <4>1, <4>2, <1>6
    <3> QED
      BY <3>1, <1>14, <2>4 DEF In
  <2> QED
    BY <2>2, <2>4 DEF In
<1>20. taken' \in [image : Nat, pose : Nat, point : Nat]
  BY <1>2, <1>5, <1>12, <1>14
<1>21. pose_buf' \in Stamps
  BY <1>2, EmptyStamps
<1> QED
  BY <1>12, <1>14, <1>15, <1>17, <1>18, <1>19, <1>20, <1>21 DEF StreamInv

LEMMA InitStream == Init => StreamInv
<1> SUFFICES ASSUME Init PROVE StreamInv
  OBVIOUS
<1>1. /\ now = 0 /\ toPose = <<>> /\ toPoint = <<>> /\ newest = 0
      /\ image_buf = <<>> /\ point_buf = <<>> /\ pose_buf = <<>> /\ last_image_time = None
      /\ taken = NoMessages
  BY DEF Init
<1>2. Ordered
  BY <1>1, EmptyIsOrdered DEF Ordered
<1>3. ImagesInRow
  BY <1>1, EmptyStamps DEF ImagesInRow
<1>4. PointsThere
  BY <1>1, EmptyIsOrdered DEF PointsThere
<1>5. PairsSameStamp
  BY <1>1 DEF PairsSameStamp, NoMessages
<1> QED
  BY <1>2, <1>3, <1>4, <1>5 DEF StreamInv

LEMMA StreamKeeps == TypeOK /\ StreamInv /\ [Next]_vars => StreamInv'
<1> SUFFICES ASSUME TypeOK, StreamInv, [Next]_vars PROVE StreamInv'
  OBVIOUS
<1>1. CASE Build \/ NoLoop \/ Loop \/ Shift \/ PushOptimize \/ AppendKeyframe
  <2>1. UNCHANGED streamVars
    BY <1>1 DEF Build, NoLoop, Loop, Shift, PushOptimize, AppendKeyframe, streamVars, stream, buffers,
                node
  <2> QED
    BY <2>1, StreamUnchanged
<1>2. CASE Take \/ Collect \/ Apply \/ Restart \/ UNCHANGED vars
  <2>1. CASE Take \/ Collect \/ Apply \/ UNCHANGED vars
    <3>1. UNCHANGED streamVars
      BY <2>1 DEF Take, Collect, Apply, vars, streamVars, stream, buffers, process, node
    <3> QED
      BY <3>1, StreamUnchanged
  <2>2. CASE Restart
    <3>1. UNCHANGED <<stream, buffers, taken>> /\ up'
      BY <2>2 DEF Restart, process
    <3> QED
      BY <3>1 DEF StreamInv, stream, buffers, Ordered, ImagesInRow, PointsThere, PairsSameStamp,
                  Increasing, In, UpTo, Before
  <2> QED
    BY <1>2, <2>1, <2>2
<1>3. CASE Break \/ Crash \/ CommandSave
  BY <1>3, DieKeeps DEF Break, Crash, CommandSave
<1> QED
  BY <1>1, <1>2, <1>3, PubKeyframeKeeps, PoseCallbackKeeps, PointCallbackKeeps, ImageCallbackKeeps,
     CommandNewKeeps, ThrowPoseKeeps, ThrowPointKeeps, PairKeeps DEF Next

-----------------------------------------------------------------------------
(* Least elements: the earliest loop, and the loop that is detected.       *)

LEMMA LeastElement ==
  ASSUME NEW T, T \subseteq Nat, T # {}
  PROVE  \E n \in T : \A m \in T : n <= m
<1>1. \E n \in T : \A m \in T : ~(<<m, n>> \in OpToRel(<, Nat))
  BY NatLessThanWellFounded, WFMin
<1>2. PICK n \in T : \A m \in T : ~(<<m, n>> \in OpToRel(<, Nat))
  BY <1>1
<1>3. ASSUME NEW m \in T PROVE n <= m
  <2>1. <<m, n>> \in Nat \X Nat
    BY <1>2
  <2>2. ~(m < n)
    BY <1>2, <2>1 DEF OpToRel
  <2>3. n \in Nat /\ m \in Nat
    OBVIOUS
  <2> QED
    BY <2>2, <2>3
<1> QED
  BY <1>3

LEMMA MinIsLeast ==
  ASSUME NEW T, T \subseteq Nat, T # {}
  PROVE  Min(T) \in T /\ \A m \in T : Min(T) <= m
  BY LeastElement DEF Min

LEMMA EarliestBelow ==
  ASSUME NEW loops \in Seq(Nat \union {None})
  PROVE  /\ Earliest(loops) \in Nat \union {None}
         /\ \A n \in DOMAIN loops : loops[n] # None =>
              Earliest(loops) # None /\ Earliest(loops) <= loops[n]
<1> DEFINE some == {loops[i] : i \in DOMAIN loops} \ {None}
<1>1. some \subseteq Nat
  BY ElementOfSeq, LenProperties
<1>2. Earliest(loops) = IF some = {} THEN None ELSE Min(some)
  BY DEF Earliest
<1>3. \A n \in DOMAIN loops : loops[n] # None => loops[n] \in some
  OBVIOUS
<1> HIDE DEF some
<1>4. CASE some = {}
  BY <1>2, <1>3, <1>4
<1>5. CASE some # {}
  <2>1. Min(some) \in some /\ \A m \in some : Min(some) <= m
    BY <1>1, <1>5, MinIsLeast
  <2>2. Min(some) # None
    BY <1>1, <2>1 DEF None
  <2> QED
    BY <1>1, <1>2, <1>3, <1>5, <2>1, <2>2
<1> QED
  BY <1>4, <1>5

(* Two good results at least, of which one is not the last keyframe: the   *)
(* oldest is beyond the recent ones.                                       *)
LEMMA DetectedIsOld ==
  ASSUME TypeOK, NEW loop \in DetectLoop, loop # None
  PROVE  loop \in Nat /\ loop \in 0 .. Len(keyframelist) - Recent - 1
<1> DEFINE n == Len(keyframelist)
<1>1. n \in Nat /\ Recent \in Nat
  BY LenProperties, SizeAssumption DEF TypeOK
<1>2. PICK good \in SUBSET Queried : Cardinality(good) \in 2 .. MaxResults /\ loop = Min(good)
  BY DEF DetectLoop
<1>3. good \subseteq 0 .. n - 1 /\ \A e \in good : e < n - Recent \/ e = n - 1
  BY <1>2 DEF Queried, Indices, global_index
<1>4. IsFiniteSet(good)
  <2>1. IsFiniteSet(0 .. n - 1)
    BY <1>1, FS_Interval
  <2> QED
    BY <1>3, <2>1, FS_Subset
<1>5. good # {}
  BY <1>2, <1>4, FS_EmptySet, SizeAssumption
<1>6. good # {n - 1}
  <2>1. Cardinality({n - 1}) = 1
    BY FS_Singleton
  <2>2. Cardinality(good) # 1
    BY <1>2, SizeAssumption
  <2> QED
    BY <2>1, <2>2
<1>7. PICK e \in good : e # n - 1
  <2>1. (\A e \in good : e = n - 1) => good = {n - 1}
    BY <1>5
  <2> QED
    BY <2>1, <1>6
<1>8. good \subseteq Nat
  BY <1>3
<1>9. Min(good) \in good /\ Min(good) <= e
  BY <1>5, <1>7, <1>8, MinIsLeast
<1>10. e < n - Recent /\ Min(good) \in Nat /\ e \in Nat
  BY <1>3, <1>7, <1>8, <1>9
<1> QED
  BY <1>1, <1>2, <1>9, <1>10

LEMMA MinOfTwo ==
  \A a, b \in Nat : Min({a, b}) \in Nat /\ Min({a, b}) <= a /\ Min({a, b}) <= b
<1> SUFFICES ASSUME NEW a \in Nat, NEW b \in Nat
             PROVE  Min({a, b}) \in Nat /\ Min({a, b}) <= a /\ Min({a, b}) <= b
  OBVIOUS
<1>1. {a, b} \subseteq Nat /\ {a, b} # {}
  OBVIOUS
<1>2. Min({a, b}) \in {a, b} /\ \A m \in {a, b} : Min({a, b}) <= m
  BY <1>1, MinIsLeast
<1> QED
  BY <1>2
-----------------------------------------------------------------------------
(* The graph.                                                              *)

graphVars == <<pc, cur_kf, keyframelist, earliest_loop_index, optimize_buf, opt, file, up>>

LEMMA GraphUnchanged == GraphInv /\ UNCHANGED graphVars => GraphInv'
  BY DEF GraphInv, graphVars, GraphLoops, CurrentLoop, QueueLoops, TakenLoops, SavedLoops, NothingRuns,
         Queued, LoopBack, LoopsBack, Kf, Indices

LEMMA KeyframesTyped ==
  ASSUME TypeOK
  PROVE  /\ Len(keyframelist) \in Nat /\ DOMAIN keyframelist = 1 .. Len(keyframelist)
         /\ \A i \in Indices : /\ i \in Nat /\ i + 1 \in DOMAIN keyframelist
                              /\ Kf(i) \in Keyframe /\ Kf(i).loop_index \in Nat \union {None}
         /\ cur_kf.loop_index \in Nat \union {None}
<1>1. Len(keyframelist) \in Nat /\ DOMAIN keyframelist = 1 .. Len(keyframelist)
  BY LenProperties DEF TypeOK
<1>2. ASSUME NEW i \in Indices
      PROVE  i \in Nat /\ i + 1 \in DOMAIN keyframelist /\ Kf(i) \in Keyframe
  <2>1. i \in Nat /\ i + 1 \in 1 .. Len(keyframelist)
    BY <1>1 DEF Indices
  <2> QED
    BY <2>1, <1>1, ElementOfSeq DEF TypeOK, Kf
<1>3. \A k \in Keyframe : k.loop_index \in Nat \union {None}
  BY DEF Keyframe
<1> QED
  BY <1>1, <1>2, <1>3 DEF TypeOK

(* Steps that leave every loop and the queue alone.                        *)
LEMMA SameLoops ==
  ASSUME TypeOK, GraphInv,
         Len(keyframelist') = Len(keyframelist),
         \A i \in Indices : Kf(i)'.loop_index = Kf(i).loop_index,
         UNCHANGED <<pc, cur_kf, earliest_loop_index, optimize_buf, file, up>>,
         \/ UNCHANGED opt
         \/ opt'.stage # "taken" /\ (up \/ opt'.stage = "idle")
  PROVE  GraphInv'
<1>1. Indices' = Indices
  BY DEF Indices
<1>2. GraphLoops'
  BY <1>1 DEF GraphInv, GraphLoops, LoopBack, Indices
<1>3. CurrentLoop' /\ QueueLoops'
  BY DEF GraphInv, CurrentLoop, QueueLoops, LoopBack, Queued
<1>4. TakenLoops'
  BY <1>1 DEF GraphInv, TakenLoops, Queued
<1>5. SavedLoops' /\ NothingRuns'
  BY DEF GraphInv, SavedLoops, LoopsBack, NothingRuns
<1> QED
  BY <1>2, <1>3, <1>4, <1>5 DEF GraphInv

LEMMA PairGraph == TypeOK /\ GraphInv /\ Pair => GraphInv'
<1> SUFFICES ASSUME TypeOK, GraphInv, Pair PROVE GraphInv'
  OBVIOUS
<1>1. up /\ pc = "idle" /\ pc' \in {"idle", "build"}
  BY DEF Pair, Buffered
<1>2. UNCHANGED <<cur_kf, keyframelist, earliest_loop_index, optimize_buf, opt, file, up>>
  BY DEF Pair, graph, node
<1> QED
  BY <1>1, <1>2 DEF GraphInv, GraphLoops, CurrentLoop, QueueLoops, TakenLoops, SavedLoops, NothingRuns,
                    Queued, LoopBack, LoopsBack, Kf, Indices

LEMMA BuildGraph == TypeOK /\ GraphInv /\ Build => GraphInv'
<1> SUFFICES ASSUME TypeOK, GraphInv, Build PROVE GraphInv'
  OBVIOUS
<1>1. pc = "build" /\ pc' = "detect" /\ cur_kf'.loop_index = None
  BY DEF Build, NoKeyframe
<1>2. UNCHANGED <<keyframelist, earliest_loop_index, optimize_buf, opt, file, up>>
  BY DEF Build, node
<1> QED
  BY <1>1, <1>2 DEF GraphInv, GraphLoops, CurrentLoop, QueueLoops, TakenLoops, SavedLoops, NothingRuns,
                    Queued, LoopBack, LoopsBack, Kf, Indices

LEMMA NoLoopGraph == TypeOK /\ GraphInv /\ NoLoop => GraphInv'
<1> SUFFICES ASSUME TypeOK, GraphInv, NoLoop PROVE GraphInv'
  OBVIOUS
<1>1. pc = "detect" /\ pc' = "append" /\ cur_kf'.loop_index = None
  BY DEF NoLoop, GraphInv, CurrentLoop
<1>2. UNCHANGED <<cur_kf, keyframelist, earliest_loop_index, optimize_buf, opt, file, up>>
  BY DEF NoLoop, graph, node
<1> QED
  BY <1>1, <1>2 DEF GraphInv, GraphLoops, CurrentLoop, QueueLoops, TakenLoops, SavedLoops, NothingRuns,
                    Queued, LoopBack, LoopsBack, Kf, Indices

(* earliest_loop_index only falls, and to no more than the new loop.       *)
LEMMA LoopGraph == TypeOK /\ GraphInv /\ Loop => GraphInv'
<1> SUFFICES ASSUME TypeOK, GraphInv, Loop PROVE GraphInv'
  OBVIOUS
<1>1. PICK loop \in DetectLoop \ {None} :
        /\ earliest_loop_index' = IF earliest_loop_index = None THEN loop
                                  ELSE Min({earliest_loop_index, loop})
        /\ cur_kf'.loop_index = loop
  <2>1. \E loop \in DetectLoop \ {None} : \E shift \in BOOLEAN :
          /\ earliest_loop_index' = IF earliest_loop_index = None THEN loop
                                    ELSE Min({earliest_loop_index, loop})
          /\ cur_kf' = [cur_kf EXCEPT !.loop_index = loop, !.shifts = IF shift THEN @ + 1 ELSE @]
    BY Zenon DEF Loop
  <2>2. \A loop, n : [cur_kf EXCEPT !.loop_index = loop, !.shifts = n].loop_index = loop
    BY DEF TypeOK, Keyframe
  <2> QED
    BY <2>1, <2>2
<1>2. loop \in Nat /\ loop \in 0 .. Len(keyframelist) - Recent - 1
  BY DetectedIsOld
<1>3. pc = "detect" /\ pc' = "shift" /\ UNCHANGED <<keyframelist, optimize_buf, opt, file, up>>
  BY DEF Loop, node
<1>4. /\ earliest_loop_index' \in Nat /\ earliest_loop_index' <= loop
      /\ earliest_loop_index # None =>
           earliest_loop_index \in Nat /\ earliest_loop_index' <= earliest_loop_index
  BY <1>1, <1>2, MinOfTwo DEF TypeOK
<1>5. earliest_loop_index' # None
  BY <1>4 DEF None
<1>6. GraphLoops'
  <2> SUFFICES ASSUME NEW i \in Indices PROVE LoopBack(Kf(i).loop_index, i)'
    BY <1>3 DEF GraphLoops, Indices
  <2>1. LoopBack(Kf(i).loop_index, i) /\ Kf(i).loop_index \in Nat \union {None}
    BY KeyframesTyped DEF GraphInv, GraphLoops
  <2> QED
    BY <2>1, <1>3, <1>4, <1>5 DEF LoopBack, Kf
<1>7. CurrentLoop'
  BY <1>1, <1>2, <1>3, <1>4, <1>5 DEF CurrentLoop, LoopBack
<1>8. QueueLoops' /\ TakenLoops' /\ SavedLoops' /\ NothingRuns'
  BY <1>3, <1>5 DEF GraphInv, QueueLoops, TakenLoops, SavedLoops, NothingRuns, Queued, LoopsBack, Kf,
                    Indices
<1> QED
  BY <1>6, <1>7, <1>8 DEF GraphInv

LEMMA ShiftGraph == TypeOK /\ GraphInv /\ Shift => GraphInv'
<1> SUFFICES ASSUME TypeOK, GraphInv, Shift PROVE GraphInv'
  OBVIOUS
<1>1. PICK k : keyframelist' = [keyframelist EXCEPT ![k].shifts = @ + 1, ![k].stale = TRUE]
  BY DEF Shift
<1>2. UNCHANGED <<pc, cur_kf, earliest_loop_index, optimize_buf, opt, file, up>>
  BY DEF Shift, node
<1>3. Len(keyframelist) \in Nat /\ DOMAIN keyframelist = 1 .. Len(keyframelist)
  BY KeyframesTyped
<1>4. DOMAIN keyframelist' = DOMAIN keyframelist
  BY <1>1
<1>5. Len(keyframelist') = Len(keyframelist)
  BY <1>3, <1>4
<1>6. ASSUME NEW n \in DOMAIN keyframelist PROVE keyframelist'[n].loop_index = keyframelist[n].loop_index
  <2>1. keyframelist[n] \in Keyframe
    BY <1>3, ElementOfSeq DEF TypeOK
  <2>2. CASE n = k
    <3>1. keyframelist'[n] = [[keyframelist[n] EXCEPT !.shifts = keyframelist[n].shifts + 1]
                                               EXCEPT !.stale = TRUE]
      BY <1>1, <2>2
    <3> QED
      BY <2>1, <3>1 DEF Keyframe
  <2>3. CASE n # k
    BY <1>1, <2>3
  <2> QED
    BY <2>2, <2>3
<1>7. \A i \in Indices : Kf(i)'.loop_index = Kf(i).loop_index
  BY <1>6, KeyframesTyped DEF Kf
<1> QED
  BY <1>2, <1>5, <1>7, SameLoops

LEMMA PushOptimizeGraph == TypeOK /\ GraphInv /\ PushOptimize => GraphInv'
<1> SUFFICES ASSUME TypeOK, GraphInv, PushOptimize PROVE GraphInv'
  OBVIOUS
<1>1. /\ pc = "shift" /\ pc' = "append" /\ optimize_buf' = Append(optimize_buf, Len(keyframelist))
      /\ UNCHANGED <<cur_kf, keyframelist, earliest_loop_index, opt, file, up>>
  BY DEF PushOptimize, graph, node, global_index
<1>2. Len(keyframelist) \in Nat
  BY KeyframesTyped
<1>3. \A k \in DOMAIN optimize_buf' : \/ optimize_buf'[k] = Len(keyframelist)
                                     \/ (k \in DOMAIN optimize_buf /\ optimize_buf'[k] = optimize_buf[k])
  BY <1>1, <1>2, AppendOfStamps DEF TypeOK
<1>4. QueueLoops'
  BY <1>1, <1>2, <1>3 DEF GraphInv, CurrentLoop, QueueLoops, Queued
<1>5. CurrentLoop' /\ GraphLoops' /\ SavedLoops' /\ NothingRuns'
  BY <1>1 DEF GraphInv, GraphLoops, CurrentLoop, SavedLoops, NothingRuns, LoopBack, LoopsBack, Kf, Indices
<1>6. TakenLoops'
  BY <1>1 DEF GraphInv, TakenLoops, Queued, Kf, Indices
<1> QED
  BY <1>4, <1>5, <1>6 DEF GraphInv

(* The new keyframe has the index that may have been queued already.       *)
LEMMA AppendKeyframeGraph == TypeOK /\ GraphInv /\ AppendKeyframe => GraphInv'
<1> SUFFICES ASSUME TypeOK, GraphInv, AppendKeyframe PROVE GraphInv'
  OBVIOUS
<1>1. /\ pc = "append" /\ pc' = "idle"
      /\ UNCHANGED <<cur_kf, earliest_loop_index, optimize_buf, opt, file, up>>
  BY DEF AppendKeyframe, node
<1>2. PICK new \in Keyframe : /\ keyframelist' = Append(keyframelist, new)
                            /\ new.loop_index = cur_kf.loop_index
  <2>1. keyframelist' = Append(keyframelist, [cur_kf EXCEPT !.stale = (drift = "stale")])
    BY DEF AppendKeyframe
  <2>2. \A b \in BOOLEAN : /\ [cur_kf EXCEPT !.stale = b] \in Keyframe
                          /\ [cur_kf EXCEPT !.stale = b].loop_index = cur_kf.loop_index
    BY DEF TypeOK, Keyframe
  <2>3. (drift = "stale") \in BOOLEAN
    OBVIOUS
  <2> QED
    BY <2>1, <2>2, <2>3
<1>3. PICK n \in Nat : n = Len(keyframelist) /\ DOMAIN keyframelist = 1 .. n
  BY KeyframesTyped
<1>4. /\ Len(keyframelist') = n + 1 /\ keyframelist'[n + 1] = new
      /\ \A i \in DOMAIN keyframelist : keyframelist'[i] = keyframelist[i]
  BY <1>2, <1>3, AppendOfStamps DEF TypeOK
<1>5. /\ Indices' = 0 .. n /\ Indices = 0 .. n - 1
      /\ \A i \in Indices : Kf(i)' = Kf(i)
      /\ Kf(n)'.loop_index = cur_kf.loop_index
  <2>1. Indices' = 0 .. n /\ Indices = 0 .. n - 1
    BY <1>3, <1>4 DEF Indices
  <2>2. \A i \in Indices : Kf(i)' = Kf(i)
    BY <1>4, KeyframesTyped DEF Kf
  <2>3. Kf(n)'.loop_index = cur_kf.loop_index
    BY <1>2, <1>4 DEF Kf
  <2> QED
    BY <2>1, <2>2, <2>3
<1>6. \A i \in Indices' : i \in Indices \/ i = n
  BY <1>3, <1>5
<1>7. GraphLoops'
  <2> SUFFICES ASSUME NEW i \in Indices' PROVE LoopBack(Kf(i).loop_index, i)'
    BY DEF GraphLoops
  <2>1. CASE i \in Indices
    <3>1. LoopBack(Kf(i).loop_index, i)
      BY <2>1 DEF GraphInv, GraphLoops
    <3> QED
      BY <2>1, <3>1, <1>1, <1>5 DEF LoopBack
  <2>2. CASE i = n
    <3>1. LoopBack(cur_kf.loop_index, n)
      BY <1>1, <1>3 DEF GraphInv, CurrentLoop
    <3> QED
      BY <2>2, <3>1, <1>1, <1>5 DEF LoopBack
  <2> QED
    BY <1>6, <2>1, <2>2
<1>8. CurrentLoop'
  BY <1>1 DEF CurrentLoop
<1>9. \A index : Queued(index) => index \in 0 .. n + 1 /\ index # n + 1
  BY <1>3 DEF Queued
<1>10. QueueLoops'
  BY <1>1, <1>3, <1>4, <1>9 DEF GraphInv, QueueLoops, Queued
<1>11. TakenLoops'
  <2> SUFFICES ASSUME opt.stage = "taken" PROVE TakenLoops'
    BY <1>1 DEF TakenLoops
  <2>1. /\ Queued(opt.cur) /\ opt.first # None /\ opt.cur \in 0 .. n
        /\ \A i \in Indices : i <= opt.cur /\ Kf(i).loop_index # None => opt.first <= Kf(i).loop_index
        /\ opt.cur = n /\ cur_kf.loop_index # None => opt.first <= cur_kf.loop_index
    BY <1>3 DEF GraphInv, TakenLoops, Queued
  <2>2. Queued(opt.cur)'
    BY <2>1, <1>1, <1>3, <1>4, <1>9 DEF Queued
  <2>3. ASSUME NEW i \in Indices', i <= opt.cur, Kf(i)'.loop_index # None
        PROVE  opt.first <= Kf(i)'.loop_index
    <3>1. CASE i \in Indices
      BY <2>1, <2>3, <3>1, <1>5
    <3>2. CASE i = n
      <4>1. opt.cur = n
        BY <2>1, <2>3, <3>2, <1>3
      <4> QED
        BY <2>1, <2>3, <3>2, <4>1, <1>5
    <3> QED
      BY <1>6, <3>1, <3>2
  <2>4. opt.cur # n + 1
    BY <2>1, <1>3
  <2> QED
    BY <1>1, <1>4, <2>1, <2>2, <2>3, <2>4 DEF TakenLoops
<1>12. SavedLoops' /\ NothingRuns'
  BY <1>1 DEF GraphInv, SavedLoops, LoopsBack, NothingRuns
<1> QED
  BY <1>7, <1>8, <1>10, <1>11, <1>12 DEF GraphInv

(* What is read without m_keyframelist is low enough all the same.         *)
LEMMA TakeGraph == TypeOK /\ GraphInv /\ Take => GraphInv'
<1> SUFFICES ASSUME TypeOK, GraphInv, Take PROVE GraphInv'
  OBVIOUS
<1>1. /\ up /\ optimize_buf # <<>> /\ optimize_buf' = <<>>
      /\ opt'.stage = "taken" /\ opt'.cur = optimize_buf[Len(optimize_buf)]
      /\ opt'.first = earliest_loop_index
      /\ UNCHANGED <<pc, cur_kf, keyframelist, earliest_loop_index, file, up>>
  BY DEF Take, Back, process, graph, node
<1>2. Len(optimize_buf) \in DOMAIN optimize_buf
  <2>1. DOMAIN optimize_buf = 1 .. Len(optimize_buf) /\ 1 \in DOMAIN optimize_buf
    BY <1>1, TailOfStamps, LenProperties DEF TypeOK
  <2> QED
    BY <2>1
<1>3. Queued(opt'.cur) /\ earliest_loop_index # None
  BY <1>1, <1>2 DEF GraphInv, QueueLoops
<1>4. ASSUME NEW i \in Indices, Kf(i).loop_index # None PROVE opt'.first <= Kf(i).loop_index
  BY <1>1, <1>4 DEF GraphInv, GraphLoops, LoopBack
<1>5. opt'.cur = Len(keyframelist) /\ cur_kf.loop_index # None => opt'.first <= cur_kf.loop_index
  BY <1>1, <1>3 DEF GraphInv, CurrentLoop, LoopBack, Queued
<1>6. TakenLoops'
  BY <1>1, <1>3, <1>4, <1>5 DEF TakenLoops, Queued, Kf, Indices
<1>7. QueueLoops'
  BY <1>1, EmptyStamps DEF QueueLoops
<1>8. GraphLoops' /\ CurrentLoop' /\ SavedLoops' /\ NothingRuns'
  BY <1>1 DEF GraphInv, GraphLoops, CurrentLoop, SavedLoops, NothingRuns, LoopBack, LoopsBack, Kf, Indices
<1> QED
  BY <1>6, <1>7, <1>8 DEF GraphInv

LEMMA CollectGraph == TypeOK /\ GraphInv /\ Collect => GraphInv'
<1> SUFFICES ASSUME TypeOK, GraphInv, Collect PROVE GraphInv'
  OBVIOUS
<1>1. /\ opt.stage = "taken" /\ opt'.stage = "solve"
      /\ UNCHANGED <<pc, cur_kf, keyframelist, earliest_loop_index, optimize_buf, file, up>>
  <2>1. PICK v : opt' = [opt EXCEPT !.stage = "solve", !.vio = v]
    BY DEF Collect
  <2>2. opt'.stage = "solve"
    BY <2>1 DEF TypeOK
  <2> QED
    BY <2>2 DEF Collect, process, graph, node
<1>2. up
  BY <1>1 DEF GraphInv, NothingRuns, TypeOK
<1> QED
  BY <1>1, <1>2, SameLoops DEF Kf

LEMMA ApplyGraph == TypeOK /\ GraphInv /\ Apply => GraphInv'
<1> SUFFICES ASSUME TypeOK, GraphInv, Apply PROVE GraphInv'
  OBVIOUS
<1>1. PICK b : keyframelist' = [n \in DOMAIN keyframelist |->
                                 [keyframelist[n] EXCEPT !.stale = PoseIsStale(n - 1, b)]]
  BY DEF Apply
<1>7. opt'.stage = "idle" /\ UNCHANGED <<pc, cur_kf, earliest_loop_index, optimize_buf, file, up>>
  BY DEF Apply, Idle, process, node
<1>2. Len(keyframelist) \in Nat /\ DOMAIN keyframelist = 1 .. Len(keyframelist)
  BY KeyframesTyped
<1>3. DOMAIN keyframelist' = DOMAIN keyframelist
  BY <1>1
<1>4. Len(keyframelist') = Len(keyframelist)
  BY <1>2, <1>3
<1>5. ASSUME NEW n \in DOMAIN keyframelist PROVE keyframelist'[n].loop_index = keyframelist[n].loop_index
  <2>1. keyframelist[n] \in Keyframe
    BY <1>2, ElementOfSeq DEF TypeOK
  <2>2. keyframelist'[n] = [keyframelist[n] EXCEPT !.stale = PoseIsStale(n - 1, b)]
    BY <1>1
  <2> QED
    BY <2>1, <2>2 DEF Keyframe
<1>6. \A i \in Indices : Kf(i)'.loop_index = Kf(i).loop_index
  BY <1>5, KeyframesTyped DEF Kf
<1> QED
  BY <1>4, <1>6, <1>7, SameLoops

LEMMA DieGraph ==
  ASSUME TypeOK, GraphInv, Die, LoopsBack(file')
  PROVE  GraphInv'
<1>1. /\ up' = FALSE /\ pc' = "idle" /\ keyframelist' = <<>> /\ optimize_buf' = <<>> /\ opt'.stage = "idle"
  BY DEF Die, Idle
<1>2. Indices' = {}
  BY <1>1, EmptyStamps DEF Indices
<1> QED
  BY <1>1, <1>2, EmptyStamps DEF GraphInv, GraphLoops, CurrentLoop, QueueLoops, TakenLoops, SavedLoops,
                                 NothingRuns

(* What is saved is a graph whose loops lead back.                         *)
LEMMA SavedIsBack ==
  ASSUME TypeOK, GraphInv
  PROVE  /\ [n \in DOMAIN keyframelist |-> keyframelist[n].loop_index] \in Seq(Nat \union {None})
         /\ LoopsBack([n \in DOMAIN keyframelist |-> keyframelist[n].loop_index])
<1>1. Len(keyframelist) \in Nat /\ DOMAIN keyframelist = 1 .. Len(keyframelist)
  BY KeyframesTyped
<1>2. ASSUME NEW n \in DOMAIN keyframelist
      PROVE  /\ keyframelist[n].loop_index \in Nat \union {None}
             /\ keyframelist[n].loop_index # None => keyframelist[n].loop_index \in 0 .. n - Recent - 2
  <2>1. n - 1 \in Indices /\ (n - 1) + 1 = n
    BY <1>1 DEF Indices
  <2>2. Kf(n - 1) = keyframelist[n]
    BY <2>1 DEF Kf
  <2>3. LoopBack(Kf(n - 1).loop_index, n - 1)
    BY <2>1 DEF GraphInv, GraphLoops
  <2>4. Kf(n - 1).loop_index \in Nat \union {None}
    BY <2>1, KeyframesTyped
  <2> QED
    BY <1>1, <2>2, <2>3, <2>4, SizeAssumption DEF LoopBack
<1>3. [n \in 1 .. Len(keyframelist) |-> keyframelist[n].loop_index] \in Seq(Nat \union {None})
  BY <1>1, <1>2, IsASeq
<1> QED
  BY <1>1, <1>2, <1>3 DEF LoopsBack

LEMMA RestartGraph == TypeOK /\ GraphInv /\ Restart => GraphInv'
<1> SUFFICES ASSUME TypeOK, GraphInv, Restart PROVE GraphInv'
  OBVIOUS
<1>1. PICK loops \in {file, <<>>} : keyframelist' = Loaded(loops) /\ earliest_loop_index' = Earliest(loops)
  BY DEF Restart
<1>2. /\ pc = "idle" /\ optimize_buf = <<>> /\ opt.stage = "idle"
      /\ UNCHANGED <<pc, cur_kf, optimize_buf, opt, file>>
  BY DEF Restart, GraphInv, NothingRuns, process
<1>3. loops \in Seq(Nat \union {None}) /\ LoopsBack(loops)
  <2>1. <<>> \in Seq(Nat \union {None}) /\ LoopsBack(<<>>)
    BY EmptySeq, EmptyStamps DEF LoopsBack
  <2>2. file \in Seq(Nat \union {None}) /\ LoopsBack(file)
    BY DEF TypeOK, GraphInv, SavedLoops
  <2> QED
    BY <2>1, <2>2
<1>4. GraphLoops'
  <2>1. Len(loops) \in Nat /\ DOMAIN loops = 1 .. Len(loops)
    BY <1>3, LenProperties
  <2>2. /\ DOMAIN keyframelist' = 1 .. Len(loops)
        /\ \A n \in 1 .. Len(loops) : keyframelist'[n].loop_index = loops[n]
    BY <1>1, <2>1 DEF Loaded, NoKeyframe
  <2>3. Indices' = 0 .. Len(loops) - 1
    <3>1. Len(keyframelist') = Len(loops)
      BY <2>1, <2>2
    <3> QED
      BY <3>1 DEF Indices
  <2> SUFFICES ASSUME NEW i \in 0 .. Len(loops) - 1 PROVE LoopBack(Kf(i).loop_index, i)'
    BY <2>3 DEF GraphLoops
  <2>4. i + 1 \in 1 .. Len(loops)
    BY <2>1
  <2>5. Kf(i)'.loop_index = loops[i + 1]
    BY <2>2, <2>4 DEF Kf
  <2>6. loops[i + 1] # None => loops[i + 1] \in 0 .. i - Recent - 1
    <3>1. loops[i + 1] # None => loops[i + 1] \in 0 .. (i + 1) - Recent - 2
      BY <1>3, <2>1, <2>4 DEF LoopsBack
    <3>2. (i + 1) - Recent - 2 = i - Recent - 1
      BY <2>4, SizeAssumption
    <3> QED
      BY <3>1, <3>2
  <2>7. loops[i + 1] # None => Earliest(loops) # None /\ Earliest(loops) <= loops[i + 1]
    BY <1>3, <2>1, <2>4, EarliestBelow
  <2> QED
    BY <1>1, <2>5, <2>6, <2>7 DEF LoopBack
<1>5. QueueLoops'
  BY <1>2, EmptyStamps DEF QueueLoops
<1>6. CurrentLoop' /\ TakenLoops' /\ SavedLoops' /\ NothingRuns'
  BY <1>2 DEF GraphInv, CurrentLoop, TakenLoops, SavedLoops, NothingRuns, LoopsBack
<1> QED
  BY <1>4, <1>5, <1>6 DEF GraphInv

LEMMA GraphKeeps == TypeOK /\ GraphInv /\ [Next]_vars => GraphInv'
<1> SUFFICES ASSUME TypeOK, GraphInv, [Next]_vars PROVE GraphInv'
  OBVIOUS
<1>1. CASE PubKeyframe \/ PoseCallback \/ PointCallback \/ ImageCallback \/ CommandNew
  <2>1. UNCHANGED graphVars
    BY <1>1 DEF PubKeyframe, PoseCallback, PointCallback, ImageCallback, CommandNew, graphVars, process,
                graph, node
  <2> QED
    BY <2>1, GraphUnchanged
<1>2. CASE ThrowPose \/ ThrowPoint \/ UNCHANGED vars
  <2>1. UNCHANGED graphVars
    BY <1>2 DEF ThrowPose, ThrowPoint, vars, graphVars, process, graph, node
  <2> QED
    BY <2>1, GraphUnchanged
<1>3. CASE Break \/ Crash
  <2>1. Die /\ LoopsBack(file')
    BY <1>3 DEF Break, Crash, GraphInv, SavedLoops
  <2> QED
    BY <2>1, DieGraph
<1>4. CASE CommandSave
  BY <1>4, SavedIsBack, DieGraph DEF CommandSave
<1> QED
  BY <1>1, <1>2, <1>3, <1>4, PairGraph, BuildGraph, NoLoopGraph, LoopGraph, ShiftGraph, PushOptimizeGraph,
     AppendKeyframeGraph, TakeGraph, CollectGraph, ApplyGraph, RestartGraph DEF Next
-----------------------------------------------------------------------------
(* Types.                                                                  *)

LEMMA TypeOfStream ==
  ASSUME IInv,
         PubKeyframe \/ PoseCallback \/ PointCallback \/ ImageCallback \/ CommandNew
           \/ ThrowPose \/ ThrowPoint \/ UNCHANGED vars
  PROVE  TypeOK' /\ NothingToShift'
<1> USE DEF IInv
<1>1. CASE PubKeyframe
  <2>1. PICK t \in newest + 1 .. now :
          /\ newest' = t /\ toPose' = Append(toPose, t) /\ toPoint' = Append(toPoint, t)
          /\ UNCHANGED <<now, buffers, sequence, process, graph, drift, optimize_buf, opt, node>>
    BY <1>1 DEF PubKeyframe
  <2>2. t \in Nat /\ t \in 0 .. now
    BY DEF TypeOK
  <2>3. Append(toPose, t) \in Stamps /\ Append(toPoint, t) \in Stamps
    BY <2>2, AppendOfStamps DEF TypeOK, Stamps
  <2> QED
    BY <2>1, <2>2, <2>3 DEF TypeOK, NothingToShift, buffers, process, graph, node, Indices
<1>2. CASE PoseCallback
  <2>1. Tail(toPose) \in Stamps /\ Append(pose_buf, Head(toPose)) \in Stamps
    <3>1. toPose \in Seq(Nat) /\ toPose # <<>> /\ pose_buf \in Seq(Nat)
      BY <1>2 DEF TypeOK, PoseCallback, Stamps
    <3>2. Tail(toPose) \in Seq(Nat) /\ Head(toPose) \in Nat
      BY <3>1, TailOfStamps
    <3> QED
      BY <3>1, <3>2, AppendOfStamps DEF Stamps
  <2> QED
    BY <1>2, <2>1 DEF PoseCallback, TypeOK, NothingToShift, process, graph, node, Indices
<1>3. CASE PointCallback
  <2>1. Tail(toPoint) \in Stamps /\ Append(point_buf, Head(toPoint)) \in Stamps
    <3>1. toPoint \in Seq(Nat) /\ toPoint # <<>> /\ point_buf \in Seq(Nat)
      BY <1>3 DEF TypeOK, PointCallback, Stamps
    <3>2. Tail(toPoint) \in Seq(Nat) /\ Head(toPoint) \in Nat
      BY <3>1, TailOfStamps
    <3> QED
      BY <3>1, <3>2, AppendOfStamps DEF Stamps
  <2> QED
    BY <1>3, <2>1 DEF PointCallback, TypeOK, NothingToShift, process, graph, node, Indices
<1>4. CASE ImageCallback
  <2>1. PICK t \in now + 1 .. now + 2 :
          /\ now' = t
          /\ IF ~up THEN UNCHANGED <<buffers, sequence>>
             ELSE /\ last_image_time' = t
                  /\ IF Discontinued(t) THEN NewSequence
                     ELSE image_buf' = Append(image_buf, t) /\ UNCHANGED <<point_buf, pose_buf, sequence>>
          /\ up /\ Discontinued(t) => sequence < MAX_SEQUENCES
          /\ UNCHANGED <<toPose, toPoint, newest, process, graph, drift, optimize_buf, opt, node>>
    BY <1>4 DEF ImageCallback
  <2>2. t \in Nat /\ newest \in 0 .. t
    BY DEF TypeOK
  <2>3. /\ image_buf' \in Stamps /\ point_buf' \in Stamps /\ pose_buf' \in Stamps
        /\ last_image_time' \in {None, t} /\ sequence' \in 1 .. MAX_SEQUENCES
    <3>1. CASE ~up
      <4>1. last_image_time = None
        BY <3>1 DEF StreamInv, ImagesInRow
      <4> QED
        BY <2>1, <3>1, <4>1 DEF buffers, TypeOK
    <3>2. CASE up /\ Discontinued(t)
      BY <2>1, <3>2, EmptyStamps, SizeAssumption DEF NewSequence, TypeOK
    <3>3. CASE up /\ ~Discontinued(t)
      <4>1. Append(image_buf, t) \in Stamps
        BY <2>2, AppendOfStamps DEF TypeOK, Stamps
      <4> QED
        BY <2>1, <3>3, <4>1 DEF TypeOK
    <3> QED
      BY <3>1, <3>2, <3>3
  <2> QED
    BY <2>1, <2>2, <2>3 DEF TypeOK, NothingToShift, process, graph, node, Indices
<1>5. CASE CommandNew
  <2>1. sequence' \in 1 .. MAX_SEQUENCES
    BY <1>5, SizeAssumption DEF CommandNew, NewSequence, TypeOK
  <2> QED
    BY <1>5, <2>1, EmptyStamps DEF CommandNew, NewSequence, TypeOK, NothingToShift, stream, process, graph,
                                   node, Indices
<1>6. CASE ThrowPose
  <2>1. Tail(pose_buf) \in Stamps
    BY <1>6, TailOfStamps DEF ThrowPose, Buffered, TypeOK, Stamps
  <2> QED
    BY <1>6, <2>1 DEF ThrowPose, TypeOK, NothingToShift, stream, process, graph, node, Indices
<1>7. CASE ThrowPoint
  <2>1. Tail(point_buf) \in Stamps
    BY <1>7, TailOfStamps DEF ThrowPoint, Buffered, TypeOK, Stamps
  <2> QED
    BY <1>7, <2>1 DEF ThrowPoint, TypeOK, NothingToShift, stream, process, graph, node, Indices
<1>8. CASE UNCHANGED vars
  BY <1>8 DEF vars, TypeOK, NothingToShift, stream, buffers, process, graph, node, Indices
<1> QED
  BY <1>1, <1>2, <1>3, <1>4, <1>5, <1>6, <1>7, <1>8

LEMMA TypeOfDie ==
  ASSUME TypeOK, Die, file' \in Seq(Nat \union {None})
  PROVE  TypeOK' /\ NothingToShift'
<1>1. <<>> \in Seq(Keyframe) /\ <<>> \in Seq(Nat)
  BY EmptySeq
<1>2. /\ NoMessages \in [image : Nat, pose : Nat, point : Nat] /\ NoKeyframe \in Keyframe
      /\ DOMAIN Idle = {"stage", "cur", "first", "vio"} /\ Idle.stage = "idle"
      /\ Idle.cur = None /\ Idle.first = None
  BY DEF NoMessages, NoKeyframe, Keyframe, Idle
<1>3. 1 \in 1 .. MAX_SEQUENCES
  BY SizeAssumption
<1> QED
  BY <1>1, <1>2, <1>3, EmptyStamps DEF Die, TypeOK, NothingToShift

LEMMA TypeOfPair == ASSUME IInv, Pair PROVE TypeOK' /\ NothingToShift'
<1>1. TypeOK /\ StreamInv /\ NothingToShift
  BY DEF IInv
<1>2. /\ image_buf' \in Stamps /\ point_buf' \in Stamps /\ pose_buf' \in Stamps
      /\ taken' \in [image : Nat, pose : Nat, point : Nat]
  BY <1>1, PairKeeps
<1>3. skip_first_cnt' \in Nat /\ pc' \in {"idle", "build"}
  BY <1>1 DEF Pair, TypeOK
<1> QED
  BY <1>1, <1>2, <1>3 DEF Pair, TypeOK, NothingToShift, stream, graph, node, Indices

LEMMA TypeOfBuild == ASSUME IInv, Build PROVE TypeOK' /\ NothingToShift'
<1>1. TypeOK /\ NothingToShift /\ taken.pose \in Nat /\ sequence \in Nat
  BY SizeAssumption DEF IInv, TypeOK
<1>2. shifted' \in BOOLEAN
  BY <1>1 DEF Build, TypeOK
<1>3. cur_kf' \in Keyframe
  <2>1. PICK k \in {0, 1} : cur_kf' = [NoKeyframe EXCEPT !.stamp = taken.pose, !.sequence = sequence,
                                                       !.shifts = k]
    BY DEF Build
  <2>2. cur_kf' = [stamp |-> taken.pose, sequence |-> sequence, loop_index |-> None, shifts |-> k,
                   stale |-> FALSE]
    BY <2>1 DEF NoKeyframe
  <2> QED
    BY <1>1, <2>2 DEF Keyframe
<1>4. drift' \in {"none", "fresh", "stale"} /\ pc' = "detect"
  BY <1>1 DEF Build, TypeOK
<1> QED
  BY <1>1, <1>2, <1>3, <1>4 DEF Build, TypeOK, NothingToShift, stream, buffers, node, Indices

LEMMA TypeOfLoop == ASSUME IInv, NoLoop \/ Loop PROVE TypeOK' /\ NothingToShift'
<1>1. TypeOK /\ NothingToShift /\ NothingRuns
  BY DEF IInv, GraphInv
<1>2. CASE NoLoop
  BY <1>1, <1>2 DEF NoLoop, TypeOK, NothingToShift, stream, buffers, graph, node, Indices
<1>3. CASE Loop
  <2>1. PICK loop \in DetectLoop \ {None}, shift \in BOOLEAN :
          /\ earliest_loop_index' = IF earliest_loop_index = None THEN loop
                                    ELSE Min({earliest_loop_index, loop})
          /\ cur_kf' = [cur_kf EXCEPT !.loop_index = loop, !.shifts = IF shift THEN @ + 1 ELSE @]
          /\ shifted' = (shifted \/ shift)
          /\ drift' = IF shift /\ drift # "none" THEN "stale" ELSE drift
          /\ toShift' = IF shift THEN {i \in Indices : Kf(i).sequence = cur_kf.sequence} ELSE {}
    BY <1>3, Zenon DEF Loop
  <2>2. loop \in Nat
    BY <1>1, DetectedIsOld
  <2>3. earliest_loop_index' \in Nat \union {None}
    BY <1>1, <2>1, <2>2, MinOfTwo DEF TypeOK
  <2>4. cur_kf' \in Keyframe
    <3>1. cur_kf \in Keyframe /\ cur_kf.shifts \in Nat
      BY <1>1 DEF TypeOK, Keyframe
    <3>2. PICK m \in Nat : cur_kf' = [cur_kf EXCEPT !.loop_index = loop, !.shifts = m]
      <4>1. CASE shift
        <5>1. cur_kf.shifts + 1 \in Nat
          BY <3>1
        <5>2. cur_kf' = [cur_kf EXCEPT !.loop_index = loop, !.shifts = @ + 1]
          BY <2>1, <4>1, Zenon
        <5>3. cur_kf' = [cur_kf EXCEPT !.loop_index = loop, !.shifts = cur_kf.shifts + 1]
          BY <5>2
        <5> QED
          BY <5>1, <5>3
      <4>2. CASE ~shift
        BY <2>1, <3>1, <4>2
      <4> QED
        BY <4>1, <4>2
    <3> QED
      BY <2>2, <3>1, <3>2 DEF Keyframe
  <2>5. toShift' \subseteq Indices
    BY <2>1
  <2>6. up /\ pc' = "shift"
    BY <1>1, <1>3 DEF Loop, NothingRuns, TypeOK
  <2>7. shifted' \in BOOLEAN
    BY <1>1, <2>1 DEF TypeOK
  <2>8. drift' \in {"none", "fresh", "stale"}
    BY <1>1, <2>1 DEF TypeOK
  <2> QED
    BY <1>1, <1>3, <2>3, <2>4, <2>5, <2>6, <2>7, <2>8
       DEF Loop, TypeOK, NothingToShift, stream, buffers, node, Indices
<1> QED
  BY <1>2, <1>3

LEMMA TypeOfShift == ASSUME IInv, Shift PROVE TypeOK' /\ NothingToShift'
<1>1. TypeOK /\ NothingToShift /\ NothingRuns
  BY DEF IInv, GraphInv
<1>2. /\ keyframelist' = [keyframelist EXCEPT ![Min(toShift) + 1].shifts = @ + 1,
                                              ![Min(toShift) + 1].stale = TRUE]
      /\ toShift' = toShift \ {Min(toShift)} /\ toShift # {}
      /\ UNCHANGED <<stream, buffers, sequence, pc, taken, skip_first_cnt, cur_kf, earliest_loop_index,
                     shifted, drift, optimize_buf, opt, up, file>>
  BY DEF Shift, node
<1>3. Len(keyframelist) \in Nat /\ DOMAIN keyframelist = 1 .. Len(keyframelist)
  BY <1>1, KeyframesTyped
<1>4. /\ DOMAIN keyframelist' = 1 .. Len(keyframelist)
      /\ \A n \in 1 .. Len(keyframelist) : keyframelist'[n] \in Keyframe
  <2>1. DOMAIN keyframelist' = 1 .. Len(keyframelist)
    BY <1>2, <1>3
  <2>2. ASSUME NEW n \in 1 .. Len(keyframelist) PROVE keyframelist'[n] \in Keyframe
    <3>1. keyframelist[n] \in Keyframe
      BY <1>1, <1>3, ElementOfSeq DEF TypeOK
    <3>2. CASE n = Min(toShift) + 1
      <4>1. keyframelist'[n] = [[keyframelist[n] EXCEPT !.shifts = keyframelist[n].shifts + 1]
                                                 EXCEPT !.stale = TRUE]
        BY <1>2, <1>3, <3>2
      <4>2. [keyframelist[n] EXCEPT !.shifts = keyframelist[n].shifts + 1] \in Keyframe
        BY <3>1 DEF Keyframe
      <4> QED
        BY <4>1, <4>2 DEF Keyframe
    <3>3. CASE n # Min(toShift) + 1
      BY <1>2, <1>3, <3>1, <3>3
    <3> QED
      BY <3>2, <3>3
  <2> QED
    BY <2>1, <2>2
<1>5. keyframelist' \in Seq(Keyframe) /\ Len(keyframelist') = Len(keyframelist)
  <2>1. keyframelist' = [n \in 1 .. Len(keyframelist) |-> keyframelist'[n]]
    BY <1>2, <1>4
  <2>2. [n \in 1 .. Len(keyframelist) |-> keyframelist'[n]] \in Seq(Keyframe)
    BY <1>3, <1>4, IsASeq
  <2>3. keyframelist' \in Seq(Keyframe)
    BY <2>1, <2>2
  <2> QED
    BY <1>3, <1>4, <2>3, LenProperties
<1>6. toShift' \subseteq Indices' /\ Indices' = Indices
  BY <1>1, <1>2, <1>5 DEF TypeOK, Indices
<1> QED
  BY <1>1, <1>2, <1>5, <1>6 DEF TypeOK, NothingToShift, stream, buffers

LEMMA TypeOfAppend == ASSUME IInv, PushOptimize \/ AppendKeyframe PROVE TypeOK' /\ NothingToShift'
<1>1. TypeOK /\ NothingToShift /\ Len(keyframelist) \in Nat
  BY KeyframesTyped DEF IInv
<1>2. CASE PushOptimize
  <2>1. optimize_buf' \in Seq(Nat)
    BY <1>1, <1>2, AppendOfStamps DEF PushOptimize, global_index, TypeOK
  <2> QED
    BY <1>1, <1>2, <2>1 DEF PushOptimize, TypeOK, NothingToShift, stream, buffers, graph, node, Indices
<1>3. CASE AppendKeyframe
  <2>1. [cur_kf EXCEPT !.stale = (drift = "stale")] \in Keyframe
    <3>1. \A b \in BOOLEAN : [cur_kf EXCEPT !.stale = b] \in Keyframe
      BY <1>1 DEF TypeOK, Keyframe
    <3>2. (drift = "stale") \in BOOLEAN
      OBVIOUS
    <3> QED
      BY <3>1, <3>2
  <2>2. keyframelist' \in Seq(Keyframe) /\ Len(keyframelist') = Len(keyframelist) + 1
    BY <1>1, <1>3, <2>1, AppendOfStamps DEF AppendKeyframe, TypeOK
  <2>3. Indices \subseteq Indices'
    BY <1>1, <2>2 DEF Indices
  <2> QED
    BY <1>1, <1>3, <2>2, <2>3 DEF AppendKeyframe, TypeOK, NothingToShift, stream, buffers, node
<1> QED
  BY <1>2, <1>3

LEMMA TypeOfOptimization == ASSUME IInv, Take \/ Collect \/ Apply PROVE TypeOK' /\ NothingToShift'
<1>1. TypeOK /\ NothingToShift
  BY DEF IInv
<1>2. CASE Take
  <2>1. <<>> \in Seq(Nat)
    BY EmptySeq
  <2>2. optimize_buf[Len(optimize_buf)] \in Nat
    <3>1. optimize_buf \in Seq(Nat) /\ optimize_buf # <<>>
      BY <1>1, <1>2 DEF Take, TypeOK
    <3>2. DOMAIN optimize_buf = 1 .. Len(optimize_buf) /\ 1 \in DOMAIN optimize_buf
      BY <3>1, TailOfStamps, LenProperties
    <3> QED
      BY <3>1, <3>2, ElementOfSeq
  <2> QED
    BY <1>1, <1>2, <2>1, <2>2 DEF Take, Back, TypeOK, NothingToShift, stream, buffers, process, graph, node,
                                  Indices
<1>3. CASE Collect
  <2>1. PICK v : opt' = [opt EXCEPT !.stage = "solve", !.vio = v]
    BY <1>3 DEF Collect
  <2>2. /\ DOMAIN opt' = {"stage", "cur", "first", "vio"} /\ opt'.stage = "solve"
        /\ opt'.cur = opt.cur /\ opt'.first = opt.first
    BY <1>1, <2>1 DEF TypeOK
  <2> QED
    BY <1>1, <1>3, <2>2 DEF Collect, TypeOK, NothingToShift, stream, buffers, process, graph, node, Indices
<1>4. CASE Apply
  <2>1. PICK b \in BOOLEAN :
          keyframelist' = [n \in DOMAIN keyframelist |->
                             [keyframelist[n] EXCEPT !.stale = PoseIsStale(n - 1, b)]]
    <3>1. (Moved(opt.cur) \/ opt.cur \in toShift) \in BOOLEAN
      OBVIOUS
    <3> QED
      BY <1>4, <3>1 DEF Apply
  <2>2. drift' \in {"none", "fresh", "stale"}
    BY <1>4 DEF Apply
  <2>3. Len(keyframelist) \in Nat /\ DOMAIN keyframelist = 1 .. Len(keyframelist)
    BY <1>1, KeyframesTyped
  <2>4. ASSUME NEW n \in 1 .. Len(keyframelist)
        PROVE  [keyframelist[n] EXCEPT !.stale = PoseIsStale(n - 1, b)] \in Keyframe
    <3>1. keyframelist[n] \in Keyframe
      BY <1>1, <2>3, ElementOfSeq DEF TypeOK
    <3>2. PoseIsStale(n - 1, b) \in BOOLEAN
      <4>1. n - 1 \in Indices /\ Kf(n - 1) = keyframelist[n]
        BY <2>3 DEF Indices, Kf
      <4>2. Kf(n - 1).stale \in BOOLEAN
        BY <3>1, <4>1 DEF Keyframe
      <4> QED
        BY <4>2 DEF PoseIsStale, Moved
    <3> QED
      BY <3>1, <3>2 DEF Keyframe
  <2>5. keyframelist' \in Seq(Keyframe) /\ Len(keyframelist') = Len(keyframelist)
    <3>1. keyframelist' \in Seq(Keyframe)
      BY <2>1, <2>3, <2>4, IsASeq
    <3> QED
      BY <2>1, <2>3, <3>1, LenProperties
  <2>6. /\ DOMAIN opt' = {"stage", "cur", "first", "vio"} /\ opt'.stage = "idle"
        /\ opt'.cur = None /\ opt'.first = None
    BY <1>4 DEF Apply, Idle
  <2>7. Indices' = Indices
    BY <2>5 DEF Indices
  <2> QED
    BY <1>1, <1>4, <2>2, <2>5, <2>6, <2>7 DEF Apply, TypeOK, NothingToShift, stream, buffers, process, node
<1> QED
  BY <1>2, <1>3, <1>4

LEMMA TypeOfRestart == ASSUME IInv, Restart PROVE TypeOK' /\ NothingToShift'
<1>1. TypeOK /\ NothingToShift
  BY DEF IInv
<1>2. PICK loops \in {file, <<>>} : keyframelist' = Loaded(loops) /\ earliest_loop_index' = Earliest(loops)
  BY DEF Restart
<1>3. loops \in Seq(Nat \union {None})
  BY <1>1, <1>2, EmptySeq DEF TypeOK
<1>4. Len(loops) \in Nat /\ DOMAIN loops = 1 .. Len(loops) /\ \A n \in DOMAIN loops : loops[n] \in Nat \union {None}
  BY <1>3, LenProperties, ElementOfSeq
<1>5. \A n \in 1 .. Len(loops) : [NoKeyframe EXCEPT !.loop_index = loops[n]] \in Keyframe
  BY <1>4 DEF NoKeyframe, Keyframe
<1>6. keyframelist' \in Seq(Keyframe)
  BY <1>2, <1>4, <1>5, IsASeq DEF Loaded
<1>7. earliest_loop_index' \in Nat \union {None}
  BY <1>2, <1>3, EarliestBelow
<1>8. toShift' = {} /\ up' = TRUE
  BY <1>1 DEF Restart, NothingToShift, process
<1> QED
  BY <1>1, <1>6, <1>7, <1>8 DEF Restart, TypeOK, NothingToShift, stream, buffers, process

LEMMA NextIInv == IInv /\ [Next]_vars => IInv'
<1> SUFFICES ASSUME IInv, [Next]_vars PROVE IInv'
  OBVIOUS
<1>1. StreamInv' /\ GraphInv'
  BY StreamKeeps, GraphKeeps DEF IInv
<1>2. CASE Break \/ Crash
  <2>1. Die /\ file' \in Seq(Nat \union {None})
    BY <1>2 DEF Break, Crash, IInv, TypeOK
  <2> QED
    BY <1>1, <2>1, TypeOfDie DEF IInv
<1>3. CASE CommandSave
  <2>1. Die /\ file' \in Seq(Nat \union {None})
    BY <1>3, SavedIsBack DEF CommandSave, IInv
  <2> QED
    BY <1>1, <2>1, TypeOfDie DEF IInv
<1>4. CASE /\ ~(Break \/ Crash) /\ ~CommandSave
  <2>1. TypeOK' /\ NothingToShift'
    BY <1>4, TypeOfStream, TypeOfPair, TypeOfBuild, TypeOfLoop, TypeOfShift, TypeOfAppend,
       TypeOfOptimization, TypeOfRestart DEF Next
  <2> QED
    BY <1>1, <2>1 DEF IInv
<1> QED
  BY <1>2, <1>3, <1>4

LEMMA InitIInv == Init => IInv
<1> SUFFICES ASSUME Init PROVE IInv
  OBVIOUS
<1>1. file \in Seq(Nat \union {None}) /\ LoopsBack(file)
  BY BaseAssumption DEF Init
<1>2. StreamInv
  BY InitStream
<1>3. Len(file) \in Nat /\ DOMAIN file = 1 .. Len(file) /\ \A n \in DOMAIN file : file[n] \in Nat \union {None}
  BY <1>1, LenProperties, ElementOfSeq
<1>4. /\ keyframelist = [n \in 1 .. Len(file) |-> [NoKeyframe EXCEPT !.loop_index = file[n]]]
      /\ earliest_loop_index = Earliest(file)
  BY <1>3 DEF Init, Start, Loaded
<1>5. keyframelist \in Seq(Keyframe)
  <2>1. \A n \in 1 .. Len(file) : [NoKeyframe EXCEPT !.loop_index = file[n]] \in Keyframe
    BY <1>3 DEF NoKeyframe, Keyframe
  <2> QED
    BY <1>3, <1>4, <2>1, IsASeq
<1>6. earliest_loop_index \in Nat \union {None}
  BY <1>1, <1>4, EarliestBelow
<1>7. <<>> \in Seq(Nat) /\ <<>> \in Stamps
  BY EmptySeq, EmptyStamps
<1>8. TypeOK
  <2>1. /\ NoMessages \in [image : Nat, pose : Nat, point : Nat] /\ NoKeyframe \in Keyframe
        /\ DOMAIN Idle = {"stage", "cur", "first", "vio"} /\ Idle.stage = "idle"
        /\ Idle.cur = None /\ Idle.first = None
    BY DEF NoMessages, NoKeyframe, Keyframe, Idle
  <2>2. 1 \in 1 .. MAX_SEQUENCES
    BY SizeAssumption
  <2>3. /\ now = 0 /\ newest = 0 /\ 0 \in Nat /\ 0 \in 0 .. 0 /\ toShift = {}
        /\ shifted = FALSE /\ up = TRUE /\ drift = "none" /\ opt = Idle
        /\ pc = "idle" /\ skip_first_cnt = 0 /\ sequence = 1 /\ last_image_time = None
    BY DEF Init
  <2>4. /\ toPose = <<>> /\ toPoint = <<>> /\ image_buf = <<>> /\ point_buf = <<>> /\ pose_buf = <<>>
        /\ optimize_buf = <<>> /\ taken = NoMessages /\ cur_kf = NoKeyframe
    BY DEF Init
  <2> QED
    BY <1>1, <1>5, <1>6, <1>7, <2>1, <2>2, <2>3, <2>4 DEF TypeOK
<1>9. GraphLoops
  <2>1. Len(keyframelist) = Len(file)
    BY <1>3, <1>4, <1>5, LenProperties
  <2> SUFFICES ASSUME NEW i \in 0 .. Len(file) - 1 PROVE LoopBack(Kf(i).loop_index, i)
    BY <2>1 DEF GraphLoops, Indices
  <2>2. i + 1 \in 1 .. Len(file)
    BY <1>3
  <2>3. Kf(i).loop_index = file[i + 1]
    BY <1>4, <2>2 DEF Kf, NoKeyframe
  <2>4. file[i + 1] # None => file[i + 1] \in 0 .. i - Recent - 1
    <3>1. file[i + 1] # None => file[i + 1] \in 0 .. (i + 1) - Recent - 2
      BY <1>1, <1>3, <2>2 DEF LoopsBack
    <3>2. (i + 1) - Recent - 2 = i - Recent - 1
      BY <2>2, SizeAssumption
    <3> QED
      BY <3>1, <3>2
  <2>5. file[i + 1] # None => Earliest(file) # None /\ Earliest(file) <= file[i + 1]
    BY <1>1, <1>3, <2>2, EarliestBelow
  <2> QED
    BY <1>4, <2>3, <2>4, <2>5 DEF LoopBack
<1>10. QueueLoops
  BY EmptyStamps DEF Init, QueueLoops
<1>11. CurrentLoop /\ TakenLoops /\ SavedLoops /\ NothingRuns /\ NothingToShift
  BY <1>1 DEF Init, CurrentLoop, TakenLoops, SavedLoops, NothingRuns, NothingToShift, Idle
<1> QED
  BY <1>2, <1>8, <1>9, <1>10, <1>11 DEF IInv, GraphInv

THEOREM Invariant == Spec => []IInv
  BY InitIInv, NextIInv, PTL DEF Spec

(* The node's callbacks and threads keep their variables' types.           *)
THEOREM TypeCorrect == Spec => []TypeOK
  BY Invariant, PTL DEF IInv

(* process() pairs messages of one stamp (pose_graph_node.cpp:255-290).    *)
THEOREM PairsAreOfOneImage == Spec => []PairsSameStamp
<1>1. IInv => PairsSameStamp
  BY DEF IInv, StreamInv
<1> QED
  BY <1>1, Invariant, PTL

(* The assertion of the optimization holds (pose_graph.cpp:531).           *)
THEOREM LoopsStayInside == Spec => []LoopEdgesInside
<1>1. IInv => LoopEdgesInside
  <2> SUFFICES ASSUME IInv, opt.stage = "taken", NEW i \in Indices, i \in opt.first .. opt.cur,
                      Kf(i).loop_index # None
               PROVE  Kf(i).loop_index \in opt.first .. i - Recent - 1
    BY DEF LoopEdgesInside
  <2>1. Kf(i).loop_index \in 0 .. i - Recent - 1
    BY DEF IInv, GraphInv, GraphLoops, LoopBack
  <2>2. i <= opt.cur /\ opt.first \in Nat
    <3>1. opt.first # None /\ opt.first \in Nat \union {None} /\ opt.cur \in Nat \union {None}
      BY DEF IInv, GraphInv, TakenLoops, TypeOK
    <3> QED
      BY <3>1 DEF None
  <2>3. opt.first <= Kf(i).loop_index
    BY <2>2 DEF IInv, GraphInv, TakenLoops
  <2> QED
    BY <2>1, <2>2, <2>3
<1> QED
  BY <1>1, Invariant, PTL
-----------------------------------------------------------------------------
(* A sequence has one shift, and the frames catch up.                      *)

(* A keyframe of the current sequence is shifted once at most.             *)
Level == IF shifted THEN 1 ELSE 0

Adding == pc \in {"detect", "shift", "append"}

(* Keyframes are in the order of their sequences.                          *)
SequencesGrow ==
  /\ \A i, j \in Indices : i <= j => Kf(i).sequence <= Kf(j).sequence
  /\ \A i \in Indices : Kf(i).sequence <= sequence /\ (Adding => Kf(i).sequence <= cur_kf.sequence)
  /\ Adding => cur_kf.sequence <= sequence

(* earliest_loop_index only falls, so it is at or before the first frame   *)
(* of every optimization.                                                  *)
EarliestInside ==
  /\ earliest_loop_index # None => earliest_loop_index \in Indices
  /\ \A k \in DOMAIN optimize_buf : earliest_loop_index # None /\ earliest_loop_index <= optimize_buf[k]
  /\ opt.stage # "idle" => /\ opt.first \in Indices /\ opt.first <= opt.cur
                           /\ earliest_loop_index # None /\ earliest_loop_index <= opt.first
  /\ drift = "stale" => earliest_loop_index # None

ShiftsInTurn == toShift # {} => pc = "shift"

(* What an optimization is to make good is among its frames.               *)
StaleFromEarliest ==
  \A i \in Indices :
    Kf(i).stale \/ i \in toShift => earliest_loop_index # None /\ earliest_loop_index <= i

(* If none is queued or about to be, the one that runs does.               *)
Pending == pc = "shift" \/ optimize_buf # <<>>

IdleSettled == ~Pending /\ opt.stage = "idle" => drift # "stale" /\ \A i \in Indices : ~Kf(i).stale
RunsCover ==
  ~Pending /\ (opt.stage = "taken" \/ (opt.stage = "solve" /\ opt.vio # <<>>)) =>
    \A i \in Indices : Kf(i).stale => opt.first <= i
SolvesTheLatest ==
  opt.stage = "solve" /\ opt.vio # <<>> =>
    /\ opt.cur \in Indices
    /\ ~Pending => \A i \in opt.first .. opt.cur : opt.vio[i] = Kf(i).shifts

(* sequence_loop has a place per sequence that was begun.                  *)
SequencesCounted ==
  /\ sequence_cnt \in Nat
  /\ sequence_loop \in Seq({0, 1}) /\ Len(sequence_loop) = sequence_cnt + 1

(* Unless a number was skipped, that of the keyframe is the last.          *)
CurrentLevel ==
  ~skipped =>
    /\ sequence_loop[sequence_cnt + 1] = Level
    /\ \A i \in Indices : Kf(i).sequence <= sequence_cnt
    /\ Adding => cur_kf.sequence = sequence_cnt /\ cur_kf.shifts = Level

OneShift ==
  ~skipped =>
    /\ \A i \in Indices : Kf(i).sequence = sequence_cnt /\ i \notin toShift => Kf(i).shifts = Level
    /\ \A i \in toShift : Kf(i).sequence = sequence_cnt /\ Kf(i).shifts = 0 /\ shifted
    /\ \A i, j \in Indices : Kf(i).sequence = Kf(j).sequence /\ Kf(i).sequence < sequence_cnt
                             => Kf(i).shifts = Kf(j).shifts

FreshWhenDown ==
  ~up => /\ keyframelist = <<>> /\ earliest_loop_index = None
         /\ sequence_cnt = 0 /\ sequence_loop = <<0>> /\ shifted = FALSE /\ drift = "none"

SInv == /\ SequencesGrow /\ EarliestInside /\ ShiftsInTurn /\ StaleFromEarliest
        /\ IdleSettled /\ RunsCover /\ SolvesTheLatest
        /\ SequencesCounted /\ CurrentLevel /\ OneShift /\ FreshWhenDown

LEMMA KfFields ==
  ASSUME TypeOK
  PROVE  /\ \A i \in Indices : i \in Nat /\ Kf(i).sequence \in Nat /\ Kf(i).shifts \in Nat
         /\ cur_kf.sequence \in Nat /\ cur_kf.shifts \in Nat /\ sequence \in Nat
         /\ Len(keyframelist) \in Nat /\ Indices = 0 .. Len(keyframelist) - 1
<1>1. \A k \in Keyframe : k.sequence \in Nat /\ k.shifts \in Nat
  BY DEF Keyframe
<1>2. cur_kf \in Keyframe /\ sequence \in Nat
  BY SizeAssumption DEF TypeOK
<1> QED
  BY <1>1, <1>2, KeyframesTyped DEF Indices

settleVars == <<process, graph, drift, optimize_buf, opt, up, sequence>>

LEMMA SettleUnchanged == SInv /\ UNCHANGED settleVars => SInv'
<1> SUFFICES ASSUME SInv, UNCHANGED settleVars PROVE SInv'
  OBVIOUS
<1>1. UNCHANGED <<pc, cur_kf, toShift, keyframelist, earliest_loop_index, sequence_cnt, sequence_loop,
                  shifted, skipped, drift, optimize_buf, opt, up, sequence>>
  BY DEF settleVars, process, graph
<1>2. Indices' = Indices /\ \A i : Kf(i)' = Kf(i)
  BY <1>1 DEF Indices, Kf
<1>3. SequencesGrow' /\ EarliestInside' /\ ShiftsInTurn' /\ StaleFromEarliest'
  BY <1>1, <1>2 DEF SInv, SequencesGrow, EarliestInside, ShiftsInTurn, StaleFromEarliest, Adding
<1>4. IdleSettled' /\ RunsCover' /\ SolvesTheLatest'
  BY <1>1, <1>2 DEF SInv, IdleSettled, RunsCover, SolvesTheLatest, Pending
<1>5. SequencesCounted' /\ CurrentLevel' /\ OneShift' /\ FreshWhenDown'
  BY <1>1, <1>2 DEF SInv, SequencesCounted, CurrentLevel, OneShift, FreshWhenDown, Adding, Level
<1> QED
  BY <1>3, <1>4, <1>5 DEF SInv

(* A sequence that begins is the newest.                                   *)
LEMMA ImagesSettle == IInv /\ SInv /\ (ImageCallback \/ CommandNew) => SInv'
<1> SUFFICES ASSUME IInv, SInv, ImageCallback \/ CommandNew PROVE SInv'
  OBVIOUS
<1>1. /\ sequence' \in {sequence, sequence + 1}
      /\ UNCHANGED <<process, graph, drift, optimize_buf, opt, up>>
  BY DEF ImageCallback, CommandNew, NewSequence, node
<1>2. CASE sequence' = sequence
  BY <1>1, <1>2, SettleUnchanged DEF settleVars
<1>3. CASE sequence' = sequence + 1
  <2>1. UNCHANGED <<pc, cur_kf, toShift, keyframelist, earliest_loop_index, sequence_cnt, sequence_loop,
                    shifted, skipped, drift, optimize_buf, opt, up>>
    BY <1>1 DEF process, graph
  <2>2. Indices' = Indices /\ \A i : Kf(i)' = Kf(i)
    BY <2>1 DEF Indices, Kf
  <2>3. SequencesGrow'
    <3>1. \A i \in Indices : Kf(i).sequence \in Nat /\ Kf(i).sequence <= sequence
      BY KfFields DEF IInv, SInv, SequencesGrow
    <3>2. cur_kf.sequence \in Nat /\ sequence \in Nat
      BY KfFields DEF IInv
    <3>3. \A i \in Indices : Kf(i).sequence <= sequence + 1
      BY <3>1, <3>2
    <3> QED
      BY <1>3, <2>1, <2>2, <3>2, <3>3 DEF SInv, SequencesGrow, Adding
  <2>4. EarliestInside' /\ ShiftsInTurn' /\ StaleFromEarliest'
    BY <2>1, <2>2 DEF SInv, EarliestInside, ShiftsInTurn, StaleFromEarliest
  <2>5. IdleSettled' /\ RunsCover' /\ SolvesTheLatest'
    BY <2>1, <2>2 DEF SInv, IdleSettled, RunsCover, SolvesTheLatest, Pending
  <2>6. SequencesCounted' /\ CurrentLevel' /\ OneShift' /\ FreshWhenDown'
    BY <2>1, <2>2 DEF SInv, SequencesCounted, CurrentLevel, OneShift, FreshWhenDown, Adding, Level
  <2> QED
    BY <2>3, <2>4, <2>5, <2>6 DEF SInv
<1> QED
  BY <1>1, <1>2, <1>3

(* Between keyframes, or with a keyframe that has met no other.            *)
LEMMA PlaceSettles == IInv /\ SInv /\ (Pair \/ NoLoop) => SInv'
<1> SUFFICES ASSUME IInv, SInv, Pair \/ NoLoop PROVE SInv'
  OBVIOUS
<1>1. /\ UNCHANGED <<cur_kf, toShift, keyframelist, earliest_loop_index, sequence_cnt, sequence_loop,
                     shifted, skipped, drift, optimize_buf, opt, up, sequence>>
      /\ pc # "shift" /\ pc' # "shift" /\ Adding' = Adding
  <2>1. CASE Pair
    BY <2>1 DEF Pair, Buffered, graph, node, Adding
  <2>2. CASE NoLoop
    BY <2>2 DEF NoLoop, process, graph, node, Adding
  <2> QED
    BY <2>1, <2>2
<1>2. Indices' = Indices /\ \A i : Kf(i)' = Kf(i)
  BY <1>1 DEF Indices, Kf
<1>3. SequencesGrow' /\ EarliestInside' /\ ShiftsInTurn' /\ StaleFromEarliest'
  BY <1>1, <1>2 DEF SInv, SequencesGrow, EarliestInside, ShiftsInTurn, StaleFromEarliest
<1>4. IdleSettled' /\ RunsCover' /\ SolvesTheLatest'
  BY <1>1, <1>2 DEF SInv, IdleSettled, RunsCover, SolvesTheLatest, Pending
<1>5. SequencesCounted' /\ CurrentLevel' /\ OneShift' /\ FreshWhenDown'
  BY <1>1, <1>2 DEF SInv, SequencesCounted, CurrentLevel, OneShift, FreshWhenDown, Level
<1> QED
  BY <1>3, <1>4, <1>5 DEF SInv

(* A keyframe that begins a sequence, and one that goes on.                *)
LEMMA BuildSettles == IInv /\ SInv /\ Build => SInv'
<1> SUFFICES ASSUME IInv, SInv, Build PROVE SInv'
  OBVIOUS
<1>1. TypeOK /\ pc = "build" /\ pc' = "detect" /\ up
  BY DEF Build, IInv, GraphInv, NothingRuns, TypeOK
<1>2. UNCHANGED <<toShift, keyframelist, earliest_loop_index, optimize_buf, opt, up, sequence>>
  BY DEF Build, node
<1>3. Indices' = Indices /\ \A i : Kf(i)' = Kf(i)
  BY <1>2 DEF Indices, Kf
<1>4. toShift = {}
  BY <1>1 DEF SInv, ShiftsInTurn
<1>5. cur_kf'.sequence = sequence /\ cur_kf'.shifts = IF shifted' THEN 1 ELSE 0
  <2>1. PICK k : /\ k = IF shifted' THEN 1 ELSE 0
                 /\ cur_kf' = [NoKeyframe EXCEPT !.stamp = taken.pose, !.sequence = sequence, !.shifts = k]
    BY Zenon DEF Build
  <2> QED
    BY <2>1 DEF NoKeyframe
<1>6. \/ sequence_cnt # sequence /\ sequence_cnt' = sequence_cnt + 1 /\ drift' = "none"
         /\ sequence_loop' = Append(sequence_loop, 0) /\ shifted' = FALSE
      \/ sequence_cnt = sequence /\ UNCHANGED <<sequence_cnt, sequence_loop, drift, shifted>>
  <2>1. CASE sequence_cnt # sequence
    BY <2>1, Zenon DEF Build
  <2>2. CASE sequence_cnt = sequence
    <3>1. UNCHANGED <<sequence_cnt, sequence_loop, drift>> /\ shifted' = (shifted /\ TRUE)
      BY <2>2 DEF Build
    <3>2. shifted \in BOOLEAN
      BY <1>1 DEF TypeOK
    <3> QED
      BY <2>2, <3>1, <3>2
  <2> QED
    BY <2>1, <2>2
<1>7. skipped' = (skipped \/ sequence_cnt' # sequence)
  BY DEF Build
<1>8. ~skipped' => ~skipped /\ sequence_cnt' = sequence
  BY <1>7
<1>9. sequence_cnt \in Nat /\ sequence_loop \in Seq({0, 1}) /\ Len(sequence_loop) = sequence_cnt + 1
  BY DEF SInv, SequencesCounted
<1>10. SequencesGrow'
  BY <1>1, <1>2, <1>3, <1>5, KfFields DEF SInv, SequencesGrow, Adding
<1>11. EarliestInside' /\ ShiftsInTurn' /\ StaleFromEarliest'
  BY <1>1, <1>2, <1>3, <1>4, <1>6 DEF SInv, EarliestInside, ShiftsInTurn, StaleFromEarliest
<1>12. IdleSettled' /\ RunsCover' /\ SolvesTheLatest'
  BY <1>1, <1>2, <1>3, <1>6 DEF SInv, IdleSettled, RunsCover, SolvesTheLatest, Pending
<1>13. /\ SequencesCounted'
       /\ sequence_cnt # sequence => sequence_loop'[sequence_cnt' + 1] = 0
  <2>1. CASE sequence_cnt # sequence
    <3>1. /\ Append(sequence_loop, 0) \in Seq({0, 1})
          /\ Len(Append(sequence_loop, 0)) = Len(sequence_loop) + 1
          /\ Append(sequence_loop, 0)[Len(sequence_loop) + 1] = 0
      BY <1>9, AppendProperties
    <3>2. sequence_cnt' = sequence_cnt + 1 /\ sequence_loop' = Append(sequence_loop, 0)
      BY <2>1, <1>6
    <3>3. SequencesCounted'
      BY <3>1, <3>2, <1>9 DEF SequencesCounted
    <3>4. sequence_cnt' + 1 = Len(sequence_loop) + 1
      BY <3>2, <1>9
    <3> QED
      BY <3>1, <3>2, <3>3, <3>4
  <2>2. CASE sequence_cnt = sequence
    BY <2>2, <1>6, <1>9 DEF SequencesCounted
  <2> QED
    BY <2>1, <2>2
<1>14. ASSUME ~skipped' PROVE CurrentLevel' /\ OneShift'
  <2>1. ~skipped /\ sequence_cnt' = sequence
    BY <1>8, <1>14
  <2>2. /\ sequence_loop[sequence_cnt + 1] = Level
        /\ \A i \in Indices : Kf(i).sequence <= sequence_cnt
    BY <2>1 DEF SInv, CurrentLevel
  <2>3. \A i \in Indices : Kf(i).sequence \in Nat /\ Kf(i).shifts \in Nat
    BY <1>1, KfFields
  <2>4. CASE sequence_cnt = sequence
    <3>1. Level' = Level
      BY <2>4, <1>6 DEF Level
    <3>2. CurrentLevel'
      BY <2>2, <2>4, <3>1, <1>3, <1>5, <1>6 DEF CurrentLevel, Level
    <3>3. OneShift'
      BY <2>1, <2>4, <3>1, <1>2, <1>3, <1>6 DEF SInv, OneShift
    <3> QED
      BY <3>2, <3>3
  <2>5. CASE sequence_cnt # sequence
    <3>1. Level' = 0 /\ sequence_cnt' = sequence_cnt + 1
      BY <2>5, <1>6 DEF Level
    <3>2. \A i \in Indices : Kf(i).sequence <= sequence_cnt' /\ Kf(i).sequence # sequence_cnt'
      BY <2>2, <2>3, <3>1, <1>9
    <3>3. CurrentLevel'
      BY <2>1, <2>5, <3>1, <3>2, <1>3, <1>5, <1>13 DEF CurrentLevel, Level
    <3>4. ASSUME NEW i \in Indices, NEW j \in Indices, Kf(i).sequence = Kf(j).sequence
          PROVE  Kf(i).shifts = Kf(j).shifts
      <4>1. CASE Kf(i).sequence = sequence_cnt
        BY <2>1, <3>4, <4>1, <1>4 DEF SInv, OneShift
      <4>2. CASE Kf(i).sequence < sequence_cnt
        BY <2>1, <3>4, <4>2 DEF SInv, OneShift
      <4> QED
        BY <4>1, <4>2, <2>2, <2>3, <1>9
    <3>5. OneShift'
      BY <3>2, <3>4, <1>2, <1>3, <1>4 DEF OneShift
    <3> QED
      BY <3>3, <3>5
  <2> QED
    BY <2>4, <2>5
<1>15. CurrentLevel' /\ OneShift'
  BY <1>14 DEF CurrentLevel, OneShift
<1>16. FreshWhenDown'
  BY <1>1, <1>2 DEF FreshWhenDown
<1> QED
  BY <1>10, <1>11, <1>12, <1>13, <1>15, <1>16 DEF SInv

(* What Loop does; looped is sequence_loop's entry.                        *)
LEMMA LoopDoes ==
  ASSUME IInv, SInv, Loop
  PROVE  \E loop \in Indices : \E shift \in BOOLEAN :
           /\ shift => Kf(loop).sequence # cur_kf.sequence
           /\ shift /\ ~skipped => shifted = FALSE
           /\ earliest_loop_index' \in Nat /\ earliest_loop_index' <= loop
           /\ earliest_loop_index # None => earliest_loop_index' <= earliest_loop_index
           /\ earliest_loop_index' \in Indices
           /\ cur_kf'.sequence = cur_kf.sequence
           /\ cur_kf'.shifts = IF shift THEN cur_kf.shifts + 1 ELSE cur_kf.shifts
           /\ shift => shifted' = TRUE /\ toShift' = {i \in Indices : Kf(i).sequence = cur_kf.sequence}
           /\ ~shift => shifted' = shifted /\ toShift' = {} /\ sequence_loop' = sequence_loop
           /\ sequence_loop' \in Seq({0, 1}) /\ Len(sequence_loop') = Len(sequence_loop)
           /\ shift /\ cur_kf.sequence = sequence_cnt => sequence_loop'[sequence_cnt + 1] = 1
<1>1. PICK loop \in DetectLoop \ {None}, looped \in SequenceLoop(cur_kf.sequence), shift \in BOOLEAN :
        /\ shift <=> Kf(loop).sequence # cur_kf.sequence /\ looped = 0
        /\ earliest_loop_index' = IF earliest_loop_index = None THEN loop
                                  ELSE Min({earliest_loop_index, loop})
        /\ cur_kf' = [cur_kf EXCEPT !.loop_index = loop, !.shifts = IF shift THEN @ + 1 ELSE @]
        /\ shifted' = (shifted \/ shift)
        /\ toShift' = IF shift THEN {i \in Indices : Kf(i).sequence = cur_kf.sequence} ELSE {}
        /\ sequence_loop' = IF shift /\ cur_kf.sequence < Len(sequence_loop)
                            THEN [sequence_loop EXCEPT ![cur_kf.sequence + 1] = 1]
                            ELSE sequence_loop
  BY Zenon DEF Loop
<1>2. TypeOK /\ pc = "detect" /\ shifted \in BOOLEAN
  BY DEF Loop, IInv, TypeOK
<1>3. loop \in Nat /\ loop \in 0 .. Len(keyframelist) - Recent - 1
  BY <1>1, <1>2, DetectedIsOld
<1>4. loop \in Indices /\ Indices = 0 .. Len(keyframelist) - 1 /\ Len(keyframelist) \in Nat
  BY <1>2, <1>3, KfFields, SizeAssumption
<1>5. sequence_cnt \in Nat /\ sequence_loop \in Seq({0, 1}) /\ Len(sequence_loop) = sequence_cnt + 1
  BY DEF SInv, SequencesCounted
<1>6. /\ earliest_loop_index' \in Nat /\ earliest_loop_index' <= loop
      /\ earliest_loop_index # None => earliest_loop_index' <= earliest_loop_index
  <2>1. CASE earliest_loop_index = None
    BY <1>1, <1>3, <2>1
  <2>2. CASE earliest_loop_index # None
    <3>1. earliest_loop_index \in Nat /\ earliest_loop_index' = Min({earliest_loop_index, loop})
      BY <1>1, <1>2, <2>2 DEF TypeOK
    <3> QED
      BY <1>3, <3>1, MinOfTwo
  <2> QED
    BY <2>1, <2>2
<1>7. earliest_loop_index' \in Indices
  BY <1>3, <1>4, <1>6
<1>8. /\ cur_kf'.sequence = cur_kf.sequence
      /\ cur_kf'.shifts = IF shift THEN cur_kf.shifts + 1 ELSE cur_kf.shifts
  <2>1. cur_kf \in Keyframe
    BY <1>2 DEF TypeOK
  <2>2. CASE shift
    <3>1. cur_kf' = [cur_kf EXCEPT !.loop_index = loop, !.shifts = @ + 1]
      BY <1>1, <2>2, Zenon
    <3>2. cur_kf' = [[cur_kf EXCEPT !.loop_index = loop] EXCEPT !.shifts = cur_kf.shifts + 1]
      BY <2>1, <3>1 DEF Keyframe
    <3> QED
      BY <2>1, <2>2, <3>2 DEF Keyframe
  <2>3. CASE ~shift
    <3>1. cur_kf' = [cur_kf EXCEPT !.loop_index = loop, !.shifts = @]
      BY <1>1, <2>3, Zenon
    <3> QED
      BY <2>1, <2>3, <3>1 DEF Keyframe
  <2> QED
    BY <2>2, <2>3
<1>9. shift => shifted' = TRUE /\ toShift' = {i \in Indices : Kf(i).sequence = cur_kf.sequence}
  BY <1>1, Zenon
<1>10. ~shift => shifted' = shifted /\ toShift' = {} /\ sequence_loop' = sequence_loop
  BY <1>1, <1>2
<1>11. \/ sequence_loop' = sequence_loop
       \/ sequence_loop' = [sequence_loop EXCEPT ![cur_kf.sequence + 1] = 1]
  BY <1>1, Zenon
<1>12. cur_kf.sequence \in Nat /\ DOMAIN sequence_loop = 1 .. sequence_cnt + 1
  BY <1>2, <1>5, KfFields, LenProperties
<1>13. sequence_loop' \in Seq({0, 1}) /\ Len(sequence_loop') = Len(sequence_loop)
  <2>1. CASE sequence_loop' = sequence_loop
    BY <1>5, <2>1
  <2>2. CASE sequence_loop' = [sequence_loop EXCEPT ![cur_kf.sequence + 1] = 1]
    <3>1. DOMAIN sequence_loop' = 1 .. sequence_cnt + 1
      BY <2>2, <1>12
    <3>2. \A n \in 1 .. sequence_cnt + 1 : sequence_loop[n] \in {0, 1}
      BY <1>5, <1>12, ElementOfSeq
    <3>3. \A n \in 1 .. sequence_cnt + 1 : sequence_loop'[n] \in {0, 1}
      BY <2>2, <1>12, <3>2
    <3>4. sequence_loop' = [n \in 1 .. sequence_cnt + 1 |-> sequence_loop'[n]]
      BY <2>2, <3>1
    <3>5. [n \in 1 .. sequence_cnt + 1 |-> sequence_loop'[n]] \in Seq({0, 1})
      BY <1>5, <3>3, IsASeq
    <3>6. sequence_loop' \in Seq({0, 1})
      BY <3>4, <3>5
    <3> QED
      BY <1>5, <3>1, <3>6, LenProperties
  <2> QED
    BY <1>11, <2>1, <2>2
<1>14. ASSUME shift, cur_kf.sequence = sequence_cnt PROVE sequence_loop'[sequence_cnt + 1] = 1
  <2>1. sequence_loop' = [sequence_loop EXCEPT ![sequence_cnt + 1] = 1]
    BY <1>1, <1>5, <1>14
  <2> QED
    BY <2>1, <1>5, <1>12
<1>15. ASSUME shift, ~skipped PROVE shifted = FALSE
  <2>1. sequence_loop[sequence_cnt + 1] = Level /\ cur_kf.sequence = sequence_cnt
    BY <1>2, <1>15 DEF SInv, CurrentLevel, Adding
  <2>2. looped = sequence_loop[sequence_cnt + 1]
    BY <1>1, <1>5, <2>1 DEF SequenceLoop
  <2>3. Level = 0
    BY <1>1, <1>15, <2>1, <2>2
  <2> QED
    BY <1>2, <2>3 DEF Level
<1>16. shift => Kf(loop).sequence # cur_kf.sequence
  BY <1>1
<1> HIDE DEF Indices, Kf
<1> QED
  BY <1>4, <1>6, <1>7, <1>8, <1>9, <1>10, <1>13, <1>14, <1>15, <1>16

(* The loop leads to an older sequence, so all that is to be shifted lies  *)
(* after earliest_loop_index.                                              *)
LEMMA LoopSettles == IInv /\ SInv /\ Loop => SInv'
<1> SUFFICES ASSUME IInv, SInv, Loop PROVE SInv'
  OBVIOUS
<1>1. PICK loop \in Indices, shift \in BOOLEAN :
           /\ shift => Kf(loop).sequence # cur_kf.sequence
           /\ shift /\ ~skipped => shifted = FALSE
           /\ earliest_loop_index' \in Nat /\ earliest_loop_index' <= loop
           /\ earliest_loop_index # None => earliest_loop_index' <= earliest_loop_index
           /\ earliest_loop_index' \in Indices
           /\ cur_kf'.sequence = cur_kf.sequence
           /\ cur_kf'.shifts = IF shift THEN cur_kf.shifts + 1 ELSE cur_kf.shifts
           /\ shift => shifted' = TRUE /\ toShift' = {i \in Indices : Kf(i).sequence = cur_kf.sequence}
           /\ ~shift => shifted' = shifted /\ toShift' = {} /\ sequence_loop' = sequence_loop
           /\ sequence_loop' \in Seq({0, 1}) /\ Len(sequence_loop') = Len(sequence_loop)
           /\ shift /\ cur_kf.sequence = sequence_cnt => sequence_loop'[sequence_cnt + 1] = 1
  BY LoopDoes
<1>2. /\ TypeOK /\ pc = "detect" /\ pc' = "shift" /\ up
      /\ UNCHANGED <<keyframelist, sequence_cnt, skipped, optimize_buf, opt, up, sequence>>
  BY DEF Loop, IInv, GraphInv, NothingRuns, TypeOK, node
<1>3. Indices' = Indices /\ \A i : Kf(i)' = Kf(i)
  BY <1>2 DEF Indices, Kf
<1>4. /\ \A i \in Indices : i \in Nat /\ Kf(i).sequence \in Nat /\ Kf(i).shifts \in Nat
      /\ cur_kf.sequence \in Nat /\ cur_kf.shifts \in Nat
      /\ Indices = 0 .. Len(keyframelist) - 1 /\ Len(keyframelist) \in Nat
  BY <1>2, KfFields
<1>5. toShift = {} /\ earliest_loop_index' # None
  BY <1>1, <1>2 DEF SInv, ShiftsInTurn, None
<1>6. earliest_loop_index \in Nat \union {None} /\ shifted \in BOOLEAN
  BY <1>2 DEF TypeOK
<1>7. SequencesGrow'
  BY <1>1, <1>2, <1>3 DEF SInv, SequencesGrow, Adding
<1>8. EarliestInside'
  <2>1. ASSUME NEW k \in DOMAIN optimize_buf
        PROVE  earliest_loop_index' <= optimize_buf[k]
    <3>1. earliest_loop_index # None /\ earliest_loop_index <= optimize_buf[k]
      BY DEF SInv, EarliestInside
    <3>2. optimize_buf[k] \in Nat
      BY <1>2, LenProperties, ElementOfSeq DEF TypeOK
    <3> QED
      BY <1>1, <1>6, <3>1, <3>2
  <2>2. ASSUME opt.stage # "idle"
        PROVE  opt.first \in Indices /\ opt.first <= opt.cur /\ earliest_loop_index' <= opt.first
    <3>1. /\ opt.first \in Indices /\ opt.first <= opt.cur
          /\ earliest_loop_index # None /\ earliest_loop_index <= opt.first
      BY <2>2 DEF SInv, EarliestInside
    <3> QED
      BY <1>1, <1>4, <1>6, <3>1
  <2> QED
    BY <1>1, <1>2, <1>3, <1>5, <2>1, <2>2 DEF EarliestInside
<1>9. StaleFromEarliest'
  <2> SUFFICES ASSUME NEW i \in Indices, Kf(i).stale \/ i \in toShift' PROVE earliest_loop_index' <= i
    BY <1>3, <1>5 DEF StaleFromEarliest
  <2>1. CASE Kf(i).stale
    <3>1. earliest_loop_index # None /\ earliest_loop_index <= i
      BY <2>1 DEF SInv, StaleFromEarliest
    <3> QED
      BY <1>1, <1>4, <1>6, <3>1
  <2>2. CASE i \in toShift'
    <3>1. shift /\ Kf(i).sequence = cur_kf.sequence
      BY <1>1, <2>2
    <3>2. Kf(loop).sequence < Kf(i).sequence
      <4>1. Kf(loop).sequence <= cur_kf.sequence
        BY <1>2 DEF SInv, SequencesGrow, Adding
      <4> QED
        BY <1>1, <1>4, <3>1, <4>1
    <3>3. ~(i <= loop)
      <4>1. i <= loop => Kf(i).sequence <= Kf(loop).sequence
        BY DEF SInv, SequencesGrow
      <4> QED
        BY <1>4, <3>2, <4>1
    <3> QED
      BY <1>1, <1>4, <3>3
  <2> QED
    BY <2>1, <2>2
<1>10. ShiftsInTurn' /\ IdleSettled' /\ RunsCover' /\ FreshWhenDown'
  BY <1>2 DEF ShiftsInTurn, IdleSettled, RunsCover, FreshWhenDown, Pending
<1>11. SolvesTheLatest'
  BY <1>2, <1>3 DEF SInv, SolvesTheLatest, Pending
<1>12. SequencesCounted'
  BY <1>1, <1>2 DEF SInv, SequencesCounted
<1>13. ASSUME ~skipped PROVE CurrentLevel' /\ OneShift'
  <2>1. /\ sequence_loop[sequence_cnt + 1] = Level
        /\ \A i \in Indices : Kf(i).sequence <= sequence_cnt
        /\ cur_kf.sequence = sequence_cnt /\ cur_kf.shifts = Level
    BY <1>2, <1>13 DEF SInv, CurrentLevel, Adding
  <2>2. /\ \A i \in Indices : Kf(i).sequence = sequence_cnt => Kf(i).shifts = Level
        /\ \A i, j \in Indices : Kf(i).sequence = Kf(j).sequence /\ Kf(i).sequence < sequence_cnt
                                 => Kf(i).shifts = Kf(j).shifts
    BY <1>5, <1>13 DEF SInv, OneShift
  <2>3. CASE shift
    <3>1. /\ Level = 0 /\ Level' = 1 /\ shifted'
          /\ toShift' = {i \in Indices : Kf(i).sequence = sequence_cnt}
      BY <2>1, <2>3, <1>1, <1>13 DEF Level
    <3>2. CurrentLevel'
      BY <2>1, <2>3, <3>1, <1>1, <1>2, <1>3 DEF CurrentLevel
    <3>3. OneShift'
      BY <2>2, <3>1, <1>2, <1>3 DEF OneShift
    <3> QED
      BY <3>2, <3>3
  <2>4. CASE ~shift
    <3>1. Level' = Level /\ toShift' = {}
      BY <2>4, <1>1 DEF Level
    <3>2. CurrentLevel'
      BY <2>1, <2>4, <3>1, <1>1, <1>2, <1>3 DEF CurrentLevel
    <3>3. OneShift'
      BY <2>2, <3>1, <1>2, <1>3 DEF OneShift
    <3> QED
      BY <3>2, <3>3
  <2> QED
    BY <2>3, <2>4
<1>14. CurrentLevel' /\ OneShift'
  BY <1>2, <1>13 DEF CurrentLevel, OneShift
<1> QED
  BY <1>7, <1>8, <1>9, <1>10, <1>11, <1>12, <1>14 DEF SInv

(* A frame takes the shift its sequence has.                               *)
LEMMA ShiftSettles == IInv /\ SInv /\ Shift => SInv'
<1> SUFFICES ASSUME IInv, SInv, Shift PROVE SInv'
  OBVIOUS
<1>1. TypeOK /\ toShift \subseteq Indices /\ toShift # {}
  BY DEF IInv, TypeOK, Shift
<1>2. /\ \A i \in Indices : i \in Nat /\ Kf(i).sequence \in Nat /\ Kf(i).shifts \in Nat
      /\ Indices = 0 .. Len(keyframelist) - 1 /\ Len(keyframelist) \in Nat
  BY <1>1, KfFields
<1>3. PICK m \in toShift :
        /\ keyframelist' = [keyframelist EXCEPT ![m + 1].shifts = @ + 1, ![m + 1].stale = TRUE]
        /\ toShift' = toShift \ {m}
  <2>1. toShift \subseteq Nat
    BY <1>1, <1>2
  <2>2. Min(toShift) \in toShift
    BY <1>1, <2>1, MinIsLeast
  <2> QED
    BY <2>2 DEF Shift
<1>4. m \in Indices /\ m + 1 \in DOMAIN keyframelist /\ keyframelist[m + 1] \in Keyframe
  BY <1>1, <1>3, KeyframesTyped DEF Kf
<1>5. /\ pc = "shift" /\ pc' = "shift"
      /\ UNCHANGED <<cur_kf, earliest_loop_index, sequence_cnt, sequence_loop, shifted, skipped, drift,
                     optimize_buf, opt, up, sequence>>
  BY DEF Shift, node
<1>6. Indices' = Indices
  <2>1. DOMAIN keyframelist' = DOMAIN keyframelist
    BY <1>3
  <2> QED
    BY <2>1, <1>1, KeyframesTyped DEF Indices
<1>7. \A i \in Indices : i # m => Kf(i)' = Kf(i)
  <2> SUFFICES ASSUME NEW i \in Indices, i # m PROVE keyframelist'[i + 1] = keyframelist[i + 1]
    BY DEF Kf
  <2>1. i + 1 \in DOMAIN keyframelist /\ i + 1 # m + 1
    BY <1>1, <1>2, <1>4, KeyframesTyped
  <2> QED
    BY <2>1, <1>3
<1>8. Kf(m)'.sequence = Kf(m).sequence /\ Kf(m)'.shifts = Kf(m).shifts + 1
  <2>1. keyframelist'[m + 1] = [[keyframelist[m + 1] EXCEPT !.shifts = keyframelist[m + 1].shifts + 1]
                                                     EXCEPT !.stale = TRUE]
    BY <1>3, <1>4
  <2> QED
    BY <2>1, <1>4 DEF Keyframe, Kf
<1> HIDE DEF Kf
<1>9. \A i \in Indices : Kf(i)'.sequence = Kf(i).sequence
  BY <1>7, <1>8
<1>10. SequencesGrow'
  BY <1>5, <1>6, <1>9 DEF SInv, SequencesGrow, Adding
<1>11. EarliestInside' /\ ShiftsInTurn'
  BY <1>5, <1>6 DEF SInv, EarliestInside, ShiftsInTurn
<1>12. StaleFromEarliest'
  <2> SUFFICES ASSUME NEW i \in Indices, Kf(i)'.stale \/ i \in toShift'
               PROVE  earliest_loop_index # None /\ earliest_loop_index <= i
    BY <1>5, <1>6 DEF StaleFromEarliest
  <2>1. i # m => Kf(i).stale \/ i \in toShift
    BY <1>3, <1>7
  <2> QED
    BY <2>1, <1>3 DEF SInv, StaleFromEarliest
<1>13. IdleSettled' /\ RunsCover' /\ FreshWhenDown' /\ SequencesCounted'
  BY <1>5 DEF SInv, IdleSettled, RunsCover, FreshWhenDown, SequencesCounted, Pending, IInv, GraphInv,
              NothingRuns
<1>14. SolvesTheLatest'
  BY <1>5, <1>6 DEF SInv, SolvesTheLatest, Pending
<1>15. CurrentLevel'
  BY <1>5, <1>6, <1>9 DEF SInv, CurrentLevel, Adding, Level
<1>16. ASSUME ~skipped PROVE OneShift'
  <2>1. /\ \A i \in Indices : Kf(i).sequence = sequence_cnt /\ i \notin toShift => Kf(i).shifts = Level
        /\ \A i \in toShift : Kf(i).sequence = sequence_cnt /\ Kf(i).shifts = 0 /\ shifted
        /\ \A i, j \in Indices : Kf(i).sequence = Kf(j).sequence /\ Kf(i).sequence < sequence_cnt
                                 => Kf(i).shifts = Kf(j).shifts
    BY <1>16 DEF SInv, OneShift
  <2>2. Level' = Level /\ Kf(m)'.sequence = sequence_cnt /\ Kf(m)'.shifts = Level /\ Level = 1
    BY <2>1, <1>3, <1>5, <1>8 DEF Level
  <2>3. \A i \in Indices : Kf(i)'.sequence = sequence_cnt /\ i \notin toShift' => Kf(i)'.shifts = Level
    <3> SUFFICES ASSUME NEW i \in Indices, Kf(i)'.sequence = sequence_cnt, i \notin toShift'
                 PROVE  Kf(i)'.shifts = Level
      OBVIOUS
    <3>1. CASE i = m
      BY <2>2, <3>1
    <3>2. CASE i # m
      BY <2>1, <3>2, <1>3, <1>7
    <3> QED
      BY <3>1, <3>2
  <2>4. \A i \in toShift' : Kf(i)'.sequence = sequence_cnt /\ Kf(i)'.shifts = 0 /\ shifted
    BY <2>1, <1>1, <1>3, <1>7
  <2>5. ASSUME NEW i \in Indices, NEW j \in Indices, Kf(i)'.sequence = Kf(j)'.sequence,
               Kf(i)'.sequence < sequence_cnt
        PROVE  Kf(i)'.shifts = Kf(j)'.shifts
    <3>1. sequence_cnt \in Nat
      BY DEF SInv, SequencesCounted
    <3>2. Kf(i).sequence = Kf(j).sequence /\ Kf(i).sequence < sequence_cnt
      BY <2>5, <1>9
    <3>3. i # m /\ j # m
      BY <2>2, <2>5, <3>1
    <3> QED
      BY <2>1, <3>2, <3>3, <1>7
  <2> QED
    BY <2>2, <2>3, <2>4, <2>5, <1>5, <1>6 DEF OneShift
<1>17. OneShift'
  BY <1>5, <1>16 DEF OneShift
<1> QED
  BY <1>10, <1>11, <1>12, <1>13, <1>14, <1>15, <1>17 DEF SInv

(* Every frame that was shifted is before the keyframe that is queued.     *)
LEMMA PushSettles == IInv /\ SInv /\ PushOptimize => SInv'
<1> SUFFICES ASSUME IInv, SInv, PushOptimize PROVE SInv'
  OBVIOUS
<1>1. /\ TypeOK /\ pc = "shift" /\ pc' = "append" /\ toShift = {}
      /\ optimize_buf' = Append(optimize_buf, Len(keyframelist))
      /\ UNCHANGED <<cur_kf, toShift, keyframelist, earliest_loop_index, sequence_cnt, sequence_loop,
                     shifted, skipped, drift, opt, up, sequence>>
  BY DEF IInv, PushOptimize, global_index, process, graph, node
<1>2. Indices' = Indices /\ \A i : Kf(i)' = Kf(i)
  BY <1>1 DEF Indices, Kf
<1>3. Len(keyframelist) \in Nat /\ Indices = 0 .. Len(keyframelist) - 1
  BY <1>1, KfFields
<1>4. /\ optimize_buf' # <<>>
      /\ \A k \in DOMAIN optimize_buf' :
           optimize_buf'[k] = Len(keyframelist)
             \/ (k \in DOMAIN optimize_buf /\ optimize_buf'[k] = optimize_buf[k])
  <2>1. optimize_buf \in Seq(Nat)
    BY <1>1 DEF TypeOK
  <2>2. /\ Len(optimize_buf') = Len(optimize_buf) + 1 /\ Len(optimize_buf) \in Nat
        /\ optimize_buf'[Len(optimize_buf) + 1] = Len(keyframelist)
        /\ \A k \in DOMAIN optimize_buf : optimize_buf'[k] = optimize_buf[k]
        /\ \A k \in DOMAIN optimize_buf' : k \in DOMAIN optimize_buf \/ k = Len(optimize_buf) + 1
    BY <2>1, <1>1, <1>3, AppendOfStamps, LenProperties
  <2>3. optimize_buf' # <<>>
    BY <2>2, EmptySeq
  <2>4. ASSUME NEW k \in DOMAIN optimize_buf'
        PROVE  optimize_buf'[k] = Len(keyframelist)
                 \/ (k \in DOMAIN optimize_buf /\ optimize_buf'[k] = optimize_buf[k])
    <3>1. k \in DOMAIN optimize_buf \/ k = Len(optimize_buf) + 1
      BY <2>2
    <3> QED
      BY <3>1, <2>2
  <2> QED
    BY <2>3, <2>4
<1>5. SequencesGrow' /\ ShiftsInTurn' /\ StaleFromEarliest'
  BY <1>1, <1>2 DEF SInv, SequencesGrow, ShiftsInTurn, StaleFromEarliest, Adding
<1>6. EarliestInside'
  <2>1. earliest_loop_index # None /\ earliest_loop_index <= Len(keyframelist)
    <3>1. earliest_loop_index # None
      BY <1>1 DEF IInv, GraphInv, CurrentLoop
    <3>2. earliest_loop_index \in Indices
      BY <3>1 DEF SInv, EarliestInside
    <3> QED
      BY <1>3, <3>1, <3>2
  <2> QED
    BY <2>1, <1>1, <1>2, <1>4 DEF SInv, EarliestInside
<1>7. IdleSettled' /\ RunsCover'
  BY <1>4 DEF IdleSettled, RunsCover, Pending
<1>8. SolvesTheLatest'
  BY <1>1, <1>2, <1>4 DEF SInv, SolvesTheLatest, Pending
<1>9. SequencesCounted' /\ CurrentLevel' /\ OneShift' /\ FreshWhenDown'
  BY <1>1, <1>2 DEF SInv, SequencesCounted, CurrentLevel, OneShift, FreshWhenDown, Adding, Level
<1> QED
  BY <1>5, <1>6, <1>7, <1>8, <1>9 DEF SInv

(* A new keyframe has the shift of its sequence, and is stale if the drift *)
(* is.                                                                     *)
LEMMA AppendSettles == IInv /\ SInv /\ AppendKeyframe => SInv'
<1> SUFFICES ASSUME IInv, SInv, AppendKeyframe PROVE SInv'
  OBVIOUS
<1>1. /\ TypeOK /\ pc = "append" /\ pc' = "idle" /\ up
      /\ UNCHANGED <<cur_kf, toShift, earliest_loop_index, sequence_cnt, sequence_loop, shifted, skipped,
                     drift, optimize_buf, opt, up, sequence>>
  BY DEF IInv, GraphInv, NothingRuns, TypeOK, AppendKeyframe, node
<1>2. /\ \A i \in Indices : i \in Nat /\ Kf(i).sequence \in Nat /\ Kf(i).shifts \in Nat
      /\ cur_kf.sequence \in Nat /\ cur_kf.shifts \in Nat
  BY <1>1, KfFields
<1>3. PICK n \in Nat : n = Len(keyframelist) /\ Indices = 0 .. n - 1
  BY <1>1, KfFields
<1>4. PICK new \in Keyframe :
        /\ keyframelist' = Append(keyframelist, new)
        /\ new.sequence = cur_kf.sequence /\ new.shifts = cur_kf.shifts
        /\ new.stale => drift = "stale"
  <2>1. keyframelist' = Append(keyframelist, [cur_kf EXCEPT !.stale = (drift = "stale")])
    BY DEF AppendKeyframe
  <2>2. cur_kf \in Keyframe
    BY <1>1 DEF TypeOK
  <2>3. CASE drift = "stale"
    <3>1. keyframelist' = Append(keyframelist, [cur_kf EXCEPT !.stale = TRUE])
      BY <2>1, <2>3
    <3>2. [cur_kf EXCEPT !.stale = TRUE] \in Keyframe
      BY <2>2 DEF Keyframe
    <3> QED
      BY <2>2, <2>3, <3>1, <3>2 DEF Keyframe
  <2>4. CASE drift # "stale"
    <3>1. keyframelist' = Append(keyframelist, [cur_kf EXCEPT !.stale = FALSE])
      BY <2>1, <2>4
    <3>2. [cur_kf EXCEPT !.stale = FALSE] \in Keyframe /\ ~[cur_kf EXCEPT !.stale = FALSE].stale
      BY <2>2 DEF Keyframe
    <3> QED
      BY <2>2, <2>4, <3>1, <3>2 DEF Keyframe
  <2> QED
    BY <2>3, <2>4
<1>5. /\ Indices' = 0 .. n
      /\ \A i \in Indices : Kf(i)' = Kf(i)
      /\ Kf(n)' = new
  <2>1. /\ Len(keyframelist') = n + 1 /\ keyframelist'[n + 1] = new
        /\ \A i \in DOMAIN keyframelist : keyframelist'[i] = keyframelist[i]
    BY <1>1, <1>3, <1>4, AppendOfStamps DEF TypeOK
  <2>2. Indices' = 0 .. n
    BY <2>1 DEF Indices
  <2>3. \A i \in Indices : Kf(i)' = Kf(i)
    BY <2>1, <1>1, KeyframesTyped DEF Kf
  <2>4. Kf(n)' = new
    BY <2>1 DEF Kf
  <2> QED
    BY <2>2, <2>3, <2>4
<1> HIDE DEF Kf
<1>6. /\ \A i \in Indices' : i \in Indices \/ i = n
      /\ Indices \subseteq Indices' /\ n \in Indices' /\ n \notin Indices
  BY <1>3, <1>5
<1>7. SequencesGrow'
  <2>1. /\ \A i, j \in Indices : i <= j => Kf(i).sequence <= Kf(j).sequence
        /\ \A i \in Indices : Kf(i).sequence <= sequence /\ Kf(i).sequence <= cur_kf.sequence
        /\ cur_kf.sequence <= sequence
    BY <1>1 DEF SInv, SequencesGrow, Adding
  <2>2. ASSUME NEW i \in Indices', NEW j \in Indices', i <= j PROVE Kf(i)'.sequence <= Kf(j)'.sequence
    <3>1. CASE i \in Indices /\ j \in Indices
      BY <2>1, <2>2, <3>1, <1>5
    <3>2. CASE i \in Indices /\ j = n
      BY <2>1, <3>2, <1>4, <1>5
    <3>3. CASE i = n /\ j = n
      BY <3>3, <1>2, <1>4, <1>5
    <3>4. ~(i = n /\ j \in Indices)
      BY <2>2, <1>3
    <3> QED
      BY <3>1, <3>2, <3>3, <3>4, <1>6
  <2>3. \A i \in Indices' : Kf(i)'.sequence <= sequence
    BY <2>1, <1>4, <1>5, <1>6
  <2> QED
    BY <2>2, <2>3, <1>1 DEF SequencesGrow, Adding
<1>8. EarliestInside' /\ ShiftsInTurn'
  BY <1>1, <1>6 DEF SInv, EarliestInside, ShiftsInTurn
<1>9. toShift = {}
  BY <1>1 DEF SInv, ShiftsInTurn
<1>10. StaleFromEarliest'
  <2>1. earliest_loop_index # None => earliest_loop_index <= n
    <3>1. earliest_loop_index # None => earliest_loop_index \in 0 .. n - 1
      BY <1>3 DEF SInv, EarliestInside
    <3> QED
      BY <3>1
  <2>2. ASSUME NEW i \in Indices', Kf(i)'.stale
        PROVE  earliest_loop_index # None /\ earliest_loop_index <= i
    <3>1. CASE i \in Indices
      BY <2>2, <3>1, <1>5 DEF SInv, StaleFromEarliest
    <3>2. CASE i = n
      BY <2>1, <2>2, <3>2, <1>4, <1>5 DEF SInv, EarliestInside
    <3> QED
      BY <3>1, <3>2, <1>6
  <2> QED
    BY <2>2, <1>1, <1>9 DEF StaleFromEarliest
<1>11. Pending' => Pending
  BY <1>1 DEF Pending
<1>12. Pending => Pending'
  BY <1>1 DEF Pending
<1>13. IdleSettled'
  <2> SUFFICES ASSUME ~Pending', opt.stage = "idle"
               PROVE  drift # "stale" /\ \A i \in Indices' : ~Kf(i)'.stale
    BY <1>1 DEF IdleSettled
  <2>1. drift # "stale" /\ \A i \in Indices : ~Kf(i).stale
    BY <1>12 DEF SInv, IdleSettled
  <2> QED
    BY <2>1, <1>4, <1>5, <1>6
<1>14. RunsCover'
  <2> SUFFICES ASSUME ~Pending', opt.stage = "taken" \/ (opt.stage = "solve" /\ opt.vio # <<>>),
                      NEW i \in Indices', Kf(i)'.stale
               PROVE  opt.first <= i
    BY <1>1 DEF RunsCover
  <2>1. CASE i \in Indices
    BY <2>1, <1>5, <1>12 DEF SInv, RunsCover
  <2>2. CASE i = n
    <3>1. opt.first \in 0 .. n - 1
      BY <1>3 DEF SInv, EarliestInside
    <3> QED
      BY <2>2, <3>1
  <2> QED
    BY <2>1, <2>2, <1>6
<1>15. SolvesTheLatest'
  <2> SUFFICES ASSUME opt.stage = "solve", opt.vio # <<>>
               PROVE  /\ opt.cur \in Indices'
                      /\ ~Pending' => \A i \in opt.first .. opt.cur : opt.vio[i] = Kf(i)'.shifts
    BY <1>1 DEF SolvesTheLatest
  <2>1. opt.cur \in Indices /\ opt.first \in Indices
    BY DEF SInv, SolvesTheLatest, EarliestInside
  <2>2. ASSUME ~Pending', NEW i \in opt.first .. opt.cur PROVE opt.vio[i] = Kf(i)'.shifts
    <3>1. opt.vio[i] = Kf(i).shifts
      BY <2>2, <1>12 DEF SInv, SolvesTheLatest
    <3>2. i \in Indices
      BY <2>1, <1>3
    <3> QED
      BY <3>1, <3>2, <1>5
  <2> QED
    BY <2>1, <2>2, <1>6
<1>16. SequencesCounted' /\ FreshWhenDown'
  BY <1>1 DEF SInv, SequencesCounted, FreshWhenDown
<1>17. ASSUME ~skipped PROVE CurrentLevel' /\ OneShift'
  <2>1. /\ sequence_loop[sequence_cnt + 1] = Level
        /\ \A i \in Indices : Kf(i).sequence <= sequence_cnt
        /\ cur_kf.sequence = sequence_cnt /\ cur_kf.shifts = Level
    BY <1>1, <1>17 DEF SInv, CurrentLevel, Adding
  <2>2. /\ \A i \in Indices : Kf(i).sequence = sequence_cnt => Kf(i).shifts = Level
        /\ \A i, j \in Indices : Kf(i).sequence = Kf(j).sequence /\ Kf(i).sequence < sequence_cnt
                                 => Kf(i).shifts = Kf(j).shifts
    BY <1>9, <1>17 DEF SInv, OneShift
  <2>3. Level' = Level /\ sequence_cnt \in Nat
    BY <1>1 DEF Level, SInv, SequencesCounted
  <2>4. Kf(n)'.sequence = sequence_cnt /\ Kf(n)'.shifts = Level
    BY <2>1, <1>4, <1>5
  <2>5. CurrentLevel'
    <3>1. \A i \in Indices' : Kf(i)'.sequence <= sequence_cnt
      BY <2>1, <2>3, <2>4, <1>5, <1>6
    <3> QED
      BY <2>1, <2>3, <3>1, <1>1 DEF CurrentLevel, Adding
  <2>6. \A i \in Indices' : Kf(i)'.sequence = sequence_cnt => Kf(i)'.shifts = Level
    BY <2>2, <2>4, <1>5, <1>6
  <2>7. ASSUME NEW i \in Indices', NEW j \in Indices', Kf(i)'.sequence = Kf(j)'.sequence,
               Kf(i)'.sequence < sequence_cnt
        PROVE  Kf(i)'.shifts = Kf(j)'.shifts
    <3>1. i # n /\ j # n
      BY <2>3, <2>4, <2>7
    <3>2. i \in Indices /\ j \in Indices
      BY <3>1, <1>6
    <3> QED
      BY <2>2, <2>7, <3>2, <1>5
  <2>8. OneShift'
    BY <2>3, <2>6, <2>7, <1>1, <1>9 DEF OneShift
  <2> QED
    BY <2>5, <2>8
<1>18. CurrentLevel' /\ OneShift'
  BY <1>1, <1>17 DEF CurrentLevel, OneShift
<1> QED
  BY <1>7, <1>8, <1>10, <1>13, <1>14, <1>15, <1>16, <1>18 DEF SInv

(* It takes the newest of the queue, and the earliest frame of now.        *)
LEMMA TakeSettles == IInv /\ SInv /\ Take => SInv'
<1> SUFFICES ASSUME IInv, SInv, Take PROVE SInv'
  OBVIOUS
<1>1. /\ TypeOK /\ up /\ optimize_buf # <<>> /\ optimize_buf' = <<>>
      /\ opt'.stage = "taken" /\ opt'.cur = optimize_buf[Len(optimize_buf)]
      /\ opt'.first = earliest_loop_index
      /\ UNCHANGED <<pc, cur_kf, toShift, keyframelist, earliest_loop_index, sequence_cnt, sequence_loop,
                     shifted, skipped, drift, up, sequence>>
  BY DEF IInv, Take, Back, process, graph, node
<1>2. Indices' = Indices /\ \A i : Kf(i)' = Kf(i)
  BY <1>1 DEF Indices, Kf
<1>3. SequencesGrow' /\ ShiftsInTurn' /\ StaleFromEarliest'
  BY <1>1, <1>2 DEF SInv, SequencesGrow, ShiftsInTurn, StaleFromEarliest, Adding
<1>4. EarliestInside'
  <2>1. Len(optimize_buf) \in DOMAIN optimize_buf
    <3>1. DOMAIN optimize_buf = 1 .. Len(optimize_buf) /\ 1 \in DOMAIN optimize_buf
      BY <1>1, TailOfStamps, LenProperties DEF TypeOK
    <3> QED
      BY <3>1
  <2>2. earliest_loop_index # None /\ earliest_loop_index <= opt'.cur
    BY <1>1, <2>1 DEF SInv, EarliestInside
  <2>3. earliest_loop_index \in Indices /\ earliest_loop_index <= earliest_loop_index
    <3>1. earliest_loop_index \in Indices
      BY <2>2 DEF SInv, EarliestInside
    <3> QED
      BY <1>1, <3>1, KfFields
  <2>4. DOMAIN <<>> = {}
    OBVIOUS
  <2> QED
    BY <2>2, <2>3, <2>4, <1>1, <1>2 DEF EarliestInside
<1>5. IdleSettled' /\ SolvesTheLatest'
  BY <1>1 DEF IdleSettled, SolvesTheLatest
<1>6. RunsCover'
  BY <1>1, <1>2 DEF SInv, RunsCover, StaleFromEarliest
<1>7. SequencesCounted' /\ CurrentLevel' /\ OneShift' /\ FreshWhenDown'
  BY <1>1, <1>2 DEF SInv, SequencesCounted, CurrentLevel, OneShift, FreshWhenDown, Adding, Level
<1> QED
  BY <1>3, <1>4, <1>5, <1>6, <1>7 DEF SInv

(* It reads the odometry poses of its frames.                              *)
LEMMA CollectSettles == IInv /\ SInv /\ Collect => SInv'
<1> SUFFICES ASSUME IInv, SInv, Collect PROVE SInv'
  OBVIOUS
<1>1. PICK v : /\ opt' = [opt EXCEPT !.stage = "solve", !.vio = v]
               /\ v # <<>> => opt.cur \in Indices /\ v = [i \in opt.first .. opt.cur |-> Kf(i).shifts]
  <2>1. PICK v : /\ opt' = [opt EXCEPT !.stage = "solve", !.vio = v]
                 /\ v = IF opt.cur \in Indices THEN [i \in opt.first .. opt.cur |-> Kf(i).shifts] ELSE <<>>
    BY Zenon DEF Collect
  <2> QED
    BY <2>1
<1>2. /\ TypeOK /\ opt.stage = "taken" /\ opt'.stage = "solve" /\ opt'.vio = v
      /\ opt'.cur = opt.cur /\ opt'.first = opt.first
      /\ UNCHANGED <<pc, cur_kf, toShift, keyframelist, earliest_loop_index, sequence_cnt, sequence_loop,
                     shifted, skipped, drift, optimize_buf, up, sequence>>
  <2>1. TypeOK /\ opt.stage = "taken"
    BY DEF IInv, Collect
  <2>2. opt'.stage = "solve" /\ opt'.vio = v /\ opt'.cur = opt.cur /\ opt'.first = opt.first
    BY <1>1, <2>1 DEF TypeOK
  <2> QED
    BY <2>1, <2>2 DEF Collect, process, graph, node
<1>3. Indices' = Indices /\ \A i : Kf(i)' = Kf(i)
  BY <1>2 DEF Indices, Kf
<1>4. SequencesGrow' /\ ShiftsInTurn' /\ StaleFromEarliest'
  BY <1>2, <1>3 DEF SInv, SequencesGrow, ShiftsInTurn, StaleFromEarliest, Adding
<1>5. EarliestInside'
  BY <1>2, <1>3 DEF SInv, EarliestInside
<1>6. IdleSettled'
  BY <1>2 DEF IdleSettled
<1>7. RunsCover'
  BY <1>2, <1>3 DEF SInv, RunsCover, Pending
<1>8. SolvesTheLatest'
  BY <1>1, <1>2, <1>3 DEF SolvesTheLatest
<1>9. SequencesCounted' /\ CurrentLevel' /\ OneShift' /\ FreshWhenDown'
  BY <1>2, <1>3 DEF SInv, SequencesCounted, CurrentLevel, OneShift, FreshWhenDown, Adding, Level
<1> QED
  BY <1>4, <1>5, <1>6, <1>7, <1>8, <1>9 DEF SInv

(* What Apply does to the frames before, in and after the optimization.    *)
LEMMA ApplyDoes ==
  ASSUME IInv, SInv, Apply
  PROVE  \E behind \in BOOLEAN :
           /\ behind <=> Kf(opt.cur).shifts # opt.vio[opt.cur] \/ opt.cur \in toShift
           /\ drift' = IF behind THEN "stale" ELSE "fresh"
           /\ Indices' = Indices
           /\ \A i \in Indices : /\ Kf(i)'.sequence = Kf(i).sequence /\ Kf(i)'.shifts = Kf(i).shifts
                                 /\ i < opt.first => (Kf(i)'.stale => Kf(i).stale)
                                 /\ i \in opt.first .. opt.cur => (Kf(i)'.stale => Kf(i).shifts # opt.vio[i])
                                 /\ i > opt.cur /\ i >= opt.first => (Kf(i)'.stale => behind)
<1>1. PICK behind \in BOOLEAN :
        /\ behind <=> Moved(opt.cur) \/ opt.cur \in toShift
        /\ drift' = IF behind THEN "stale" ELSE "fresh"
        /\ keyframelist' = [n \in DOMAIN keyframelist |->
                              [keyframelist[n] EXCEPT !.stale = PoseIsStale(n - 1, behind)]]
  <2>1. (Moved(opt.cur) \/ opt.cur \in toShift) \in BOOLEAN
    OBVIOUS
  <2> QED
    BY <2>1 DEF Apply
<1>2. TypeOK /\ opt.first \in Indices /\ opt.cur \in Nat
  <2>1. TypeOK /\ opt.stage # "idle"
    BY DEF IInv, Apply
  <2>2. opt.first \in Indices /\ opt.first <= opt.cur
    BY <2>1 DEF SInv, EarliestInside
  <2>3. opt.first \in Nat /\ opt.cur \in Nat \union {None}
    BY <2>1, <2>2, KfFields DEF TypeOK
  <2> QED
    BY <2>1, <2>2, <2>3 DEF None
<1>3. Len(keyframelist) \in Nat /\ DOMAIN keyframelist = 1 .. Len(keyframelist)
  BY <1>2, KeyframesTyped
<1>4. Indices' = Indices
  <2>1. DOMAIN keyframelist' = 1 .. Len(keyframelist)
    BY <1>1, <1>3
  <2>2. Len(keyframelist') = Len(keyframelist)
    BY <2>1, <1>3
  <2> QED
    BY <2>2 DEF Indices
<1>5. ASSUME NEW i \in Indices
      PROVE  /\ Kf(i)'.sequence = Kf(i).sequence /\ Kf(i)'.shifts = Kf(i).shifts
             /\ Kf(i)'.stale = PoseIsStale(i, behind)
  <2>1. i + 1 \in DOMAIN keyframelist /\ (i + 1) - 1 = i /\ keyframelist[i + 1] \in Keyframe
    BY <1>2, KeyframesTyped DEF Kf
  <2>2. keyframelist'[i + 1] = [keyframelist[i + 1] EXCEPT !.stale = PoseIsStale(i, behind)]
    <3>1. keyframelist'[i + 1] = [keyframelist[i + 1] EXCEPT !.stale = PoseIsStale((i + 1) - 1, behind)]
      BY <1>1, <2>1
    <3> QED
      BY <2>1, <3>1
  <2>3. ASSUME NEW b PROVE /\ [keyframelist[i + 1] EXCEPT !.stale = b].sequence = keyframelist[i + 1].sequence
                           /\ [keyframelist[i + 1] EXCEPT !.stale = b].shifts = keyframelist[i + 1].shifts
                           /\ [keyframelist[i + 1] EXCEPT !.stale = b].stale = b
    BY <2>1 DEF Keyframe
  <2> QED
    BY <2>2, <2>3 DEF Kf
<1>6. ASSUME NEW i \in Indices
      PROVE  /\ i < opt.first => (Kf(i)'.stale => Kf(i).stale)
             /\ i \in opt.first .. opt.cur => (Kf(i)'.stale => Kf(i).shifts # opt.vio[i])
             /\ i > opt.cur /\ i >= opt.first => (Kf(i)'.stale => behind)
  <2>1. i \in Nat /\ opt.first \in Nat
    BY <1>2, KfFields
  <2>2. CASE i < opt.first
    <3>1. PoseIsStale(i, behind) = Kf(i).stale
      BY <2>2, Zenon DEF PoseIsStale
    <3>2. i \notin opt.first .. opt.cur /\ ~(i >= opt.first)
      BY <1>2, <2>1, <2>2
    <3> QED
      BY <3>1, <3>2, <1>5
  <2>3. CASE ~(i < opt.first) /\ i <= opt.cur
    <3>1. PoseIsStale(i, behind) = Moved(i)
      BY <2>3, Zenon DEF PoseIsStale
    <3>2. ~(i > opt.cur)
      BY <1>2, <2>1, <2>3
    <3> QED
      BY <3>1, <3>2, <2>3, <1>5 DEF Moved
  <2>4. CASE ~(i < opt.first) /\ ~(i <= opt.cur)
    <3>1. PoseIsStale(i, behind) = behind
      BY <2>4, Zenon DEF PoseIsStale
    <3>2. i \notin opt.first .. opt.cur
      BY <1>2, <2>1, <2>4
    <3> QED
      BY <3>1, <3>2, <2>4, <1>5
  <2> QED
    BY <2>2, <2>3, <2>4
<1>7. behind <=> Kf(opt.cur).shifts # opt.vio[opt.cur] \/ opt.cur \in toShift
  BY <1>1 DEF Moved
<1> QED
  BY <1>1, <1>4, <1>5, <1>6, <1>7

(* The frames of the optimization catch up, and the later ones, unless     *)
(* they are shifted again: then one more is pending.                       *)
LEMMA ApplySettles == IInv /\ SInv /\ Apply => SInv'
<1> SUFFICES ASSUME IInv, SInv, Apply PROVE SInv'
  OBVIOUS
<1>1. PICK behind \in BOOLEAN :
           /\ behind <=> Kf(opt.cur).shifts # opt.vio[opt.cur] \/ opt.cur \in toShift
           /\ drift' = IF behind THEN "stale" ELSE "fresh"
           /\ Indices' = Indices
           /\ \A i \in Indices : /\ Kf(i)'.sequence = Kf(i).sequence /\ Kf(i)'.shifts = Kf(i).shifts
                                 /\ i < opt.first => (Kf(i)'.stale => Kf(i).stale)
                                 /\ i \in opt.first .. opt.cur => (Kf(i)'.stale => Kf(i).shifts # opt.vio[i])
                                 /\ i > opt.cur /\ i >= opt.first => (Kf(i)'.stale => behind)
  BY ApplyDoes
<1> HIDE DEF Kf
<1>2. /\ TypeOK /\ opt.stage = "solve" /\ opt.vio # <<>> /\ opt'.stage = "idle" /\ up
      /\ UNCHANGED <<pc, cur_kf, toShift, earliest_loop_index, sequence_cnt, sequence_loop,
                     shifted, skipped, optimize_buf, up, sequence>>
  BY DEF IInv, GraphInv, NothingRuns, TypeOK, Apply, Idle, process, node
<1>3. /\ \A i \in Indices : i \in Nat
      /\ opt.first \in Indices /\ opt.cur \in Indices /\ opt.first <= opt.cur
      /\ earliest_loop_index # None /\ earliest_loop_index <= opt.first
  BY <1>2, KfFields DEF SInv, EarliestInside, SolvesTheLatest
<1>4. \A i \in Indices : Kf(i)'.sequence = Kf(i).sequence /\ Kf(i)'.shifts = Kf(i).shifts
  BY <1>1
<1>5. SequencesGrow' /\ ShiftsInTurn'
  BY <1>1, <1>2, <1>4 DEF SInv, SequencesGrow, ShiftsInTurn, Adding
<1>6. EarliestInside'
  BY <1>1, <1>2, <1>3 DEF SInv, EarliestInside
<1>7. StaleFromEarliest'
  <2> SUFFICES ASSUME NEW i \in Indices, Kf(i)'.stale \/ i \in toShift PROVE earliest_loop_index <= i
    BY <1>1, <1>2, <1>3 DEF StaleFromEarliest
  <2>1. earliest_loop_index \in Nat
    BY <1>3 DEF SInv, EarliestInside
  <2>2. CASE i < opt.first /\ Kf(i)'.stale
    BY <1>1, <2>2 DEF SInv, StaleFromEarliest
  <2>3. CASE ~(i < opt.first)
    BY <1>3, <2>1, <2>3
  <2>4. CASE i \in toShift
    BY <2>4 DEF SInv, StaleFromEarliest
  <2> QED
    BY <2>2, <2>3, <2>4
<1>8. IdleSettled'
  <2> SUFFICES ASSUME ~Pending PROVE drift' # "stale" /\ \A i \in Indices : ~Kf(i)'.stale
    BY <1>1, <1>2 DEF IdleSettled, Pending
  <2>1. /\ \A i \in Indices : Kf(i).stale => opt.first <= i
        /\ \A i \in opt.first .. opt.cur : opt.vio[i] = Kf(i).shifts
    BY <1>2 DEF SInv, RunsCover, SolvesTheLatest
  <2>2. toShift = {}
    BY DEF SInv, ShiftsInTurn, Pending
  <2>3. opt.cur \in opt.first .. opt.cur
    BY <1>3
  <2>4. ~behind
    BY <1>1, <2>1, <2>2, <2>3
  <2>5. ASSUME NEW i \in Indices PROVE ~Kf(i)'.stale
    <3>1. CASE i < opt.first
      BY <1>1, <1>3, <2>1, <3>1
    <3>2. CASE i \in opt.first .. opt.cur
      BY <1>1, <2>1, <3>2
    <3>3. CASE i > opt.cur /\ i >= opt.first
      BY <1>1, <2>4, <3>3
    <3> QED
      BY <1>3, <3>1, <3>2, <3>3
  <2> QED
    BY <1>1, <2>4, <2>5
<1>9. RunsCover' /\ SolvesTheLatest'
  BY <1>2 DEF RunsCover, SolvesTheLatest
<1>10. SequencesCounted' /\ CurrentLevel' /\ FreshWhenDown'
  BY <1>1, <1>2, <1>4 DEF SInv, SequencesCounted, CurrentLevel, FreshWhenDown, Adding, Level
<1>11. OneShift'
  <2>1. toShift \subseteq Indices
    BY <1>2 DEF TypeOK
  <2> QED
    BY <2>1, <1>1, <1>2, <1>4 DEF SInv, OneShift, Level
<1> QED
  BY <1>5, <1>6, <1>7, <1>8, <1>9, <1>10, <1>11 DEF SInv

(* A graph that was just loaded, or none.                                  *)
FreshGraph ==
  /\ \A i \in Indices : Kf(i).sequence = 0 /\ Kf(i).shifts = 0 /\ ~Kf(i).stale
  /\ earliest_loop_index # None => earliest_loop_index \in Indices
  /\ pc = "idle" /\ toShift = {} /\ sequence \in Nat /\ sequence_cnt = 0 /\ sequence_loop = <<0>>
  /\ shifted = FALSE /\ drift = "none" /\ optimize_buf = <<>> /\ opt.stage = "idle"
  /\ ~up => keyframelist = <<>> /\ earliest_loop_index = None

LEMMA FreshSettles == FreshGraph => SInv
<1> SUFFICES ASSUME FreshGraph PROVE SInv
  OBVIOUS
<1>1. /\ <<0>> \in Seq({0, 1}) /\ Len(<<0>>) = 1 /\ <<0>>[1] = 0 /\ DOMAIN <<>> = {}
  OBVIOUS
<1>2. SequencesGrow /\ EarliestInside /\ ShiftsInTurn /\ StaleFromEarliest
  BY <1>1 DEF FreshGraph, SequencesGrow, EarliestInside, ShiftsInTurn, StaleFromEarliest, Adding
<1>3. IdleSettled /\ RunsCover /\ SolvesTheLatest
  BY DEF FreshGraph, IdleSettled, RunsCover, SolvesTheLatest
<1>4. SequencesCounted /\ CurrentLevel /\ OneShift /\ FreshWhenDown
  BY <1>1 DEF FreshGraph, SequencesCounted, CurrentLevel, OneShift, FreshWhenDown, Adding, Level
<1> QED
  BY <1>2, <1>3, <1>4 DEF SInv

LEMMA LoadedIsFresh ==
  ASSUME NEW loops \in Seq(Nat \union {None}), LoopsBack(loops)
  PROVE  /\ Len(Loaded(loops)) = Len(loops) /\ Len(loops) \in Nat
         /\ \A n \in 1 .. Len(loops) : /\ Loaded(loops)[n].sequence = 0 /\ Loaded(loops)[n].shifts = 0
                                       /\ ~Loaded(loops)[n].stale
         /\ Earliest(loops) # None => Earliest(loops) \in 0 .. Len(loops) - 1
<1>1. Len(loops) \in Nat /\ DOMAIN loops = 1 .. Len(loops) /\ \A n \in DOMAIN loops : loops[n] \in Nat \union {None}
  BY LenProperties, ElementOfSeq
<1>2. Loaded(loops) = [n \in 1 .. Len(loops) |-> [NoKeyframe EXCEPT !.loop_index = loops[n]]]
  BY <1>1 DEF Loaded
<1>3. Len(Loaded(loops)) = Len(loops)
  <2>1. DOMAIN Loaded(loops) = 1 .. Len(loops)
    BY <1>2
  <2> QED
    BY <1>1, <2>1
<1>4. ASSUME NEW n \in 1 .. Len(loops)
      PROVE  Loaded(loops)[n].sequence = 0 /\ Loaded(loops)[n].shifts = 0 /\ ~Loaded(loops)[n].stale
  BY <1>2 DEF NoKeyframe
<1>5. ASSUME Earliest(loops) # None PROVE Earliest(loops) \in 0 .. Len(loops) - 1
  <2> DEFINE some == {loops[i] : i \in DOMAIN loops} \ {None}
  <2>1. some \subseteq Nat
    BY <1>1
  <2>2. Earliest(loops) = IF some = {} THEN None ELSE Min(some)
    BY DEF Earliest
  <2>3. \A e \in some : \E n \in DOMAIN loops : loops[n] = e /\ e # None
    OBVIOUS
  <2> HIDE DEF some
  <2>4. some # {} /\ Earliest(loops) = Min(some)
    BY <1>5, <2>2
  <2>5. Earliest(loops) \in some
    BY <2>1, <2>4, MinIsLeast
  <2>6. PICK n \in DOMAIN loops : loops[n] = Earliest(loops) /\ loops[n] # None
    BY <2>3, <2>5
  <2>7. loops[n] \in 0 .. n - Recent - 2
    BY <2>6 DEF LoopsBack
  <2> QED
    BY <1>1, <2>6, <2>7, SizeAssumption
<1> QED
  BY <1>1, <1>3, <1>4, <1>5

LEMMA DieSettles == Die => SInv'
<1> SUFFICES ASSUME Die PROVE SInv'
  OBVIOUS
<1>1. FreshGraph'
  <2>1. keyframelist' = <<>> /\ Len(<<>>) = 0
    BY DEF Die
  <2>2. Indices' = {}
    BY <2>1 DEF Indices
  <2> QED
    BY <2>1, <2>2 DEF Die, FreshGraph, Idle
<1> QED
  BY <1>1, FreshSettles, PTL

LEMMA RestartSettles == IInv /\ SInv /\ Restart => SInv'
<1> SUFFICES ASSUME IInv, SInv, Restart PROVE SInv'
  OBVIOUS
<1>1. PICK loops \in {file, <<>>} : keyframelist' = Loaded(loops) /\ earliest_loop_index' = Earliest(loops)
  BY DEF Restart
<1>2. loops \in Seq(Nat \union {None}) /\ LoopsBack(loops)
  <2>1. <<>> \in Seq(Nat \union {None}) /\ LoopsBack(<<>>)
    BY EmptySeq DEF LoopsBack
  <2> QED
    BY <2>1, <1>1 DEF IInv, TypeOK, GraphInv, SavedLoops
<1>3. /\ ~up /\ up' = TRUE
      /\ UNCHANGED <<pc, toShift, sequence, sequence_cnt, sequence_loop, shifted, drift, optimize_buf, opt>>
  BY DEF Restart, process
<1>4. /\ pc = "idle" /\ optimize_buf = <<>> /\ opt.stage = "idle" /\ toShift = {} /\ sequence \in Nat
      /\ sequence_cnt = 0 /\ sequence_loop = <<0>> /\ shifted = FALSE /\ drift = "none"
  BY <1>3, KfFields DEF IInv, GraphInv, NothingRuns, NothingToShift, SInv, FreshWhenDown
<1>5. /\ Indices' = 0 .. Len(loops) - 1 /\ Len(loops) \in Nat
      /\ earliest_loop_index' # None => earliest_loop_index' \in Indices'
  BY <1>1, <1>2, LoadedIsFresh DEF Indices
<1>6. ASSUME NEW i \in Indices' PROVE (Kf(i).sequence = 0 /\ Kf(i).shifts = 0 /\ ~Kf(i).stale)'
  <2>1. i + 1 \in 1 .. Len(loops)
    BY <1>5
  <2> QED
    BY <2>1, <1>1, <1>2, LoadedIsFresh DEF Kf
<1>7. FreshGraph'
  BY <1>3, <1>4, <1>5, <1>6 DEF FreshGraph
<1> QED
  BY <1>7, FreshSettles, PTL

LEMMA InitSettles == Init => SInv
<1> SUFFICES ASSUME Init PROVE SInv
  OBVIOUS
<1>1. file \in Seq(Nat \union {None}) /\ LoopsBack(file)
  BY BaseAssumption DEF Init
<1>2. keyframelist = Loaded(file) /\ earliest_loop_index = Earliest(file)
  BY DEF Init, Start
<1>3. /\ Indices = 0 .. Len(file) - 1 /\ Len(file) \in Nat
      /\ earliest_loop_index # None => earliest_loop_index \in Indices
  BY <1>1, <1>2, LoadedIsFresh DEF Indices
<1>4. ASSUME NEW i \in Indices PROVE Kf(i).sequence = 0 /\ Kf(i).shifts = 0 /\ ~Kf(i).stale
  <2>1. i + 1 \in 1 .. Len(file)
    BY <1>3
  <2> QED
    BY <2>1, <1>1, <1>2, LoadedIsFresh DEF Kf
<1>5. /\ pc = "idle" /\ toShift = {} /\ sequence \in Nat /\ sequence_cnt = 0 /\ sequence_loop = <<0>>
      /\ shifted = FALSE /\ drift = "none" /\ optimize_buf = <<>> /\ opt.stage = "idle" /\ up
  BY DEF Init, Idle
<1>6. FreshGraph
  BY <1>3, <1>4, <1>5 DEF FreshGraph
<1> QED
  BY <1>6, FreshSettles

LEMMA NextSettles == IInv /\ SInv /\ [Next]_vars => SInv'
<1> SUFFICES ASSUME IInv, SInv, [Next]_vars PROVE SInv'
  OBVIOUS
<1>1. CASE PubKeyframe \/ PoseCallback \/ PointCallback \/ ThrowPose \/ ThrowPoint
  BY <1>1, SettleUnchanged DEF PubKeyframe, PoseCallback, PointCallback, ThrowPose, ThrowPoint, settleVars,
                              node
<1>2. CASE UNCHANGED vars
  BY <1>2, SettleUnchanged DEF vars, settleVars, node
<1>3. CASE Break \/ Crash \/ CommandSave
  BY <1>3, DieSettles DEF Break, Crash, CommandSave
<1> QED
  BY <1>1, <1>2, <1>3, ImagesSettle, PlaceSettles, BuildSettles, LoopSettles, ShiftSettles, PushSettles,
     AppendSettles, TakeSettles, CollectSettles, ApplySettles, RestartSettles DEF Next

(* When the node is at rest no pose is older than its sequence's shift,    *)
(* and a sequence has one shift (pose_graph.cpp:153-177, :470-500).        *)
THEOREM SettlesTogether == Spec => []SettlesInOneFrame
<1>1. Spec => [](IInv /\ SInv)
  BY InitIInv, NextIInv, InitSettles, NextSettles, PTL DEF Spec
<1>2. IInv /\ SInv => SettlesInOneFrame
  <2> SUFFICES ASSUME IInv, SInv, AtRest, ~skipped, NEW i \in Indices, NEW j \in Indices
               PROVE  /\ ~Kf(i).stale
                      /\ Kf(i).sequence = Kf(j).sequence => Kf(i).shifts = Kf(j).shifts
    BY DEF SettlesInOneFrame
  <2>1. ~Pending /\ opt.stage = "idle" /\ toShift = {}
    BY DEF AtRest, Pending, SInv, ShiftsInTurn
  <2>2. ~Kf(i).stale
    BY <2>1 DEF SInv, IdleSettled
  <2>3. Kf(i).sequence \in Nat /\ sequence_cnt \in Nat /\ Kf(i).sequence <= sequence_cnt
    BY KfFields DEF IInv, SInv, SequencesCounted, CurrentLevel
  <2>4. ASSUME Kf(i).sequence = Kf(j).sequence PROVE Kf(i).shifts = Kf(j).shifts
    <3>1. CASE Kf(i).sequence = sequence_cnt
      BY <2>1, <2>4, <3>1 DEF SInv, OneShift
    <3>2. CASE Kf(i).sequence < sequence_cnt
      BY <2>4, <3>2 DEF SInv, OneShift
    <3> QED
      BY <2>3, <3>1, <3>2
  <2> QED
    BY <2>2, <2>4
<1> QED
  BY <1>1, <1>2, PTL
=============================================================================
