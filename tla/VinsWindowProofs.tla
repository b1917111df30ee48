-------------------------- MODULE VinsWindowProofs --------------------------
(***************************************************************************)
(* Proofs about VinsWindow for every size of the window, every number of   *)
(* observations that makes a feature used, every sensor, and restarts and  *)
(* switches at any time: what each position of the window holds is about   *)
(* the same frame in every list.                                           *)
(*                                                                         *)
(* Observations stay aligned because names that were lost do not come      *)
(* back, which holds because the names still to come, in the frame that is *)
(* taken, in those that wait and in the tracker, lose a name once and for  *)
(* all.  The prior and the pre-integrations are aligned only between two   *)
(* slides and only once a switch to the IMU has been followed by its       *)
(* restart; while the window is about to slide they are one step ahead.    *)
(* The frame that clearState found in hand counts as time 0 and is always  *)
(* the first of the window.                                                *)
(***************************************************************************)
EXTENDS VinsWindow, SequenceTheorems, TLAPS

Known == 0 .. n_id - 1

(* Only names that were given are in the list or to come.                  *)
NamesKnown ==
  /\ DOMAIN feature \subseteq Known
  /\ \A k \in DOMAIN ToCome : ToCome[k] \subseteq Known

(* A name that the frames to come lose stays lost.                         *)
Steady ==
  \A k, l \in DOMAIN ToCome : k < l =>
    \A id \in ToCome[l] \ ToCome[k] :
      /\ id \notin DOMAIN feature
      /\ \A j \in DOMAIN ToCome : j < k => id \notin ToCome[j]

(* The window is full when it slides, and stays full.                      *)
FullWindow ==
  /\ solver_flag = "NON_LINEAR" => frame_count = WINDOW_SIZE
  /\ stage \in {"slide", "clean"} => frame_count = WINDOW_SIZE

HeaderOfTaken == stage \in Locked => Headers[frame_count] = taken.t

(* The time that curTime, and later prevTime, says frame t has: that of    *)
(* the frame c that clearState found in hand is 0.                         *)
Clock(c, t) == IF t = c THEN 0 ELSE t

(* Only the first frame of the window can be the one that was in hand.     *)
CutFirst ==
  /\ cut <= pushed
  /\ \A i \in DOMAIN featureBuf : cut < featureBuf[i].t
  /\ stage \in InHand \cup Locked => curTime = Clock(cut, taken.t)
  /\ stage \in InHand /\ frame_count >= 1 => cut < taken.t
  /\ \A i \in 1 .. Newest : Headers[i] # cut

FeatureInv ==
  NamesKnown /\ Steady /\ LostForGood /\ ObservationsAligned /\ FullWindow /\ HeaderOfTaken

-----------------------------------------------------------------------------
(* Features.                                                               *)

LEMMA FeatureParts ==
  ASSUME NEW f \in Feature
  PROVE  /\ f.start_frame \in Index /\ f.start_frame \in Nat /\ f.start_frame <= WINDOW_SIZE
         /\ f.feature_per_frame \in Seq(Frames) /\ f.solve_flag \in 0 .. 2
         /\ Len(f.feature_per_frame) \in Nat
         /\ DOMAIN f.feature_per_frame = 1 .. Len(f.feature_per_frame)
         /\ \A k \in 1 .. Len(f.feature_per_frame) : f.feature_per_frame[k] \in Frames
         /\ endFrame(f) \in Int
<1>1. f.start_frame \in Index /\ f.feature_per_frame \in Seq(Frames) /\ f.solve_flag \in 0 .. 2
  BY DEF Feature
<1>2. f.start_frame \in Nat /\ f.start_frame <= WINDOW_SIZE
  BY <1>1, SizeAssumption DEF Index
<1>3. /\ Len(f.feature_per_frame) \in Nat
      /\ DOMAIN f.feature_per_frame = 1 .. Len(f.feature_per_frame)
      /\ \A k \in 1 .. Len(f.feature_per_frame) : f.feature_per_frame[k] \in Frames
  BY <1>1, LenProperties, ElementOfSeq
<1> QED
  BY <1>1, <1>2, <1>3 DEF endFrame

LEMMA WithStart ==
  ASSUME NEW f \in Feature, NEW s \in Index
  PROVE  /\ [f EXCEPT !.start_frame = s] \in Feature
         /\ [f EXCEPT !.start_frame = s].start_frame = s
         /\ [f EXCEPT !.start_frame = s].feature_per_frame = f.feature_per_frame
         /\ [f EXCEPT !.start_frame = s].solve_flag = f.solve_flag
  BY DEF Feature

LEMMA WithList ==
  ASSUME NEW f \in Feature, NEW s \in Seq(Frames)
  PROVE  /\ [f EXCEPT !.feature_per_frame = s] \in Feature
         /\ [f EXCEPT !.feature_per_frame = s].start_frame = f.start_frame
         /\ [f EXCEPT !.feature_per_frame = s].feature_per_frame = s
         /\ [f EXCEPT !.feature_per_frame = s].solve_flag = f.solve_flag
  BY DEF Feature

LEMMA WithFlag ==
  ASSUME NEW f \in Feature, NEW s \in 0 .. 2
  PROVE  /\ [f EXCEPT !.solve_flag = s] \in Feature
         /\ [f EXCEPT !.solve_flag = s].start_frame = f.start_frame
         /\ [f EXCEPT !.solve_flag = s].feature_per_frame = f.feature_per_frame
  BY DEF Feature

LEMMA EraseFacts ==
  ASSUME NEW s \in Seq(Frames), Len(s) >= 1, NEW i \in Int
  PROVE  /\ Erase(s, i) \in Seq(Frames) /\ Len(Erase(s, i)) = Len(s) - 1
         /\ \A k \in 1 .. Len(s) - 1 : Erase(s, i)[k] = IF k <= i THEN s[k] ELSE s[k + 1]
<1>1. Len(s) \in Nat /\ \A k \in 1 .. Len(s) : s[k] \in Frames
  BY LenProperties, ElementOfSeq
<1>2. \A k \in 1 .. Len(s) - 1 : (IF k <= i THEN s[k] ELSE s[k + 1]) \in Frames
  <2> SUFFICES ASSUME NEW k \in 1 .. Len(s) - 1
               PROVE  (IF k <= i THEN s[k] ELSE s[k + 1]) \in Frames
    OBVIOUS
  <2>1. k \in 1 .. Len(s) /\ k + 1 \in 1 .. Len(s)
    BY <1>1
  <2> QED
    BY <1>1, <2>1
<1>3. Len(s) - 1 \in Nat
  BY <1>1
<1>4. Erase(s, i) \in Seq(Frames)
  BY <1>2, <1>3, IsASeq DEF Erase
<1>5. DOMAIN Erase(s, i) = 1 .. Len(s) - 1
  BY DEF Erase
<1>6. Len(Erase(s, i)) = Len(s) - 1
  BY <1>3, <1>4, <1>5, LenProperties
<1> QED
  BY <1>4, <1>6 DEF Erase

(* The observations of f are of the frames that H has at their places.     *)
AlignedIn(f, H, newest) ==
  /\ Len(f.feature_per_frame) >= 1
  /\ endFrame(f) <= newest
  /\ \A k \in 1 .. Len(f.feature_per_frame) : f.feature_per_frame[k] = H[f.start_frame + k - 1]

LEMMA AlignedMeans ==
  ASSUME \A id \in DOMAIN feature : feature[id] \in Feature
  PROVE  ObservationsAligned <=> \A id \in DOMAIN feature : AlignedIn(feature[id], Headers, Newest)
<1>1. ASSUME NEW id \in DOMAIN feature
      PROVE  DOMAIN feature[id].feature_per_frame = 1 .. Len(feature[id].feature_per_frame)
  BY FeatureParts
<1> QED
  BY <1>1 DEF ObservationsAligned, AlignedIn

(* removeBack: the places and the headers move together.                   *)
LEMMA ShiftBackAligned ==
  ASSUME NEW f \in Feature, NEW H, NEW G, \A i \in 0 .. WINDOW_SIZE - 1 : G[i] = H[i + 1],
         AlignedIn(f, H, WINDOW_SIZE)
  PROVE  /\ ShiftBack(f) \in Feature /\ endFrame(ShiftBack(f)) = endFrame(f) - 1
         /\ Len(ShiftBack(f).feature_per_frame) =
              IF f.start_frame = 0 THEN Len(f.feature_per_frame) - 1 ELSE Len(f.feature_per_frame)
         /\ Len(ShiftBack(f).feature_per_frame) >= 1 => AlignedIn(ShiftBack(f), G, WINDOW_SIZE - 1)
<1>1. /\ f.start_frame \in Index /\ f.start_frame \in Nat /\ f.start_frame <= WINDOW_SIZE
      /\ f.feature_per_frame \in Seq(Frames) /\ Len(f.feature_per_frame) \in Nat
  BY FeatureParts
<1>2. /\ Len(f.feature_per_frame) >= 1
      /\ f.start_frame + Len(f.feature_per_frame) - 1 <= WINDOW_SIZE
      /\ \A k \in 1 .. Len(f.feature_per_frame) : f.feature_per_frame[k] = H[f.start_frame + k - 1]
  BY DEF AlignedIn, endFrame
<1>3. WINDOW_SIZE \in Nat
  BY SizeAssumption
<1>4. CASE f.start_frame # 0
  <2> DEFINE g == [f EXCEPT !.start_frame = f.start_frame - 1]
  <2>1. ShiftBack(f) = g
    BY <1>4 DEF ShiftBack
  <2>2. f.start_frame - 1 \in Index
    BY <1>1, <1>3, <1>4 DEF Index
  <2>3. /\ g \in Feature /\ g.start_frame = f.start_frame - 1
        /\ g.feature_per_frame = f.feature_per_frame
    BY <2>2, WithStart
  <2> HIDE DEF g
  <2>4. endFrame(g) = endFrame(f) - 1 /\ endFrame(g) <= WINDOW_SIZE - 1
    BY <1>1, <1>2, <1>3, <2>3 DEF endFrame
  <2>5. ASSUME NEW k \in 1 .. Len(f.feature_per_frame)
        PROVE  g.feature_per_frame[k] = G[g.start_frame + k - 1]
    <3>1. /\ g.start_frame + k - 1 \in 0 .. WINDOW_SIZE - 1
          /\ (g.start_frame + k - 1) + 1 = f.start_frame + k - 1
      <4>1. PICK a \in Nat, n \in Nat : a = f.start_frame /\ n = Len(f.feature_per_frame)
        BY <1>1
      <4>2. a # 0 /\ a + n - 1 <= WINDOW_SIZE /\ k \in 1 .. n /\ g.start_frame = a - 1
        BY <1>2, <1>4, <2>3, <4>1
      <4>3. (a - 1) + k - 1 \in 0 .. WINDOW_SIZE - 1 /\ ((a - 1) + k - 1) + 1 = a + k - 1
        BY <1>3, <4>2
      <4> QED
        BY <4>1, <4>2, <4>3
    <3>2. G[g.start_frame + k - 1] = H[(g.start_frame + k - 1) + 1]
      BY <3>1
    <3> QED
      BY <1>2, <2>3, <3>1, <3>2
  <2> QED
    BY <1>2, <1>4, <2>1, <2>3, <2>4, <2>5 DEF AlignedIn
<1>5. CASE f.start_frame = 0
  <2> DEFINE g == [f EXCEPT !.feature_per_frame = Erase(f.feature_per_frame, 0)]
  <2>1. ShiftBack(f) = g
    BY <1>5 DEF ShiftBack
  <2>2. /\ Erase(f.feature_per_frame, 0) \in Seq(Frames)
        /\ Len(Erase(f.feature_per_frame, 0)) = Len(f.feature_per_frame) - 1
        /\ \A k \in 1 .. Len(f.feature_per_frame) - 1 :
             Erase(f.feature_per_frame, 0)[k] =
               IF k <= 0 THEN f.feature_per_frame[k] ELSE f.feature_per_frame[k + 1]
    <3>1. 0 \in Int
      OBVIOUS
    <3> QED
      BY <1>1, <1>2, <3>1, EraseFacts
  <2>3. /\ g \in Feature /\ g.start_frame = 0
        /\ g.feature_per_frame = Erase(f.feature_per_frame, 0)
    BY <1>5, <2>2, WithList
  <2> HIDE DEF g
  <2>4. endFrame(g) = endFrame(f) - 1 /\ endFrame(g) <= WINDOW_SIZE - 1
    BY <1>1, <1>2, <1>3, <1>5, <2>2, <2>3 DEF endFrame
  <2>5. ASSUME NEW k \in 1 .. Len(f.feature_per_frame) - 1
        PROVE  g.feature_per_frame[k] = G[g.start_frame + k - 1]
    <3>1. k - 1 \in 0 .. WINDOW_SIZE - 1 /\ k + 1 \in 1 .. Len(f.feature_per_frame) /\ ~(k <= 0)
      BY <1>1, <1>2, <1>3, <1>5
    <3>2. g.feature_per_frame[k] = f.feature_per_frame[k + 1]
      BY <2>2, <2>3, <3>1
    <3>3. f.feature_per_frame[k + 1] = H[f.start_frame + (k + 1) - 1]
      BY <1>2, <3>1
    <3>4. f.start_frame + (k + 1) - 1 = (k - 1) + 1 /\ g.start_frame + k - 1 = k - 1
      BY <1>5, <2>3
    <3>5. G[k - 1] = H[(k - 1) + 1]
      BY <3>1
    <3> QED
      BY <3>2, <3>3, <3>4, <3>5
  <2> QED
    BY <1>5, <2>1, <2>2, <2>3, <2>4, <2>5 DEF AlignedIn
<1> QED
  BY <1>4, <1>5

(* removeFront: the newest takes the place of the second newest.           *)
LEMMA ShiftFrontAligned ==
  ASSUME NEW f \in Feature, NEW H, NEW G, frame_count = WINDOW_SIZE,
         \A i \in 0 .. WINDOW_SIZE - 2 : G[i] = H[i], G[WINDOW_SIZE - 1] = H[WINDOW_SIZE],
         AlignedIn(f, H, WINDOW_SIZE)
  PROVE  /\ ShiftFront(f) \in Feature
         /\ endFrame(ShiftFront(f)) < WINDOW_SIZE - 1 => endFrame(f) < WINDOW_SIZE
         /\ ShiftFront(f).feature_per_frame # <<>> => AlignedIn(ShiftFront(f), G, WINDOW_SIZE - 1)
<1>1. PICK a \in Nat, n \in Nat : /\ a = f.start_frame /\ n = Len(f.feature_per_frame)
                                /\ f.feature_per_frame \in Seq(Frames) /\ a \in Index
  BY FeatureParts
<1>2. /\ n >= 1 /\ a + n - 1 <= WINDOW_SIZE /\ endFrame(f) = a + n - 1
      /\ \A k \in 1 .. n : f.feature_per_frame[k] = H[a + k - 1]
  BY <1>1 DEF AlignedIn, endFrame
<1>3. WINDOW_SIZE \in Nat /\ WINDOW_SIZE >= 2
  BY SizeAssumption
<1>4. CASE a = WINDOW_SIZE
  <2> DEFINE g == [f EXCEPT !.start_frame = WINDOW_SIZE - 1]
  <2>1. ShiftFront(f) = g
    BY <1>1, <1>4 DEF ShiftFront
  <2>2. WINDOW_SIZE - 1 \in Index
    BY <1>3 DEF Index
  <2>3. g \in Feature /\ g.start_frame = WINDOW_SIZE - 1 /\ g.feature_per_frame = f.feature_per_frame
    BY <2>2, WithStart
  <2> HIDE DEF g
  <2>4. n = 1
    BY <1>2, <1>3, <1>4
  <2>5. endFrame(g) = WINDOW_SIZE - 1
    BY <1>1, <1>3, <2>3, <2>4 DEF endFrame
  <2>6. ASSUME NEW k \in 1 .. 1 PROVE f.feature_per_frame[k] = G[(WINDOW_SIZE - 1) + k - 1]
    <3>1. k = 1 /\ (WINDOW_SIZE - 1) + 1 - 1 = WINDOW_SIZE - 1 /\ WINDOW_SIZE + 1 - 1 = WINDOW_SIZE
      BY <1>3
    <3>2. f.feature_per_frame[1] = H[WINDOW_SIZE + 1 - 1]
      BY <1>2, <1>4, <2>4
    <3> QED
      BY <3>1, <3>2
  <2> QED
    BY <1>1, <1>3, <2>1, <2>3, <2>4, <2>5, <2>6 DEF AlignedIn
<1>5. CASE a # WINDOW_SIZE /\ endFrame(f) < WINDOW_SIZE - 1
  <2>1. ShiftFront(f) = f
    BY <1>1, <1>5 DEF ShiftFront
  <2>2. ASSUME NEW k \in 1 .. n PROVE f.feature_per_frame[k] = G[a + k - 1]
    <3>1. a + k - 1 \in 0 .. WINDOW_SIZE - 2
      BY <1>2, <1>3, <1>5
    <3> QED
      BY <1>2, <3>1
  <2>3. endFrame(f) <= WINDOW_SIZE - 1
    BY <1>2, <1>3, <1>5
  <2> QED
    BY <1>1, <1>2, <1>3, <1>5, <2>1, <2>2, <2>3 DEF AlignedIn
<1>6. CASE a # WINDOW_SIZE /\ ~(endFrame(f) < WINDOW_SIZE - 1)
  <2>1. PICK p \in Nat : p = WINDOW_SIZE - 1 - a
    BY <1>1, <1>3, <1>6 DEF Index
  <2> DEFINE g == [f EXCEPT !.feature_per_frame = Erase(f.feature_per_frame, p)]
  <2>2. ShiftFront(f) = g
    BY <1>1, <1>6, <2>1 DEF ShiftFront, PlaceOfSecondNew
  <2>3. /\ Erase(f.feature_per_frame, p) \in Seq(Frames)
        /\ Len(Erase(f.feature_per_frame, p)) = n - 1
        /\ \A k \in 1 .. n - 1 :
             Erase(f.feature_per_frame, p)[k] =
               IF k <= p THEN f.feature_per_frame[k] ELSE f.feature_per_frame[k + 1]
    <3>1. p \in Int
      BY <2>1
    <3> QED
      BY <1>1, <1>2, <3>1, EraseFacts
  <2>4. /\ g \in Feature /\ g.start_frame = a
        /\ g.feature_per_frame = Erase(f.feature_per_frame, p)
    BY <1>1, <2>3, WithList
  <2> HIDE DEF g
  <2>5. endFrame(g) = a + (n - 1) - 1 /\ endFrame(g) = endFrame(f) - 1
    <3>1. Len(g.feature_per_frame) = n - 1 /\ g.start_frame = a /\ endFrame(f) = a + n - 1
      BY <1>2, <2>3, <2>4
    <3>2. endFrame(g) = a + (n - 1) - 1
      BY <3>1 DEF endFrame
    <3>3. a \in Nat /\ n \in Nat
      BY <1>1
    <3> QED
      BY <3>1, <3>2, <3>3
  <2>6. ASSUME NEW k \in 1 .. n - 1 PROVE g.feature_per_frame[k] = G[a + k - 1]
    <3>1. CASE k <= p
      <4>1. a + k - 1 \in 0 .. WINDOW_SIZE - 2 /\ k \in 1 .. n
        BY <1>1, <1>3, <2>1, <3>1
      <4> QED
        BY <1>2, <2>3, <2>4, <3>1, <4>1
    <3>2. CASE ~(k <= p)
      <4>1. k = p + 1 /\ k + 1 \in 1 .. n /\ a + (k + 1) - 1 = WINDOW_SIZE /\ a + k - 1 = WINDOW_SIZE - 1
        <5>1. k \in Nat /\ k > p /\ k <= n - 1 /\ p = WINDOW_SIZE - 1 - a
          BY <1>1, <2>1, <3>2
        <5>2. a + n - 1 <= WINDOW_SIZE /\ n >= 1
          BY <1>2
        <5>3. a \in Nat /\ n \in Nat /\ WINDOW_SIZE \in Nat /\ p \in Nat
          BY <1>3
        <5>4. k = p + 1
          BY <5>1, <5>2, <5>3
        <5>5. k + 1 <= n /\ k + 1 >= 1 /\ a + k = WINDOW_SIZE
          BY <5>1, <5>2, <5>3, <5>4
        <5> QED
          BY <5>1, <5>3, <5>4, <5>5
      <4>2. g.feature_per_frame[k] = f.feature_per_frame[k + 1]
        BY <2>3, <2>4, <3>2
      <4>3. f.feature_per_frame[k + 1] = H[a + (k + 1) - 1]
        BY <1>2, <4>1
      <4> QED
        BY <4>1, <4>2, <4>3
    <3> QED
      BY <3>1, <3>2
  <2>7. g.feature_per_frame # <<>> => n - 1 >= 1
    <3>1. Len(g.feature_per_frame) = n - 1 /\ g.feature_per_frame \in Seq(Frames)
      BY <2>3, <2>4
    <3>2. Len(g.feature_per_frame) = 0 => g.feature_per_frame = <<>>
      BY <3>1, EmptySeq
    <3> QED
      BY <1>1, <1>2, <3>1, <3>2
  <2>8. endFrame(g) <= WINDOW_SIZE - 1
    BY <1>1, <1>2, <1>3, <2>5
  <2>9. endFrame(g) < WINDOW_SIZE - 1 => endFrame(f) < WINDOW_SIZE
    BY <1>1, <1>2, <1>3, <2>5
  <2>10. Len(g.feature_per_frame) = n - 1
    BY <2>3, <2>4
  <2>11. g.feature_per_frame # <<>> => AlignedIn(g, G, WINDOW_SIZE - 1)
    BY <2>4, <2>6, <2>7, <2>8, <2>10 DEF AlignedIn
  <2> QED
    BY <2>2, <2>4, <2>9, <2>11
<1> QED
  BY <1>4, <1>5, <1>6
-----------------------------------------------------------------------------
(* The names to come.                                                      *)

Buffered == Ahead + Len(featureBuf)

Frame == [t : Frames, ids : SUBSET (0 .. MaxId)]

LEMMA ToComeParts ==
  ASSUME TypeOK
  PROVE  /\ Buffered \in Nat /\ Ahead \in {0, 1} /\ Len(featureBuf) \in Nat
         /\ DOMAIN featureBuf = 1 .. Len(featureBuf)
         /\ DOMAIN ToCome = 1 .. Buffered + 1
         /\ ToCome[Buffered + 1] = ids
         /\ Ahead = 1 => ToCome[1] = taken.ids
         /\ \A k \in 1 .. Len(featureBuf) : ToCome[Ahead + k] = featureBuf[k].ids
<1>1. Len(featureBuf) \in Nat /\ DOMAIN featureBuf = 1 .. Len(featureBuf)
  BY LenProperties DEF TypeOK
<1>2. Ahead \in {0, 1}
  BY DEF Ahead, InHand
<1>3. Buffered \in Nat
  BY <1>1, <1>2 DEF Buffered
<1>4. DOMAIN ToCome = 1 .. Buffered + 1
  BY DEF ToCome, Buffered
<1> DEFINE At(k) == IF k = Ahead THEN taken.ids
                    ELSE IF k <= Ahead + Len(featureBuf) THEN featureBuf[k - Ahead].ids
                    ELSE ids
<1>5. \A k \in 1 .. Buffered + 1 : ToCome[k] = At(k)
  BY DEF ToCome, Buffered
<1>6. ToCome[Buffered + 1] = ids
  <2>1. Buffered + 1 \in 1 .. Buffered + 1 /\ Buffered + 1 # Ahead /\ ~(Buffered + 1 <= Ahead + Len(featureBuf))
    BY <1>1, <1>2, <1>3 DEF Buffered
  <2> QED
    BY <1>5, <2>1
<1>7. Ahead = 1 => ToCome[1] = taken.ids
  <2>1. 1 \in 1 .. Buffered + 1
    BY <1>3
  <2> QED
    BY <1>5, <2>1
<1>8. ASSUME NEW k \in 1 .. Len(featureBuf) PROVE ToCome[Ahead + k] = featureBuf[k].ids
  <2>1. /\ Ahead + k \in 1 .. Buffered + 1 /\ Ahead + k # Ahead /\ Ahead + k <= Ahead + Len(featureBuf)
        /\ (Ahead + k) - Ahead = k
    BY <1>1, <1>2 DEF Buffered
  <2> QED
    BY <1>5, <2>1
<1> QED
  BY <1>1, <1>2, <1>3, <1>4, <1>6, <1>7, <1>8

(* The oldest frame is taken out: nothing else moves.                      *)
LEMMA TakenToCome ==
  ASSUME TypeOK, TypeOK', CopyFrame
  PROVE  ToCome' = ToCome
<1>1. /\ Ahead = 0 /\ Ahead' = 1 /\ featureBuf # <<>> /\ featureBuf' = Tail(featureBuf)
      /\ taken'.ids = Head(featureBuf).ids /\ ids' = ids
  <2>1. stage \in {"idle", "call"} /\ stage' = "copied"
    BY DEF CopyFrame
  <2> QED
    BY <2>1 DEF CopyFrame, Ahead, InHand, tracker
<1>2. featureBuf \in Seq(Frame) /\ Len(featureBuf) \in Nat /\ featureBuf' \in Seq(Frame)
  BY ToComeParts DEF TypeOK, Frame
<1>3. Len(featureBuf) >= 1
  <2>1. Len(featureBuf) # 0
    BY <1>1, <1>2, EmptySeq
  <2> QED
    BY <1>2, <2>1
<1>4. /\ Len(featureBuf') = Len(featureBuf) - 1
      /\ \A i \in 1 .. Len(featureBuf) - 1 : featureBuf'[i] = featureBuf[i + 1]
      /\ Head(featureBuf) = featureBuf[1]
  BY <1>1, <1>2, HeadTailProperties
<1> DEFINE n == Len(featureBuf)
           X(k) == IF k = 0 THEN taken.ids ELSE IF k <= 0 + n THEN featureBuf[k - 0].ids ELSE ids
           Y(k) == IF k = 1 THEN featureBuf[1].ids
                   ELSE IF k <= 1 + (n - 1) THEN featureBuf'[k - 1].ids ELSE ids
<1>5. ToCome = [k \in 1 .. 0 + n + 1 |-> X(k)]
  BY <1>1 DEF ToCome
<1>6. ToCome' = [k \in 1 .. 1 + (n - 1) + 1 |-> Y(k)]
  BY <1>1, <1>4 DEF ToCome
<1>7. \A k \in 1 .. n + 1 : X(k) = Y(k)
  <2> SUFFICES ASSUME NEW k \in 1 .. n + 1 PROVE X(k) = Y(k)
    OBVIOUS
  <2>1. CASE k = 1
    BY <1>2, <1>3, <2>1
  <2>2. CASE k # 1 /\ k <= n
    <3>1. k - 1 \in 1 .. n - 1 /\ (k - 1) + 1 = k /\ k - 0 = k /\ k # 0 /\ k <= 0 + n /\ k <= 1 + (n - 1)
      BY <1>2, <2>2
    <3>2. featureBuf'[k - 1] = featureBuf[k]
      BY <1>4, <3>1
    <3> QED
      BY <2>2, <3>1, <3>2
  <2>3. CASE ~(k <= n)
    BY <1>2, <1>3, <2>3
  <2> QED
    BY <2>1, <2>2, <2>3
<1>8. 0 + n + 1 = n + 1 /\ 1 + (n - 1) + 1 = n + 1
  BY <1>2
<1> HIDE DEF X, Y
<1> QED
  BY <1>5, <1>6, <1>7, <1>8
-----------------------------------------------------------------------------
(* The order of the frames.                                                *)

(* The frames that wait are newer than the one that is taken, and all are  *)
(* newer than the images that are kept.                                    *)
FramesInOrder ==
  /\ \A i \in DOMAIN featureBuf :
       /\ featureBuf[i].t <= pushed
       /\ \A j \in DOMAIN featureBuf : i < j => featureBuf[i].t < featureBuf[j].t
       /\ stage \in InHand \cup Locked => taken.t < featureBuf[i].t
       /\ \A t \in all_image_frame : t < featureBuf[i].t
  /\ stage \in InHand \cup Locked => taken.t <= pushed
  /\ \A t \in all_image_frame : t <= pushed
  /\ stage \in InHand => \A t \in all_image_frame : t < taken.t

(* The images cover the window in order, and one whose pre-integration was *)
(* deleted is before it.                                                   *)
ImagesInOrder ==
  /\ \A i \in 0 .. Newest : Headers[i] \in all_image_frame
  /\ \A i, j \in 0 .. Newest : i < j => Headers[i] < Headers[j]
  /\ \A t \in freed : \A u \in all_image_frame : t <= u
  /\ \A t \in freed : \A i \in 0 .. Newest : t < Headers[i]

(* Two cameras never slide before they are initialized, if no switch turns *)
(* the second one on: until then the images are those of the window.       *)
ImagesExact ==
  /\ stage = "clean" => solver_flag = "NON_LINEAR"
  /\ "cam" \notin Switches /\ STEREO /\ solver_flag = "INITIAL" =>
       /\ stage # "slide"
       /\ \A t \in all_image_frame : \E i \in 0 .. Newest : Headers[i] = t

ImagesInv == FramesInOrder /\ ImagesInOrder /\ ImagesExact

-----------------------------------------------------------------------------
(* Types.                                                                  *)

LEMMA InitType == Init => TypeOK
<1> SUFFICES ASSUME Init PROVE TypeOK
  OBVIOUS
<1>1. /\ 0 \in Frames /\ 0 \in Index /\ 0 \in 0 .. MaxMessages /\ 0 \in 0 .. MaxId
      /\ {} \subseteq 0 .. 0 - 1
  BY SizeAssumption DEF Frames, Index
<1>2. USE_IMU \in BOOLEAN /\ STEREO \in BOOLEAN /\ MULTIPLE_THREAD \in BOOLEAN
  <2>1. PICK s \in SensorTypes : USE_IMU = s[1] /\ STEREO = s[2]
    BY DEF Init
  <2>2. s \in BOOLEAN \X BOOLEAN
    BY SensorAssumption
  <2>3. s[1] \in BOOLEAN /\ s[2] \in BOOLEAN
    BY <2>2
  <2> QED
    BY <2>1, <2>3, SensorAssumption DEF Init
<1>3. DOMAIN feature = {} /\ featureBuf \in Seq([t : Frames, ids : SUBSET (0 .. MaxId)])
  BY DEF Init
<1>4. taken \in [t : Frames, ids : SUBSET (0 .. MaxId), imu : BOOLEAN]
  BY <1>1 DEF Init, NoFrame
<1>5. Headers \in [Index -> Frames]
  BY <1>1 DEF Init
<1>6. pre_integrations \in [Index -> [from : Frames, to : Frames]]
  BY <1>1 DEF Init, NoImu
<1> QED
  BY <1>1, <1>2, <1>3, <1>4, <1>5, <1>6 DEF Init, TypeOK

LEMMA TypeInput == TypeOK /\ InputImage => TypeOK'
<1> SUFFICES ASSUME TypeOK, InputImage PROVE TypeOK'
  OBVIOUS
<1>1. PICK kept \in SUBSET ids, new \in 0 .. MAX_CNT :
        /\ n_id + new <= MaxId
        /\ ids' = kept \cup (n_id .. n_id + new - 1)
        /\ n_id' = n_id + new
  BY DEF InputImage
<1>2. n_id' \in 0 .. MaxId /\ ids' \subseteq 0 .. n_id' - 1 /\ ids' \subseteq 0 .. MaxId
  BY <1>1, SizeAssumption DEF TypeOK
<1>3. inputImageCnt' \in {0, 1}
  BY DEF InputImage, TypeOK
<1>4. pushed' \in Frames /\ featureBuf' \in Seq([t : Frames, ids : SUBSET (0 .. MaxId)])
  <2>1. CASE pushed' = pushed /\ featureBuf' = featureBuf
    BY <2>1 DEF TypeOK
  <2>2. CASE pushed' = pushed + 1 /\ featureBuf' = Append(featureBuf, [t |-> pushed + 1, ids |-> ids'])
    <3>1. pushed + 1 \in Frames
      BY SizeAssumption DEF InputImage, TypeOK, Frames
    <3>2. [t |-> pushed + 1, ids |-> ids'] \in [t : Frames, ids : SUBSET (0 .. MaxId)]
      BY <1>2, <3>1
    <3> QED
      BY <2>2, <3>1, <3>2, AppendProperties DEF TypeOK
  <2> QED
    BY <2>1, <2>2 DEF InputImage
<1>5. stage' \in {"idle", "call"} \cup InHand \cup Locked
  BY DEF InputImage, TypeOK
<1> QED
  BY <1>2, <1>3, <1>4, <1>5 DEF InputImage, TypeOK, config, cleared, sensors, flags, window, images

LEMMA TypeTake == TypeOK /\ (CopyFrame \/ NoFrameYet \/ PopFrame) => TypeOK'
<1> SUFFICES ASSUME TypeOK, CopyFrame \/ NoFrameYet \/ PopFrame PROVE TypeOK'
  OBVIOUS
<1> DEFINE S == [t : Frames, ids : SUBSET (0 .. MaxId)]
<1>0. featureBuf # <<>> => Head(featureBuf) \in S /\ Tail(featureBuf) \in Seq(S)
  <2>1. featureBuf \in Seq(S)
    BY DEF TypeOK
  <2> QED
    BY <2>1, HeadTailProperties
<1>1. CASE CopyFrame
  <2>1. taken' \in [t : Frames, ids : SUBSET (0 .. MaxId), imu : BOOLEAN] /\ taken'.t \in Frames
    BY <1>0, <1>1 DEF TypeOK, CopyFrame
  <2>2. featureBuf' \in Seq(S) /\ curTime' \in Frames /\ stage' \in InHand
    BY <1>0, <1>1, <2>1 DEF CopyFrame, InHand
  <2> QED
    BY <1>1, <2>1, <2>2 DEF CopyFrame, TypeOK, config, cleared, sensors, tracker, flags, window, images
<1>2. CASE NoFrameYet
  BY <1>2 DEF NoFrameYet, TypeOK, config, cleared, sensors, tracker, input, flags, window, images
<1>3. CASE PopFrame
  <2>1. PICK imu \in {USE_IMU} \cup (IF curTime = 0 THEN {FALSE} ELSE {}) : taken' = [taken EXCEPT !.imu = imu]
    BY <1>3 DEF PopFrame
  <2>2. imu \in BOOLEAN
    BY <2>1, Zenon DEF TypeOK
  <2>3. taken' \in [t : Frames, ids : SUBSET (0 .. MaxId), imu : BOOLEAN]
    BY <2>1, <2>2, Zenon DEF TypeOK
  <2>4. featureBuf' \in Seq(S)
    <3>1. featureBuf' = featureBuf \/ (featureBuf # <<>> /\ featureBuf' = Tail(featureBuf))
      <4>1. curTime = 0 => featureBuf # <<>> /\ featureBuf' = Tail(featureBuf)
        BY <1>3, Zenon DEF PopFrame
      <4>2. curTime # 0 => featureBuf' = featureBuf
        BY <1>3, Zenon DEF PopFrame
      <4> QED
        BY <4>1, <4>2
    <3>2. featureBuf \in Seq(S)
      BY DEF TypeOK
    <3> QED
      BY <1>0, <3>1, <3>2
  <2>5. stage' \in InHand
    BY <1>3 DEF PopFrame, InHand
  <2> QED
    BY <1>3, <2>3, <2>4, <2>5 DEF PopFrame, TypeOK, config, cleared, sensors, tracker, flags, window, images
<1> QED
  BY <1>1, <1>2, <1>3

LEMMA TypeIMU == TypeOK /\ ProcessIMU => TypeOK'
<1> SUFFICES ASSUME TypeOK, ProcessIMU PROVE TypeOK'
  OBVIOUS
<1>1. taken.t \in Frames /\ prevTime \in Frames /\ frame_count \in Index
  BY DEF TypeOK
<1>2. pre_integrations' \in [Index -> [from : Frames, to : Frames]]
  <2>1. CASE pre_integrations' = pre_integrations
    BY <2>1 DEF TypeOK
  <2>2. CASE pre_integrations' # pre_integrations
    <3>1. PICK from : pre_integrations' = [pre_integrations EXCEPT ![frame_count] = [from |-> from, to |-> taken.t]]
                      /\ from \in {taken.t, prevTime, pre_integrations[frame_count].from}
      BY <2>2 DEF ProcessIMU
    <3>2. pre_integrations[frame_count].from \in Frames
      BY <1>1 DEF TypeOK
    <3>3. [from |-> from, to |-> taken.t] \in [from : Frames, to : Frames]
      BY <1>1, <3>1, <3>2
    <3> QED
      BY <1>1, <3>1, <3>3 DEF TypeOK
  <2> QED
    BY <2>1, <2>2
<1> QED
  BY <1>2 DEF ProcessIMU, TypeOK, InHand, config, cleared, sensors, tracker, input, flags, images

LEMMA AddedFeatures ==
  ASSUME TypeOK
  PROVE  /\ DOMAIN Added(taken) = DOMAIN feature \cup taken.ids
         /\ \A id \in taken.ids \ DOMAIN feature :
              Added(taken)[id] = [start_frame |-> frame_count, feature_per_frame |-> <<taken.t>>, solve_flag |-> 0]
         /\ \A id \in taken.ids \cap DOMAIN feature :
              Added(taken)[id] = [feature[id] EXCEPT !.feature_per_frame = Append(feature[id].feature_per_frame, taken.t)]
         /\ \A id \in DOMAIN feature \ taken.ids : Added(taken)[id] = feature[id]
         /\ \A id \in DOMAIN Added(taken) : Added(taken)[id] \in Feature
<1>1. DOMAIN Added(taken) = DOMAIN feature \cup taken.ids
  BY DEF Added
<1>2. \A id \in taken.ids \ DOMAIN feature :
        Added(taken)[id] = [start_frame |-> frame_count, feature_per_frame |-> <<taken.t>>, solve_flag |-> 0]
  BY DEF Added
<1>3. \A id \in taken.ids \cap DOMAIN feature :
        Added(taken)[id] = [feature[id] EXCEPT !.feature_per_frame = Append(feature[id].feature_per_frame, taken.t)]
  BY DEF Added
<1>4. \A id \in DOMAIN feature \ taken.ids : Added(taken)[id] = feature[id]
  BY DEF Added
<1>5. taken.t \in Frames /\ frame_count \in Index
  BY DEF TypeOK
<1>6. ASSUME NEW id \in taken.ids \ DOMAIN feature PROVE Added(taken)[id] \in Feature
  <2>1. PICK list : list = <<taken.t>>
    OBVIOUS
  <2>2. list \in Seq(Frames)
    BY <1>5, <2>1
  <2>3. 0 \in 0 .. 2
    OBVIOUS
  <2>4. [start_frame |-> frame_count, feature_per_frame |-> list, solve_flag |-> 0] \in Feature
    BY <1>5, <2>2, <2>3 DEF Feature
  <2> QED
    BY <1>2, <2>1, <2>4
<1>7. ASSUME NEW id \in taken.ids \cap DOMAIN feature PROVE Added(taken)[id] \in Feature
  <2>1. feature[id] \in Feature
    BY DEF TypeOK
  <2>2. Append(feature[id].feature_per_frame, taken.t) \in Seq(Frames)
    BY <1>5, <2>1, FeatureParts, AppendProperties
  <2> QED
    BY <1>3, <2>1, <2>2, WithList
<1>8. \A id \in DOMAIN feature \ taken.ids : Added(taken)[id] \in Feature
  BY <1>4 DEF TypeOK
<1> QED
  BY <1>1, <1>2, <1>3, <1>4, <1>6, <1>7, <1>8

LEMMA SolvedFeatures ==
  ASSUME TypeOK, NEW bad
  PROVE  /\ DOMAIN Solved(bad) = DOMAIN feature
         /\ \A id \in DOMAIN feature :
              /\ Solved(bad)[id] \in Feature
              /\ Solved(bad)[id].start_frame = feature[id].start_frame
              /\ Solved(bad)[id].feature_per_frame = feature[id].feature_per_frame
<1>1. DOMAIN Solved(bad) = DOMAIN feature
  BY DEF Solved
<1>2. ASSUME NEW id \in DOMAIN feature
      PROVE  /\ Solved(bad)[id] \in Feature
             /\ Solved(bad)[id].start_frame = feature[id].start_frame
             /\ Solved(bad)[id].feature_per_frame = feature[id].feature_per_frame
  <2>1. feature[id] \in Feature
    BY DEF TypeOK
  <2>2. CASE id \in Used
    <3>1. PICK flag \in 0 .. 2 : Solved(bad)[id] = [feature[id] EXCEPT !.solve_flag = flag]
      <4>1. (IF id \in bad THEN 2 ELSE 1) \in 0 .. 2
        OBVIOUS
      <4>2. Solved(bad)[id] = [feature[id] EXCEPT !.solve_flag = IF id \in bad THEN 2 ELSE 1]
        BY <2>2 DEF Solved
      <4> QED
        BY <4>1, <4>2
    <3> QED
      BY <2>1, <3>1, WithFlag
  <2>3. CASE id \notin Used
    BY <2>1, <2>3 DEF Solved
  <2> QED
    BY <2>2, <2>3
<1> QED
  BY <1>1, <1>2

LEMMA TypeAdd == TypeOK /\ AddFeatures => TypeOK'
<1> SUFFICES ASSUME TypeOK, AddFeatures PROVE TypeOK'
  OBVIOUS
<1>1. taken.t \in Frames /\ taken.ids \subseteq 0 .. MaxId /\ frame_count \in Index
  BY DEF TypeOK
<1>2. feature' = Added(taken)
  BY DEF AddFeatures
<1>3. DOMAIN feature' \subseteq 0 .. MaxId /\ \A id \in DOMAIN feature' : feature'[id] \in Feature
  BY <1>1, <1>2, AddedFeatures DEF TypeOK
<1>4. Headers' \in [Index -> Frames]
  BY <1>1 DEF AddFeatures, TypeOK
<1>5. all_image_frame' \subseteq Frames /\ freed' \subseteq all_image_frame'
  BY <1>1 DEF AddFeatures, TypeOK
<1>6. marginalization_flag' \in {"MARGIN_OLD", "MARGIN_SECOND_NEW"} /\ stage' \in Locked
  BY DEF AddFeatures, InHand, Locked
<1> QED
  BY <1>3, <1>4, <1>5, <1>6 DEF AddFeatures, TypeOK, config, cleared, sensors, tracker, input

(* What marginalization leaves are blocks of the window.                   *)
PriorType(p) == p \subseteq [kind : {"Pose", "SpeedBias"}, index : Index, of : Frames]

LEMMA MarginType ==
  ASSUME TypeOK, NEW p, PriorType(p), NEW short
  PROVE  PriorType(Marginalized(p, short))
<1>1. \A b \in p : b.kind \in {"Pose", "SpeedBias"} /\ b.index \in Index /\ b.of \in Frames
  BY DEF PriorType
<1>2. 0 \in Index /\ 1 \in Index /\ WINDOW_SIZE \in Nat /\ WINDOW_SIZE >= 2
      /\ WINDOW_SIZE - 1 \in Index
  BY SizeAssumption DEF Index
<1>3. \A i \in Index : Headers[i] \in Frames
  BY DEF TypeOK
<1>4. PriorType(MarginOld(p, short))
  <2>1. \A i \in Index, k \in {"Pose", "SpeedBias"} :
          Block(k, i, Headers[i]) \in [kind : {"Pose", "SpeedBias"}, index : Index, of : Frames]
    BY <1>3 DEF Block
  <2>2. PriorType(SeenFromOldest)
    BY <2>1 DEF SeenFromOldest, PriorType
  <2> DEFINE imu == IF USE_IMU /\ short
                    THEN {Block(k, i, Headers[i]) : k \in {"Pose", "SpeedBias"}, i \in {0, 1}}
                    ELSE {}
             all == p \cup imu \cup SeenFromOldest
  <2>3. PriorType(imu)
    <3>1. imu \subseteq {Block(k, i, Headers[i]) : k \in {"Pose", "SpeedBias"}, i \in {0, 1}}
      OBVIOUS
    <3>2. {Block(k, i, Headers[i]) : k \in {"Pose", "SpeedBias"}, i \in {0, 1}}
            \subseteq [kind : {"Pose", "SpeedBias"}, index : Index, of : Frames]
      <4> SUFFICES ASSUME NEW k \in {"Pose", "SpeedBias"}, NEW i \in {0, 1}
                   PROVE  Block(k, i, Headers[i]) \in [kind : {"Pose", "SpeedBias"}, index : Index, of : Frames]
        OBVIOUS
      <4>1. i \in Index
        BY <1>2
      <4> QED
        BY <2>1, <4>1
    <3> QED
      BY <3>1, <3>2 DEF PriorType
  <2>4. PriorType(all)
    BY <2>2, <2>3 DEF PriorType
  <2>5. MarginOld(p, short) = IF \E b \in all : b.index = 0
                              THEN {Block(b.kind, b.index - 1, b.of) : b \in {c \in all : c.index # 0}}
                              ELSE {}
    BY DEF MarginOld
  <2> HIDE DEF imu, all
  <2>6. ASSUME NEW b \in all, b.index # 0
        PROVE  Block(b.kind, b.index - 1, b.of) \in [kind : {"Pose", "SpeedBias"}, index : Index, of : Frames]
    <3>1. b.kind \in {"Pose", "SpeedBias"} /\ b.index \in Index /\ b.of \in Frames
      BY <2>4 DEF PriorType
    <3>2. b.index - 1 \in Index
      BY <1>2, <2>6, <3>1 DEF Index
    <3> QED
      BY <3>1, <3>2 DEF Block
  <2>7. MarginOld(p, short) \subseteq {Block(b.kind, b.index - 1, b.of) : b \in {c \in all : c.index # 0}}
    BY <2>5
  <2> QED
    BY <2>6, <2>7 DEF PriorType
<1>5. PriorType(MarginSecondNew(p))
  <2>1. ASSUME NEW b \in p PROVE Block(b.kind, WINDOW_SIZE - 1, b.of)
                                   \in [kind : {"Pose", "SpeedBias"}, index : Index, of : Frames]
    BY <1>1, <1>2 DEF Block
  <2>2. MarginSecondNew(p) \subseteq p \cup {Block(b.kind, WINDOW_SIZE - 1, b.of) : b \in p}
    BY DEF MarginSecondNew
  <2> QED
    BY <2>1, <2>2 DEF PriorType
<1> QED
  BY <1>4, <1>5 DEF Marginalized

LEMMA TypeSolve == TypeOK /\ (Grow \/ NotInitialized \/ Initialize \/ Optimize) => TypeOK'
<1> SUFFICES ASSUME TypeOK, Grow \/ NotInitialized \/ Initialize \/ Optimize PROVE TypeOK'
  OBVIOUS
<1>0. PriorType(prior) /\ frame_count \in Index /\ taken.t \in Frames /\ 0 \in Frames
  BY SizeAssumption DEF TypeOK, PriorType, Frames
<1>1. CASE Grow
  <2>1. frame_count' \in Index
    BY <1>0, <1>1, SizeAssumption DEF Grow, Index
  <2>2. DOMAIN feature' \subseteq 0 .. MaxId /\ \A id \in DOMAIN feature' : feature'[id] \in Feature
    <3>1. CASE feature' = feature
      BY <3>1 DEF TypeOK
    <3>2. CASE \E bad : feature' = Solved(bad)
      BY <3>2, SolvedFeatures DEF TypeOK
    <3> QED
      BY <1>1, <3>1, <3>2 DEF Grow
  <2>3. taken' \in [t : Frames, ids : SUBSET (0 .. MaxId), imu : BOOLEAN] /\ prevTime' \in Frames
    BY <1>0, <1>1 DEF Grow, NoFrame, TypeOK
  <2>4. stage' = "idle"
    BY <1>1 DEF Grow
  <2> QED
    BY <1>1, <2>1, <2>2, <2>3, <2>4 DEF Grow, TypeOK, config, cleared, sensors, tracker, input, images
<1>2. CASE NotInitialized
  <2>1. stage' \in Locked /\ marginalization_flag' \in {"MARGIN_OLD", "MARGIN_SECOND_NEW"}
    BY <1>2 DEF NotInitialized, TypeOK, InHand, Locked
  <2> QED
    BY <1>2, <2>1 DEF NotInitialized, TypeOK, config, cleared, sensors, tracker, input, window, images
<1>3. CASE Initialize
  <2>1. DOMAIN feature' \subseteq 0 .. MaxId /\ \A id \in DOMAIN feature' : feature'[id] \in Feature
    BY <1>3, SolvedFeatures DEF Initialize, TypeOK
  <2>2. PriorType(prior')
    <3>1. PICK short \in BOOLEAN : \/ prior' = Marginalized(Marginalized(prior, short), short)
                                  \/ prior' = Marginalized(prior, short)
      BY <1>3 DEF Initialize
    <3>2. PriorType(Marginalized(prior, short))
      BY <1>0, MarginType
    <3> QED
      BY <3>1, <3>2, MarginType
  <2>3. stage' \in Locked /\ solver_flag' = "NON_LINEAR"
    BY <1>3 DEF Initialize, InHand, Locked
  <2> QED
    BY <1>3, <2>1, <2>2, <2>3 DEF Initialize, TypeOK, PriorType, config, cleared, sensors, tracker, input, images
<1>4. CASE Optimize
  <2>1. PICK bad, removeIndex : /\ feature' = [id \in DOMAIN feature \ removeIndex |-> Solved(bad)[id]]
                                /\ ids' \subseteq ids
    BY <1>4 DEF Optimize
  <2>2. DOMAIN feature' \subseteq 0 .. MaxId /\ \A id \in DOMAIN feature' : feature'[id] \in Feature
    BY <2>1, SolvedFeatures DEF TypeOK
  <2>3. PriorType(prior')
    BY <1>0, <1>4, MarginType DEF Optimize
  <2>4. stage' \in Locked
    BY <1>4 DEF Optimize, InHand, Locked
  <2> QED
    BY <1>4, <2>1, <2>2, <2>3, <2>4 DEF Optimize, TypeOK, PriorType, config, cleared, sensors, input, flags, images
<1> QED
  BY <1>1, <1>2, <1>3, <1>4

(* Which features a slide keeps, and what of them.                         *)
LEMMA BackFeatures ==
  ASSUME NEW atLeast
  PROVE  /\ DOMAIN RemoveBack(atLeast) =
              {i \in DOMAIN feature : feature[i].start_frame = 0
                                        => Len(feature[i].feature_per_frame) - 1 >= atLeast}
         /\ \A id \in DOMAIN RemoveBack(atLeast) : RemoveBack(atLeast)[id] = ShiftBack(feature[id])
  BY DEF RemoveBack

LEMMA FrontFeatures ==
  /\ DOMAIN RemoveFront = {i \in DOMAIN feature : ShiftFront(feature[i]).feature_per_frame # <<>>}
  /\ \A id \in DOMAIN RemoveFront : RemoveFront[id] = ShiftFront(feature[id])
  BY DEF RemoveFront

LEMMA FailureFeatures ==
  ASSUME NEW list
  PROVE  /\ DOMAIN WithoutFailures(list) \subseteq DOMAIN list
         /\ \A id \in DOMAIN WithoutFailures(list) : WithoutFailures(list)[id] = list[id]
  BY DEF WithoutFailures

LEMMA SlideFacts ==
  ASSUME FeatureInv, stage \in {"slide", "clean"}
  PROVE  /\ frame_count = WINDOW_SIZE /\ Newest = WINDOW_SIZE
         /\ WINDOW_SIZE \in Nat /\ WINDOW_SIZE >= 2 /\ Headers[WINDOW_SIZE] = taken.t
         /\ 0 \in Index /\ WINDOW_SIZE \in Index /\ WINDOW_SIZE - 1 \in Index
         /\ Index = 0 .. WINDOW_SIZE
  BY SizeAssumption DEF FeatureInv, FullWindow, HeaderOfTaken, Newest, InHand, Locked, Index

(* What the two slides do to the features.                                 *)
LEMMA FeaturesSlideOld ==
  ASSUME TypeOK, FeatureInv, SlideOld
  PROVE  /\ DOMAIN feature' \subseteq DOMAIN feature
         /\ \A id \in DOMAIN feature' :
              /\ feature'[id] \in Feature
              /\ AlignedIn(feature'[id], Headers', WINDOW_SIZE - 1)
              /\ endFrame(feature'[id]) = endFrame(feature[id]) - 1
<1>1. stage \in {"slide", "clean"}
  BY DEF SlideOld
<1>2. PICK atLeast \in Nat : atLeast >= 1 /\ feature' = WithoutFailures(RemoveBack(atLeast))
  <2>1. feature' = WithoutFailures(RemoveBack(2)) \/ feature' = WithoutFailures(RemoveBack(1))
    BY DEF SlideOld
  <2> QED
    BY <2>1
<1>3. ObservationsAligned /\ \A id \in DOMAIN feature : feature[id] \in Feature
  BY DEF FeatureInv, TypeOK
<1>4. \A id \in DOMAIN feature : AlignedIn(feature[id], Headers, WINDOW_SIZE)
  BY <1>1, <1>3, AlignedMeans, SlideFacts
<1>5. PICK G : G = Headers' /\ \A i \in 0 .. WINDOW_SIZE - 1 : G[i] = Headers[i + 1]
  <2>1. \A i \in 0 .. WINDOW_SIZE - 1 : i \in Index /\ i < WINDOW_SIZE
    BY <1>1, SlideFacts
  <2> QED
    BY <2>1 DEF SlideOld
<1>6. DOMAIN feature' \subseteq DOMAIN feature
  BY <1>2, FailureFeatures, BackFeatures
<1>7. ASSUME NEW id \in DOMAIN feature'
      PROVE  /\ feature'[id] \in Feature
             /\ AlignedIn(feature'[id], G, WINDOW_SIZE - 1)
             /\ endFrame(feature'[id]) = endFrame(feature[id]) - 1
  <2>1. id \in DOMAIN RemoveBack(atLeast) /\ feature'[id] = RemoveBack(atLeast)[id]
    BY <1>2, FailureFeatures
  <2>2. /\ feature'[id] = ShiftBack(feature[id])
        /\ feature[id].start_frame = 0 => Len(feature[id].feature_per_frame) - 1 >= atLeast
    BY <2>1, BackFeatures
  <2>3. feature[id] \in Feature /\ AlignedIn(feature[id], Headers, WINDOW_SIZE)
    BY <1>3, <1>4, <1>6
  <2>4. /\ ShiftBack(feature[id]) \in Feature /\ endFrame(ShiftBack(feature[id])) = endFrame(feature[id]) - 1
        /\ Len(ShiftBack(feature[id]).feature_per_frame) =
              IF feature[id].start_frame = 0 THEN Len(feature[id].feature_per_frame) - 1
              ELSE Len(feature[id].feature_per_frame)
        /\ Len(ShiftBack(feature[id]).feature_per_frame) >= 1
             => AlignedIn(ShiftBack(feature[id]), G, WINDOW_SIZE - 1)
    BY <1>5, <2>3, ShiftBackAligned
  <2>5. Len(ShiftBack(feature[id]).feature_per_frame) >= 1
    <3>1. Len(feature[id].feature_per_frame) >= 1
      BY <2>3 DEF AlignedIn
    <3>2. CASE feature[id].start_frame = 0
      BY <1>2, <2>2, <2>3, <2>4, <3>2, FeatureParts
    <3>3. CASE feature[id].start_frame # 0
      BY <2>4, <3>1, <3>3
    <3> QED
      BY <3>2, <3>3
  <2> QED
    BY <2>2, <2>4, <2>5
<1> QED
  BY <1>5, <1>6, <1>7

LEMMA FeaturesSlideNew ==
  ASSUME TypeOK, FeatureInv, SlideNew
  PROVE  /\ DOMAIN feature' \subseteq DOMAIN feature
         /\ \A id \in DOMAIN feature' :
              /\ feature'[id] \in Feature
              /\ AlignedIn(feature'[id], Headers', WINDOW_SIZE - 1)
              /\ endFrame(feature'[id]) < WINDOW_SIZE - 1 => endFrame(feature[id]) < WINDOW_SIZE
<1>1. stage \in {"slide", "clean"}
  BY DEF SlideNew
<1>2. feature' = WithoutFailures(RemoveFront)
  BY DEF SlideNew
<1>3. ObservationsAligned /\ \A id \in DOMAIN feature : feature[id] \in Feature
  BY DEF FeatureInv, TypeOK
<1>4. \A id \in DOMAIN feature : AlignedIn(feature[id], Headers, WINDOW_SIZE)
  BY <1>1, <1>3, AlignedMeans, SlideFacts
<1>5. PICK G : /\ G = Headers' /\ \A i \in 0 .. WINDOW_SIZE - 2 : G[i] = Headers[i]
               /\ G[WINDOW_SIZE - 1] = Headers[WINDOW_SIZE]
  <2>1. \A i \in 0 .. WINDOW_SIZE - 2 : i \in Index /\ i # WINDOW_SIZE - 1
    BY <1>1, SlideFacts
  <2>2. Headers' = [Headers EXCEPT ![WINDOW_SIZE - 1] = Headers[WINDOW_SIZE]]
        /\ Headers \in [Index -> Frames] /\ WINDOW_SIZE - 1 \in Index
    BY <1>1, SlideFacts DEF SlideNew, TypeOK
  <2> QED
    BY <2>1, <2>2
<1>6. DOMAIN feature' \subseteq DOMAIN feature
  BY <1>2, FailureFeatures, FrontFeatures
<1>7. ASSUME NEW id \in DOMAIN feature'
      PROVE  /\ feature'[id] \in Feature
             /\ AlignedIn(feature'[id], G, WINDOW_SIZE - 1)
             /\ endFrame(feature'[id]) < WINDOW_SIZE - 1 => endFrame(feature[id]) < WINDOW_SIZE
  <2>1. id \in DOMAIN RemoveFront /\ feature'[id] = RemoveFront[id]
    BY <1>2, FailureFeatures
  <2>2. /\ feature'[id] = ShiftFront(feature[id])
        /\ ShiftFront(feature[id]).feature_per_frame # <<>>
    BY <2>1, FrontFeatures
  <2>3. feature[id] \in Feature /\ AlignedIn(feature[id], Headers, WINDOW_SIZE)
    BY <1>3, <1>4, <1>6
  <2>4. frame_count = WINDOW_SIZE
    BY <1>1, SlideFacts
  <2> QED
    BY <1>5, <2>2, <2>3, <2>4, ShiftFrontAligned
<1> QED
  BY <1>5, <1>6, <1>7

LEMMA TypeSlideOld ==
  ASSUME TypeOK, FeatureInv, ImagesInv, SlideOld
  PROVE  TypeOK'
<1>1. /\ 0 \in Index /\ WINDOW_SIZE \in Index /\ Index = 0 .. WINDOW_SIZE /\ WINDOW_SIZE \in Nat
      /\ Newest = WINDOW_SIZE
  BY SlideFacts DEF SlideOld
<1>2. DOMAIN feature' \subseteq 0 .. MaxId /\ \A id \in DOMAIN feature' : feature'[id] \in Feature
  BY FeaturesSlideOld DEF TypeOK
<1>3. taken.t \in Frames /\ 0 \in Frames
  BY SizeAssumption DEF TypeOK, Frames
<1>4. \A i \in Index : i < WINDOW_SIZE => i + 1 \in Index
  BY <1>1
<1>5. Headers' \in [Index -> Frames]
  <2>1. \A i \in Index : Headers[i] \in Frames
    BY DEF TypeOK
  <2> QED
    BY <1>4, <2>1 DEF SlideOld
<1>6. pre_integrations' \in [Index -> [from : Frames, to : Frames]]
  <2>1. CASE pre_integrations' = pre_integrations
    BY <2>1 DEF TypeOK
  <2>2. CASE pre_integrations' = [i \in Index |-> IF i < WINDOW_SIZE THEN pre_integrations[i + 1]
                                                ELSE [from |-> taken.t, to |-> taken.t]]
    <3>1. \A i \in Index : pre_integrations[i] \in [from : Frames, to : Frames]
      BY DEF TypeOK
    <3>2. [from |-> taken.t, to |-> taken.t] \in [from : Frames, to : Frames]
      BY <1>3
    <3> QED
      BY <1>4, <2>2, <3>1, <3>2
  <2> QED
    BY <2>1, <2>2 DEF SlideOld
<1>7. Headers[0] \in all_image_frame /\ Headers[0] \in Nat
  <2>1. 0 \in 0 .. Newest
    BY <1>1
  <2> QED
    BY <1>1, <2>1 DEF ImagesInv, ImagesInOrder, TypeOK, Frames
<1>8. all_image_frame' \subseteq Frames /\ freed' \subseteq all_image_frame'
  <2>1. Headers[0] \in all_image_frame'
    BY <1>7 DEF SlideOld, NotBefore
  <2> QED
    BY <2>1 DEF SlideOld, TypeOK
<1>9. /\ taken' \in [t : Frames, ids : SUBSET (0 .. MaxId), imu : BOOLEAN] /\ prevTime' \in Frames
      /\ stage' = "idle"
  BY <1>3 DEF SlideOld, FrameDone, NoFrame, TypeOK
<1> QED
  BY <1>2, <1>5, <1>6, <1>8, <1>9 DEF SlideOld, FrameDone, TypeOK, config, cleared, sensors, tracker, input, flags

LEMMA TypeSlideNew ==
  ASSUME TypeOK, FeatureInv, SlideNew
  PROVE  TypeOK'
<1>1. WINDOW_SIZE \in Index /\ WINDOW_SIZE - 1 \in Index
  BY SlideFacts DEF SlideNew
<1>2. DOMAIN feature' \subseteq 0 .. MaxId /\ \A id \in DOMAIN feature' : feature'[id] \in Feature
  BY FeaturesSlideNew DEF TypeOK
<1>3. taken.t \in Frames /\ 0 \in Frames
  BY SizeAssumption DEF TypeOK, Frames
<1>4. Headers' \in [Index -> Frames]
  BY <1>1 DEF SlideNew, TypeOK
<1>5. pre_integrations' \in [Index -> [from : Frames, to : Frames]]
  <2>1. CASE pre_integrations' = pre_integrations
    BY <2>1 DEF TypeOK
  <2>2. CASE pre_integrations' = [pre_integrations EXCEPT
                                    ![WINDOW_SIZE - 1] = Merged,
                                    ![WINDOW_SIZE]     = [from |-> taken.t, to |-> taken.t]]
    <3>1. \A i \in Index : pre_integrations[i] \in [from : Frames, to : Frames]
      BY DEF TypeOK
    <3>2. [from |-> taken.t, to |-> taken.t] \in [from : Frames, to : Frames]
      BY <1>3
    <3>3. Merged \in [from : Frames, to : Frames]
      BY <1>1, <3>1 DEF Merged
    <3> QED
      BY <1>1, <2>2, <3>2, <3>3 DEF TypeOK
  <2> QED
    BY <2>1, <2>2 DEF SlideNew
<1>6. /\ taken' \in [t : Frames, ids : SUBSET (0 .. MaxId), imu : BOOLEAN] /\ prevTime' \in Frames
      /\ stage' = "idle"
  BY <1>3 DEF SlideNew, FrameDone, NoFrame, TypeOK
<1> QED
  BY <1>2, <1>4, <1>5, <1>6
     DEF SlideNew, FrameDone, TypeOK, config, cleared, sensors, tracker, input, flags, images

LEMMA TypeClear == TypeOK /\ ClearState /\ (Restart \/ ReuseImu) => TypeOK'
<1> SUFFICES ASSUME TypeOK, ClearState, Restart \/ ReuseImu PROVE TypeOK'
  OBVIOUS
<1>1. 0 \in Frames /\ 0 \in Index
  BY SizeAssumption DEF Frames, Index
<1>2. messages' \in 0 .. MaxMessages
  BY SizeAssumption DEF Restart, ReuseImu, TypeOK
<1>6. reuse' \in BOOLEAN
  <2>1. reuse' = reuse \/ reuse' = FALSE
    BY Zenon DEF Restart, ReuseImu
  <2> QED
    BY <2>1, Zenon DEF TypeOK
<1>3. pre_integrations' \in [Index -> [from : Frames, to : Frames]]
  BY <1>1 DEF ClearState, NoImu
<1>4. featureBuf' \in Seq([t : Frames, ids : SUBSET (0 .. MaxId)])
  BY DEF ClearState
<1>5. DOMAIN feature' = {}
  BY DEF ClearState
<1>7. cut' \in Frames
  <2>1. cut' = taken.t \/ cut' = 0
    BY DEF ClearState
  <2> QED
    BY <1>1, <2>1 DEF TypeOK
<1> QED
  BY <1>1, <1>2, <1>3, <1>4, <1>5, <1>6, <1>7 DEF ClearState, TypeOK, NextName, config

LEMMA TypeSwitch == TypeOK /\ ChangeSensorType => TypeOK'
<1> SUFFICES ASSUME TypeOK, ChangeSensorType PROVE TypeOK'
  OBVIOUS
<1>1. USE_IMU' \in BOOLEAN /\ STEREO' \in BOOLEAN
  BY DEF ChangeSensorType
<1>2. reuse' \in BOOLEAN
  <2>1. PICK imu \in BOOLEAN : reuse' = (imu /\ ~USE_IMU)
    BY DEF ChangeSensorType
  <2> QED
    BY <2>1, Zenon
<1>3. messages' \in 0 .. MaxMessages
  BY SizeAssumption DEF ChangeSensorType, TypeOK
<1>4. prior' \subseteq prior
  BY DEF ChangeSensorType
<1> QED
  BY <1>1, <1>2, <1>3, <1>4
     DEF ChangeSensorType, TypeOK, config, cleared, tracker, input, thread, flags, images

LEMMA TypeStep ==
  ASSUME TypeOK, FeatureInv, ImagesInv, [Next]_vars
  PROVE  TypeOK'
<1>1. CASE UNCHANGED vars
  BY <1>1 DEF vars, config, cleared, sensors, tracker, input, thread, flags, window, images, TypeOK
<1>2. CASE Restart \/ ReuseImu
  <2>1. ClearState
    BY <1>2 DEF Restart, ReuseImu
  <2> QED
    BY <1>2, <2>1, TypeClear
<1>3. CASE Undefined
  BY <1>3 DEF Undefined, config, sensors, tracker, input, thread, flags, window, images, TypeOK
<1> QED
  BY <1>1, <1>2, <1>3, TypeInput, TypeTake, TypeIMU, TypeAdd, TypeSolve, TypeSlideOld, TypeSlideNew,
     TypeSwitch DEF Next

-----------------------------------------------------------------------------
(* Names: what each action does to those to come.                          *)

(* Nothing is to come that was not, and only the tracker may have lost     *)
(* names.                                                                  *)
NamesShrink ==
  /\ DOMAIN ToCome' = DOMAIN ToCome
  /\ \A k \in DOMAIN ToCome : ToCome'[k] \subseteq ToCome[k]
  /\ \A k \in DOMAIN ToCome : k # Buffered + 1 => ToCome'[k] = ToCome[k]

LEMMA ShrunkToCome ==
  ASSUME TypeOK, TypeOK', featureBuf' = featureBuf, Ahead' = Ahead,
         Ahead = 1 => taken'.ids = taken.ids, ids' \subseteq ids
  PROVE  NamesShrink
<1>1. Ahead \in {0, 1} /\ Len(featureBuf) \in Nat /\ Buffered = Ahead + Len(featureBuf)
  BY ToComeParts DEF Buffered
<1>2. PICK a, n : a = Ahead /\ n = Len(featureBuf)
  OBVIOUS
<1>3. ToCome = [k \in 1 .. a + n + 1 |->
                  IF k = a THEN taken.ids ELSE IF k <= a + n THEN featureBuf[k - a].ids ELSE ids]
  BY <1>2 DEF ToCome
<1>4. ToCome' = [k \in 1 .. a + n + 1 |->
                   IF k = a THEN taken'.ids ELSE IF k <= a + n THEN featureBuf[k - a].ids ELSE ids']
  BY <1>2 DEF ToCome
<1>5. DOMAIN ToCome' = DOMAIN ToCome /\ DOMAIN ToCome = 1 .. a + n + 1
  BY <1>3, <1>4
<1>6. ASSUME NEW k \in 1 .. a + n + 1
      PROVE  ToCome'[k] \subseteq ToCome[k] /\ (k # a + n + 1 => ToCome'[k] = ToCome[k])
  <2>1. CASE k = a
    <3>1. a = 1
      BY <1>1, <1>2, <2>1
    <3> QED
      BY <1>2, <1>3, <1>4, <2>1, <3>1
  <2>2. CASE k # a /\ k <= a + n
    BY <1>3, <1>4, <2>2
  <2>3. CASE k # a /\ ~(k <= a + n)
    <3>1. k = a + n + 1
      BY <1>1, <1>2, <2>3
    <3> QED
      BY <1>3, <1>4, <2>3, <3>1
  <2> QED
    BY <2>1, <2>2, <2>3
<1> QED
  BY <1>1, <1>2, <1>5, <1>6 DEF NamesShrink

LEMMA NamesShrunk ==
  ASSUME TypeOK, NamesKnown, Steady, NamesShrink, n_id' = n_id, DOMAIN feature' \subseteq DOMAIN feature
  PROVE  NamesKnown' /\ Steady'
<1>1. NamesKnown'
  BY DEF NamesKnown, Known, NamesShrink
<1>2. ASSUME NEW k \in DOMAIN ToCome, NEW l \in DOMAIN ToCome, k < l, NEW id \in ToCome'[l] \ ToCome'[k]
      PROVE  /\ id \notin DOMAIN feature'
             /\ \A j \in DOMAIN ToCome : j < k => id \notin ToCome'[j]
  <2>1. k # Buffered + 1
    BY <1>2, ToComeParts
  <2>2. id \in ToCome[l] \ ToCome[k]
    BY <1>2, <2>1 DEF NamesShrink
  <2> QED
    BY <1>2, <2>2 DEF Steady, NamesShrink
<1> QED
  BY <1>1, <1>2 DEF Steady, NamesShrink

(* The list loses features at most, and the frames stay where they are.    *)
LEMMA FeaturesKept ==
  ASSUME TypeOK, TypeOK', FeatureInv, NamesShrink, n_id' = n_id,
         DOMAIN feature' \subseteq DOMAIN feature,
         \A id \in DOMAIN feature' : /\ feature'[id].start_frame = feature[id].start_frame
                                     /\ feature'[id].feature_per_frame = feature[id].feature_per_frame,
         Headers' = Headers, Newest' = Newest
  PROVE  (NamesKnown /\ Steady /\ LostForGood /\ ObservationsAligned)'
<1>1. NamesKnown' /\ Steady'
  BY NamesShrunk DEF FeatureInv
<1>2. \A id \in DOMAIN feature' : endFrame(feature'[id]) = endFrame(feature[id])
  BY DEF endFrame
<1>3. LostForGood'
  BY <1>2 DEF LostForGood, FeatureInv, NamesShrink
<1>4. ObservationsAligned'
  BY <1>2 DEF ObservationsAligned, FeatureInv
<1> QED
  BY <1>1, <1>3, <1>4

(* The tracker's new names are new to the list and to all that waits.      *)
LEMMA InputToCome ==
  ASSUME TypeOK, TypeOK', InputImage
  PROVE  /\ Ahead' = Ahead /\ Buffered' \in {Buffered, Buffered + 1}
         /\ \A k \in 1 .. Buffered : ToCome'[k] = ToCome[k]
         /\ \A k \in Buffered + 1 .. Buffered' + 1 : ToCome'[k] = ids'
<1>1. Ahead' = Ahead /\ taken' = taken
  BY DEF InputImage, Ahead, InHand
<1>2. Ahead \in {0, 1} /\ Len(featureBuf) \in Nat /\ Buffered = Ahead + Len(featureBuf)
  BY ToComeParts DEF Buffered
<1>3. PICK a \in {0, 1}, n \in Nat : a = Ahead /\ n = Len(featureBuf)
  BY <1>2
<1>4. ToCome = [k \in 1 .. a + n + 1 |->
                  IF k = a THEN taken.ids ELSE IF k <= a + n THEN featureBuf[k - a].ids ELSE ids]
  BY <1>3 DEF ToCome
<1>5. CASE featureBuf' = featureBuf
  <2>1. ToCome' = [k \in 1 .. a + n + 1 |->
                     IF k = a THEN taken.ids ELSE IF k <= a + n THEN featureBuf[k - a].ids ELSE ids']
    BY <1>1, <1>3, <1>5 DEF ToCome
  <2>2. Buffered' = Buffered /\ Buffered = a + n
    BY <1>1, <1>2, <1>3, <1>5 DEF Buffered
  <2>3. ASSUME NEW k \in 1 .. a + n PROVE ToCome'[k] = ToCome[k]
    BY <1>4, <2>1
  <2>4. ToCome'[a + n + 1] = ids'
    BY <2>1
  <2>5. \A k \in Buffered + 1 .. Buffered' + 1 : k = a + n + 1
    BY <2>2
  <2> QED
    BY <1>1, <2>2, <2>3, <2>4, <2>5
<1>6. CASE featureBuf' = Append(featureBuf, [t |-> pushed + 1, ids |-> ids'])
  <2>1. featureBuf \in Seq(Frame) /\ [t |-> pushed + 1, ids |-> ids'] \in Frame
    <3>1. ids' \in SUBSET (0 .. MaxId)
      <4>1. PICK next : next = n_id'
        OBVIOUS
      <4>2. next \in 0 .. MaxId /\ ids' \subseteq 0 .. next - 1
        BY <4>1 DEF TypeOK
      <4>3. 0 .. next - 1 \subseteq 0 .. MaxId
        BY <4>2, SizeAssumption
      <4> QED
        BY <4>2, <4>3
    <3>2. pushed + 1 \in Frames
      BY SizeAssumption DEF InputImage, TypeOK, Frames
    <3> QED
      BY <3>1, <3>2 DEF TypeOK, Frame
  <2>2. /\ Len(featureBuf') = n + 1
        /\ \A i \in 1 .. n : featureBuf'[i] = featureBuf[i]
        /\ featureBuf'[n + 1].ids = ids'
    BY <1>3, <1>6, <2>1, AppendProperties
  <2>3. ToCome' = [k \in 1 .. a + (n + 1) + 1 |->
                     IF k = a THEN taken.ids
                     ELSE IF k <= a + (n + 1) THEN featureBuf'[k - a].ids ELSE ids']
    BY <1>1, <1>3, <2>2 DEF ToCome
  <2>4. Buffered' = Buffered + 1 /\ Buffered = a + n
    BY <1>1, <1>2, <1>3, <2>2 DEF Buffered
  <2>5. ASSUME NEW k \in 1 .. a + n PROVE ToCome'[k] = ToCome[k]
    <3>1. CASE k = a
      BY <1>4, <2>3, <3>1
    <3>2. CASE k # a
      <4>1. k - a \in 1 .. n /\ k <= a + n /\ k <= a + (n + 1)
        BY <3>2
      <4> QED
        BY <1>4, <2>2, <2>3, <3>2, <4>1
    <3> QED
      BY <3>1, <3>2
  <2>6. ToCome'[a + n + 1] = ids'
    <3>1. /\ a + n + 1 \in 1 .. a + (n + 1) + 1 /\ a + n + 1 # a /\ a + n + 1 <= a + (n + 1)
          /\ (a + n + 1) - a = n + 1
      OBVIOUS
    <3> QED
      BY <2>2, <2>3, <3>1
  <2>7. ToCome'[a + n + 2] = ids'
    <3>1. /\ a + n + 2 \in 1 .. a + (n + 1) + 1 /\ a + n + 2 # a /\ ~(a + n + 2 <= a + (n + 1))
      OBVIOUS
    <3> QED
      BY <2>3, <3>1
  <2>8. \A k \in Buffered + 1 .. Buffered' + 1 : k = a + n + 1 \/ k = a + n + 2
    BY <2>4
  <2> QED
    BY <1>1, <2>4, <2>5, <2>6, <2>7, <2>8
<1> QED
  BY <1>5, <1>6 DEF InputImage

LEMMA InputFeatures ==
  ASSUME TypeOK, TypeOK', FeatureInv, InputImage
  PROVE  FeatureInv'
<1>1. PICK kept \in SUBSET ids, new \in 0 .. MAX_CNT :
        ids' = kept \cup (n_id .. n_id + new - 1) /\ n_id' = n_id + new
  BY DEF InputImage
<1>2. n_id \in Nat /\ new \in Nat /\ Buffered \in Nat /\ Buffered' \in Nat
  <2>1. n_id \in Nat /\ new \in Nat
    BY SizeAssumption DEF TypeOK
  <2>2. Buffered \in Nat
    BY ToComeParts
  <2>3. Buffered' = Buffered \/ Buffered' = Buffered + 1
    BY InputToCome
  <2> QED
    BY <2>1, <2>2, <2>3
<1>3. Known \subseteq Known' /\ ids' \subseteq Known' /\ ids' \subseteq ids \cup (Known' \ Known)
  <2>1. Known = 0 .. n_id - 1 /\ Known' = 0 .. n_id + new - 1 /\ ids \subseteq 0 .. n_id - 1
    BY <1>1 DEF Known, TypeOK
  <2>2. 0 .. n_id - 1 \subseteq 0 .. n_id + new - 1
    BY <1>2
  <2>3. n_id .. n_id + new - 1 \subseteq (0 .. n_id + new - 1) \ (0 .. n_id - 1)
    BY <1>2
  <2> QED
    BY <1>1, <2>1, <2>2, <2>3
<1>4. /\ DOMAIN ToCome = 1 .. Buffered + 1 /\ ToCome[Buffered + 1] = ids
  BY ToComeParts
<1>5. DOMAIN ToCome' = 1 .. Buffered' + 1
  BY DEF ToCome, Buffered
<1>6. feature' = feature /\ Headers' = Headers /\ frame_count' = frame_count
  BY DEF InputImage, window, flags
<1>7. \A k \in DOMAIN ToCome' : \/ k \in 1 .. Buffered /\ k \in DOMAIN ToCome /\ ToCome'[k] = ToCome[k]
                                \/ k \in Buffered + 1 .. Buffered' + 1 /\ ToCome'[k] = ids'
  <2>1. Buffered' \in {Buffered, Buffered + 1}
    BY InputToCome
  <2>2. ASSUME NEW k \in 1 .. Buffered' + 1
        PROVE  (k \in 1 .. Buffered /\ k \in 1 .. Buffered + 1) \/ k \in Buffered + 1 .. Buffered' + 1
    <3>1. PICK b \in Nat, c \in Nat : b = Buffered /\ c = Buffered'
      BY <1>2
    <3>2. k \in 1 .. c + 1 => (k \in 1 .. b /\ k \in 1 .. b + 1) \/ k \in b + 1 .. c + 1
      OBVIOUS
    <3> QED
      BY <3>1, <3>2
  <2> QED
    BY <1>4, <1>5, <2>2, InputToCome
<1>8. NamesKnown'
  BY <1>3, <1>6, <1>7 DEF FeatureInv, NamesKnown
<1>9. \A k \in DOMAIN ToCome' : ToCome'[k] \cap Known \subseteq
                                 ToCome[IF k \in 1 .. Buffered THEN k ELSE Buffered + 1]
  <2>1. ASSUME NEW k \in Buffered + 1 .. Buffered' + 1 PROVE k \notin 1 .. Buffered
    BY <1>2
  <2> QED
    BY <1>3, <1>4, <1>7, <2>1
<1>10. Steady'
  <2> SUFFICES ASSUME NEW k \in DOMAIN ToCome', NEW l \in DOMAIN ToCome', k < l,
                      NEW id \in ToCome'[l] \ ToCome'[k]
               PROVE  /\ id \notin DOMAIN feature
                      /\ \A j \in DOMAIN ToCome' : j < k => id \notin ToCome'[j]
    BY <1>6 DEF Steady
  <2>1. k \in 1 .. Buffered /\ k \in DOMAIN ToCome /\ ToCome'[k] = ToCome[k]
    <3>1. CASE k \in Buffered + 1 .. Buffered' + 1 /\ ToCome'[k] = ids'
      <4>1. ~(l \in 1 .. Buffered)
        BY <1>2, <3>1
      <4> QED
        BY <1>7, <3>1, <4>1
    <3> QED
      BY <1>7, <3>1
  <2>2. ASSUME NEW j \in DOMAIN ToCome', j < k
        PROVE  j \in 1 .. Buffered /\ j \in DOMAIN ToCome /\ ToCome'[j] = ToCome[j]
    <3>1. ~(j \in Buffered + 1 .. Buffered' + 1)
      BY <1>2, <2>1, <2>2
    <3> QED
      BY <1>7, <3>1
  <2>3. CASE id \in Known
    <3>1. PICK m \in DOMAIN ToCome : k < m /\ id \in ToCome[m]
      <4>1. CASE l \in 1 .. Buffered
        <5>1. l \in DOMAIN ToCome
          BY <1>2, <1>4, <4>1
        <5>2. ToCome'[l] \cap Known \subseteq ToCome[l]
          BY <1>9, <4>1
        <5> QED
          BY <2>3, <5>1, <5>2
      <4>2. CASE l \notin 1 .. Buffered
        <5>1. k < Buffered + 1 /\ Buffered + 1 \in DOMAIN ToCome
          BY <1>2, <1>4, <2>1
        <5> QED
          BY <1>9, <2>3, <4>2, <5>1
      <4> QED
        BY <4>1, <4>2
    <3>2. /\ id \notin DOMAIN feature
          /\ \A j \in DOMAIN ToCome : j < k => id \notin ToCome[j]
      BY <2>1, <3>1 DEF FeatureInv, Steady
    <3> QED
      BY <2>2, <3>2
  <2>4. CASE id \notin Known
    BY <2>2, <2>4 DEF FeatureInv, NamesKnown
  <2> QED
    BY <2>3, <2>4
<1>11. stage' = stage \/ (stage' = "call" /\ stage = "idle")
  BY DEF InputImage
<1>12. Newest' = Newest
  BY <1>6, <1>11 DEF Newest, InHand, Locked
<1>13. LostForGood'
  <2> SUFFICES ASSUME NEW id \in DOMAIN feature, endFrame(feature[id]) < Newest, NEW k \in DOMAIN ToCome'
               PROVE  id \notin ToCome'[k]
    BY <1>6, <1>12 DEF LostForGood, endFrame
  <2>1. id \in Known /\ \A m \in DOMAIN ToCome : id \notin ToCome[m]
    BY DEF FeatureInv, NamesKnown, LostForGood
  <2>2. (IF k \in 1 .. Buffered THEN k ELSE Buffered + 1) \in DOMAIN ToCome
    BY <1>2, <1>4
  <2> QED
    BY <1>9, <2>1, <2>2
<1>14. ObservationsAligned'
  BY <1>6, <1>12 DEF ObservationsAligned, FeatureInv, endFrame
<1>15. FullWindow' /\ HeaderOfTaken'
  BY <1>6, <1>11 DEF FeatureInv, FullWindow, HeaderOfTaken, InputImage, flags, InHand, Locked
<1> QED
  BY <1>8, <1>10, <1>13, <1>14, <1>15 DEF FeatureInv

(* The frame that is taken becomes the newest of the window.               *)
LEMMA AddToCome ==
  ASSUME TypeOK, AddFeatures
  PROVE  /\ Buffered \in Nat \ {0} /\ DOMAIN ToCome = 1 .. Buffered + 1 /\ ToCome[1] = taken.ids
         /\ DOMAIN ToCome' = 1 .. Buffered
         /\ \A k \in 1 .. Buffered : k + 1 \in DOMAIN ToCome /\ ToCome'[k] = ToCome[k + 1]
<1>1. Ahead = 1 /\ Ahead' = 0 /\ featureBuf' = featureBuf /\ ids' = ids
  BY DEF AddFeatures, Ahead, InHand, input, tracker
<1>2. PICK n \in Nat : n = Len(featureBuf)
  BY ToComeParts
<1>3. Buffered = n + 1
  BY <1>1, <1>2 DEF Buffered
<1>4. ToCome = [k \in 1 .. 1 + n + 1 |->
                  IF k = 1 THEN taken.ids ELSE IF k <= 1 + n THEN featureBuf[k - 1].ids ELSE ids]
  BY <1>1, <1>2 DEF ToCome
<1>5. ToCome' = [k \in 1 .. 0 + n + 1 |->
                   IF k = 0 THEN taken'.ids ELSE IF k <= 0 + n THEN featureBuf[k - 0].ids ELSE ids]
  BY <1>1, <1>2 DEF ToCome
<1>6. ASSUME NEW k \in 1 .. n + 1
      PROVE  k + 1 \in 1 .. 1 + n + 1 /\ ToCome'[k] = ToCome[k + 1]
  <2>1. /\ k + 1 \in 1 .. 1 + n + 1 /\ k \in 1 .. 0 + n + 1 /\ k # 0 /\ k + 1 # 1
        /\ (k + 1) - 1 = k /\ k - 0 = k /\ (k + 1 <= 1 + n <=> k <= 0 + n)
    OBVIOUS
  <2> QED
    BY <1>4, <1>5, <2>1
<1>7. 1 + n + 1 = Buffered + 1 /\ 0 + n + 1 = Buffered /\ n + 1 = Buffered /\ Buffered \in Nat \ {0}
      /\ 1 \in 1 .. 1 + n + 1
  BY <1>2, <1>3
<1> QED
  BY <1>4, <1>5, <1>6, <1>7

LEMMA AddInv ==
  ASSUME TypeOK, TypeOK', FeatureInv, AddFeatures
  PROVE  FeatureInv'
<1>1. /\ stage = "integrated" /\ stage' = "added" /\ frame_count' = frame_count /\ n_id' = n_id
      /\ taken' = taken /\ feature' = Added(taken) /\ solver_flag' = solver_flag
      /\ Headers' = [Headers EXCEPT ![frame_count] = taken.t]
  BY DEF AddFeatures, tracker
<1>2. frame_count \in Index /\ frame_count \in Nat /\ Headers \in [Index -> Frames]
      /\ \A id \in DOMAIN feature : feature[id] \in Feature
  BY SizeAssumption DEF TypeOK, Index
<1>3. Newest = frame_count - 1 /\ Newest' = frame_count
  BY <1>1 DEF Newest, InHand, Locked
<1>4. /\ DOMAIN feature' = DOMAIN feature \cup taken.ids
      /\ \A id \in taken.ids \ DOMAIN feature :
           feature'[id] = [start_frame |-> frame_count, feature_per_frame |-> <<taken.t>>, solve_flag |-> 0]
      /\ \A id \in taken.ids \cap DOMAIN feature :
           feature'[id] = [feature[id] EXCEPT !.feature_per_frame = Append(feature[id].feature_per_frame, taken.t)]
      /\ \A id \in DOMAIN feature \ taken.ids : feature'[id] = feature[id]
      /\ \A id \in DOMAIN feature' : feature'[id] \in Feature
  BY <1>1, AddedFeatures
<1>5. /\ 1 \in DOMAIN ToCome /\ ToCome[1] = taken.ids
      /\ \A k \in DOMAIN ToCome' : k + 1 \in DOMAIN ToCome /\ ToCome'[k] = ToCome[k + 1] /\ k \in Nat \ {0}
  BY AddToCome
<1>6. NamesKnown'
  BY <1>1, <1>4, <1>5 DEF NamesKnown, Known, FeatureInv
<1>7. Steady'
  <2> SUFFICES ASSUME NEW k \in DOMAIN ToCome', NEW l \in DOMAIN ToCome', k < l,
                      NEW id \in ToCome'[l] \ ToCome'[k]
               PROVE  /\ id \notin DOMAIN feature'
                      /\ \A j \in DOMAIN ToCome' : j < k => id \notin ToCome'[j]
    BY DEF Steady
  <2>1. k + 1 \in DOMAIN ToCome /\ l + 1 \in DOMAIN ToCome /\ k + 1 < l + 1 /\ 1 < k + 1
        /\ id \in ToCome[l + 1] \ ToCome[k + 1]
    BY <1>5
  <2>2. id \notin DOMAIN feature /\ \A j \in DOMAIN ToCome : j < k + 1 => id \notin ToCome[j]
    BY <2>1 DEF FeatureInv, Steady
  <2>3. id \notin taken.ids
    BY <1>5, <2>1, <2>2
  <2>4. \A j \in DOMAIN ToCome' : j < k => id \notin ToCome'[j]
    <3> SUFFICES ASSUME NEW j \in DOMAIN ToCome', j < k PROVE id \notin ToCome'[j]
      OBVIOUS
    <3>1. j + 1 \in DOMAIN ToCome /\ j + 1 < k + 1 /\ ToCome'[j] = ToCome[j + 1]
      BY <1>5
    <3> QED
      BY <2>2, <3>1
  <2> QED
    BY <1>4, <2>2, <2>3, <2>4
<1>8. ASSUME NEW id \in taken.ids \ DOMAIN feature
      PROVE  endFrame(feature'[id]) = frame_count /\ AlignedIn(feature'[id], Headers', frame_count)
  <2>0. PICK list : list = <<taken.t>>
    OBVIOUS
  <2>1. Len(list) = 1 /\ list[1] = taken.t
    BY <2>0
  <2>2. feature'[id].start_frame = frame_count /\ feature'[id].feature_per_frame = list
    BY <1>4, <2>0
  <2>3. endFrame(feature'[id]) = frame_count
    <3>1. endFrame(feature'[id]) = frame_count + 1 - 1
      BY <2>1, <2>2 DEF endFrame
    <3>2. frame_count + 1 - 1 = frame_count
      BY <1>2
    <3> QED
      BY <3>1, <3>2
  <2>4. \A k \in 1 .. 1 : list[k] = Headers'[frame_count + k - 1]
    <3>1. \A k \in 1 .. 1 : k = 1 /\ frame_count + k - 1 = frame_count
      BY <1>2
    <3>2. Headers'[frame_count] = taken.t
      BY <1>1, <1>2
    <3> QED
      BY <2>1, <3>1, <3>2
  <2>5. PICK f : f = feature'[id]
    OBVIOUS
  <2>6. endFrame(f) = frame_count /\ f.start_frame = frame_count /\ f.feature_per_frame = list
    BY <2>2, <2>3, <2>5
  <2>7. AlignedIn(f, Headers', frame_count)
    <3>1. Len(f.feature_per_frame) = 1 /\ 1 >= 1 /\ frame_count <= frame_count
      BY <1>2, <2>1, <2>6
    <3>2. \A k \in 1 .. Len(f.feature_per_frame) :
            f.feature_per_frame[k] = Headers'[f.start_frame + k - 1]
      BY <2>4, <2>6, <3>1
    <3> QED
      BY <2>6, <3>1, <3>2 DEF AlignedIn
  <2> QED
    BY <2>3, <2>5, <2>7
<1>9. ASSUME NEW id \in DOMAIN feature
      PROVE  AlignedIn(feature[id], Headers', frame_count - 1)
  <2>1. AlignedIn(feature[id], Headers, frame_count - 1)
    BY <1>2, <1>3, AlignedMeans DEF FeatureInv
  <2>2. PICK a \in Nat, n \in Nat : a = feature[id].start_frame /\ n = Len(feature[id].feature_per_frame)
                                    /\ endFrame(feature[id]) = a + n - 1
    BY <1>2, FeatureParts DEF endFrame
  <2>3. \A k \in 1 .. n : Headers'[a + k - 1] = Headers[a + k - 1]
    <3>1. a + n - 1 <= frame_count - 1
      BY <2>1, <2>2 DEF AlignedIn
    <3>2. ASSUME NEW k \in 1 .. n PROVE a + k - 1 \in Index /\ a + k - 1 # frame_count
      BY <1>2, <2>2, <3>1, SizeAssumption DEF Index
    <3> QED
      BY <1>1, <1>2, <3>2
  <2> QED
    BY <2>1, <2>2, <2>3 DEF AlignedIn
<1>10. ASSUME NEW id \in taken.ids \cap DOMAIN feature
       PROVE  endFrame(feature'[id]) = frame_count /\ AlignedIn(feature'[id], Headers', frame_count)
  <2>1. PICK f : f = feature[id] /\ f \in Feature
    BY <1>2
  <2>2. PICK a \in Nat, n \in Nat : /\ a = f.start_frame /\ n = Len(f.feature_per_frame)
                                    /\ f.feature_per_frame \in Seq(Frames)
    BY <2>1, FeatureParts
  <2>3. n >= 1 /\ a + n - 1 <= frame_count - 1
        /\ \A k \in 1 .. n : f.feature_per_frame[k] = Headers'[a + k - 1]
    BY <1>9, <2>1, <2>2 DEF AlignedIn, endFrame
  <2>4. ~(a + n - 1 < frame_count - 1)
    <3>1. endFrame(feature[id]) = a + n - 1
      BY <2>1, <2>2 DEF endFrame
    <3> QED
      BY <1>3, <1>5, <3>1 DEF FeatureInv, LostForGood
  <2>5. a + n = frame_count
    <3>1. a \in Nat /\ n \in Nat /\ frame_count \in Nat /\ a + n - 1 <= frame_count - 1
      BY <1>2, <2>3
    <3> QED
      BY <2>4, <3>1
  <2>6. PICK s : s = Append(f.feature_per_frame, taken.t)
    OBVIOUS
  <2>7. s \in Seq(Frames) /\ Len(s) = n + 1 /\ s[n + 1] = taken.t
        /\ \A k \in 1 .. n : s[k] = f.feature_per_frame[k]
    BY <2>2, <2>6, AppendProperties DEF TypeOK
  <2>8. feature'[id] = [f EXCEPT !.feature_per_frame = s]
    BY <1>4, <2>1, <2>6
  <2>9. feature'[id].start_frame = a /\ feature'[id].feature_per_frame = s
    BY <2>1, <2>2, <2>7, <2>8, WithList
  <2>10. endFrame(feature'[id]) = frame_count
    BY <2>2, <2>5, <2>7, <2>9 DEF endFrame
  <2>11. ASSUME NEW k \in 1 .. n + 1 PROVE s[k] = Headers'[a + k - 1]
    <3>1. CASE k \in 1 .. n
      BY <2>3, <2>7, <3>1
    <3>2. CASE k \notin 1 .. n
      <4>1. k = n + 1 /\ a + k - 1 = frame_count
        BY <2>2, <2>5, <3>2
      <4>2. Headers'[frame_count] = taken.t
        BY <1>1, <1>2
      <4> QED
        BY <2>7, <4>1, <4>2
    <3> QED
      BY <3>1, <3>2
  <2> QED
    BY <1>2, <2>2, <2>7, <2>9, <2>10, <2>11 DEF AlignedIn
<1>11. ASSUME NEW id \in DOMAIN feature \ taken.ids
       PROVE  AlignedIn(feature'[id], Headers', frame_count)
  <2>1. endFrame(feature[id]) \in Int
    BY <1>2, FeatureParts
  <2>2. endFrame(feature[id]) <= frame_count - 1
    BY <1>9 DEF AlignedIn
  <2>3. endFrame(feature[id]) <= frame_count
    BY <1>2, <2>1, <2>2
  <2> QED
    BY <1>4, <1>9, <2>3 DEF AlignedIn
<1>12. \A id \in DOMAIN feature' : AlignedIn(feature'[id], Headers', Newest')
  BY <1>3, <1>4, <1>8, <1>10, <1>11
<1>13. ObservationsAligned'
  <2>1. ASSUME NEW id \in DOMAIN feature'
        PROVE  DOMAIN feature'[id].feature_per_frame = 1 .. Len(feature'[id].feature_per_frame)
    BY <1>4, FeatureParts
  <2> QED
    BY <1>12, <2>1 DEF ObservationsAligned, AlignedIn
<1>14. LostForGood'
  <2> SUFFICES ASSUME NEW id \in DOMAIN feature', endFrame(feature'[id]) < frame_count, NEW k \in DOMAIN ToCome'
               PROVE  id \notin ToCome'[k]
    BY <1>3 DEF LostForGood, endFrame
  <2>1. id \in DOMAIN feature /\ id \notin taken.ids
    BY <1>2, <1>4, <1>8, <1>10
  <2>2. k + 1 \in DOMAIN ToCome /\ 1 < k + 1 /\ ToCome'[k] = ToCome[k + 1]
    BY <1>5
  <2>3. id \notin ToCome[k + 1] \ ToCome[1]
    BY <1>5, <2>1, <2>2 DEF FeatureInv, Steady
  <2> QED
    BY <1>5, <2>1, <2>2, <2>3
<1>15. FullWindow' /\ HeaderOfTaken'
  <2>1. Headers'[frame_count] = taken.t
    BY <1>1, <1>2
  <2> QED
    BY <1>1, <2>1 DEF FeatureInv, FullWindow, HeaderOfTaken
<1> QED
  BY <1>6, <1>7, <1>13, <1>14, <1>15 DEF FeatureInv

(* Taking a frame out, and what the IMU and the optimization do, leave the *)
(* places and the names of the features; only outliers leave the list.     *)
LEMMA TakeFeatures ==
  ASSUME TypeOK, TypeOK', FeatureInv, CopyFrame
  PROVE  FeatureInv'
<1>1. NamesShrink
  BY TakenToCome DEF NamesShrink
<1>2. /\ feature' = feature /\ Headers' = Headers /\ n_id' = n_id
      /\ frame_count' = frame_count /\ solver_flag' = solver_flag
      /\ stage' = "copied" /\ stage \in {"idle", "call"}
  BY DEF CopyFrame, tracker, flags, window
<1>3. Newest' = Newest
  BY <1>2 DEF Newest, InHand, Locked
<1>4. (NamesKnown /\ Steady /\ LostForGood /\ ObservationsAligned)'
  BY <1>1, <1>2, <1>3, FeaturesKept
<1>5. FullWindow' /\ HeaderOfTaken'
  BY <1>2 DEF FeatureInv, FullWindow, HeaderOfTaken, InHand, Locked
<1> QED
  BY <1>4, <1>5 DEF FeatureInv

LEMMA IMUFeatures ==
  ASSUME TypeOK, TypeOK', FeatureInv, NoFrameYet \/ ProcessIMU \/ ChangeSensorType
  PROVE  FeatureInv'
<1>1. /\ feature' = feature /\ Headers' = Headers /\ n_id' = n_id /\ ids' = ids
      /\ featureBuf' = featureBuf /\ taken' = taken
      /\ frame_count' = frame_count /\ solver_flag' = solver_flag
  BY DEF NoFrameYet, ProcessIMU, ChangeSensorType, tracker, input, thread, flags, window
<1>2. \/ stage' = stage
      \/ stage = "call" /\ stage' = "idle"
      \/ stage = "taken" /\ stage' = "integrated"
  BY DEF NoFrameYet, ProcessIMU, ChangeSensorType, thread
<1>3. Ahead' = Ahead /\ Newest' = Newest
  BY <1>1, <1>2 DEF Ahead, Newest, InHand, Locked
<1>4. NamesShrink
  BY <1>1, <1>3, ShrunkToCome
<1>5. (NamesKnown /\ Steady /\ LostForGood /\ ObservationsAligned)'
  BY <1>1, <1>3, <1>4, FeaturesKept
<1>6. FullWindow' /\ HeaderOfTaken'
  BY <1>1, <1>2 DEF FeatureInv, FullWindow, HeaderOfTaken, InHand, Locked
<1> QED
  BY <1>5, <1>6 DEF FeatureInv

LEMMA SolveFeatures ==
  ASSUME TypeOK, TypeOK', FeatureInv, Grow \/ NotInitialized \/ Initialize \/ Optimize
  PROVE  FeatureInv'
<1>1. /\ Headers' = Headers /\ n_id' = n_id /\ ids' \subseteq ids /\ featureBuf' = featureBuf
      /\ stage = "added"
  BY DEF Grow, NotInitialized, Initialize, Optimize, tracker, input, window
<1>2. /\ DOMAIN feature' \subseteq DOMAIN feature
      /\ \A id \in DOMAIN feature' : /\ feature'[id].start_frame = feature[id].start_frame
                                     /\ feature'[id].feature_per_frame = feature[id].feature_per_frame
  <2>1. \/ feature' = feature
        \/ \E bad, removeIndex \in SUBSET Used : feature' = Solved(bad)
             \/ feature' = [id \in DOMAIN feature \ removeIndex |-> Solved(bad)[id]]
    BY DEF Grow, NotInitialized, Initialize, Optimize, window
  <2>2. ASSUME NEW bad \in SUBSET Used
        PROVE  /\ DOMAIN Solved(bad) = DOMAIN feature
               /\ \A id \in DOMAIN feature :
                    /\ Solved(bad)[id].start_frame = feature[id].start_frame
                    /\ Solved(bad)[id].feature_per_frame = feature[id].feature_per_frame
    BY SolvedFeatures
  <2>3. CASE feature' = feature
    BY <2>3
  <2>4. ASSUME NEW bad \in SUBSET Used, NEW removeIndex \in SUBSET Used,
               feature' = Solved(bad)
                 \/ feature' = [id \in DOMAIN feature \ removeIndex |-> Solved(bad)[id]]
        PROVE  /\ DOMAIN feature' \subseteq DOMAIN feature
               /\ \A id \in DOMAIN feature' :
                    /\ feature'[id].start_frame = feature[id].start_frame
                    /\ feature'[id].feature_per_frame = feature[id].feature_per_frame
    BY <2>2, <2>4
  <2> QED
    BY <2>1, <2>3, <2>4
<1>3. \/ /\ stage' = "idle" /\ frame_count' = frame_count + 1 /\ solver_flag' = solver_flag
         /\ frame_count < WINDOW_SIZE
      \/ /\ stage' \in {"slide", "clean"} /\ frame_count' = frame_count /\ taken' = taken
         /\ frame_count = WINDOW_SIZE
  BY DEF Grow, NotInitialized, Initialize, Optimize, flags, FeatureInv, FullWindow
<1>4. Ahead = 0 /\ Ahead' = 0
  BY <1>1, <1>3 DEF Ahead, InHand
<1>5. frame_count \in Nat /\ WINDOW_SIZE \in Nat
  BY SizeAssumption DEF TypeOK, Index
<1>6. Newest' = Newest
  <2>1. Newest = frame_count
    BY <1>1 DEF Newest, InHand, Locked
  <2>2. CASE stage' = "idle"
    <3>1. Newest' = (frame_count + 1) - 1
      BY <1>3, <2>2 DEF Newest, InHand, Locked
    <3>2. (frame_count + 1) - 1 = frame_count
      BY <1>5
    <3> QED
      BY <2>1, <3>1, <3>2
  <2>3. CASE stage' \in {"slide", "clean"}
    BY <1>3, <2>1, <2>3 DEF Newest, InHand, Locked
  <2> QED
    BY <1>3, <2>2, <2>3
<1>7. NamesShrink
  BY <1>1, <1>4, ShrunkToCome
<1>8. (NamesKnown /\ Steady /\ LostForGood /\ ObservationsAligned)'
  BY <1>1, <1>2, <1>6, <1>7, FeaturesKept
<1>9. FullWindow' /\ HeaderOfTaken'
  <2>1. CASE stage' = "idle"
    <3>1. solver_flag' = solver_flag /\ solver_flag # "NON_LINEAR"
      BY <1>3, <1>5, <2>1 DEF FeatureInv, FullWindow
    <3> QED
      BY <2>1, <3>1 DEF FullWindow, HeaderOfTaken, InHand, Locked
  <2>2. CASE stage' \in {"slide", "clean"}
    BY <1>1, <1>3, <2>2 DEF FeatureInv, FullWindow, HeaderOfTaken, InHand, Locked
  <2> QED
    BY <1>3, <2>1, <2>2
<1> QED
  BY <1>8, <1>9 DEF FeatureInv

(* A slide: the newest frame is now at the index before.                   *)
LEMMA SlideFeatures ==
  ASSUME TypeOK, TypeOK', FeatureInv, SlideOld \/ SlideNew
  PROVE  FeatureInv'
<1>1. /\ stage \in {"slide", "clean"} /\ stage' = "idle" /\ frame_count' = frame_count
      /\ solver_flag' = solver_flag /\ n_id' = n_id /\ ids' = ids /\ featureBuf' = featureBuf
  BY DEF SlideOld, SlideNew, FrameDone, tracker, input, flags
<1>2. /\ frame_count = WINDOW_SIZE /\ Newest = WINDOW_SIZE /\ WINDOW_SIZE \in Nat
  BY <1>1, SlideFacts
<1>3. Newest' = WINDOW_SIZE - 1 /\ Ahead = 0 /\ Ahead' = 0
  BY <1>1, <1>2 DEF Newest, Ahead, InHand, Locked
<1>4. NamesShrink
  BY <1>1, <1>3, ShrunkToCome
<1>5. /\ DOMAIN feature' \subseteq DOMAIN feature
      /\ \A id \in DOMAIN feature' :
           /\ feature'[id] \in Feature /\ AlignedIn(feature'[id], Headers', WINDOW_SIZE - 1)
           /\ endFrame(feature'[id]) < WINDOW_SIZE - 1 => endFrame(feature[id]) < WINDOW_SIZE
  <2>1. CASE SlideOld
    <3>1. /\ DOMAIN feature' \subseteq DOMAIN feature
          /\ \A id \in DOMAIN feature' :
               /\ feature'[id] \in Feature /\ AlignedIn(feature'[id], Headers', WINDOW_SIZE - 1)
               /\ endFrame(feature'[id]) = endFrame(feature[id]) - 1
      BY <2>1, FeaturesSlideOld
    <3>2. ASSUME NEW id \in DOMAIN feature', endFrame(feature'[id]) < WINDOW_SIZE - 1
          PROVE  endFrame(feature[id]) < WINDOW_SIZE
      <4>1. endFrame(feature[id]) \in Int
        BY <3>1, FeatureParts DEF TypeOK
      <4>2. endFrame(feature[id]) - 1 < WINDOW_SIZE - 1
        BY <3>1, <3>2
      <4> QED
        BY <1>2, <4>1, <4>2
    <3> QED
      BY <3>1, <3>2
  <2>2. CASE SlideNew
    BY <2>2, FeaturesSlideNew
  <2> QED
    BY <2>1, <2>2
<1>6. NamesKnown' /\ Steady'
  BY <1>1, <1>4, <1>5, NamesShrunk DEF FeatureInv
<1>7. LostForGood'
  <2> SUFFICES ASSUME NEW id \in DOMAIN feature', endFrame(feature'[id]) < WINDOW_SIZE - 1,
                      NEW k \in DOMAIN ToCome'
               PROVE  id \notin ToCome'[k]
    BY <1>3 DEF LostForGood, endFrame
  <2>1. id \in DOMAIN feature /\ endFrame(feature[id]) < Newest
    BY <1>2, <1>5
  <2>2. k \in DOMAIN ToCome /\ ToCome'[k] \subseteq ToCome[k]
    BY <1>4 DEF NamesShrink
  <2> QED
    BY <2>1, <2>2 DEF FeatureInv, LostForGood
<1>8. ObservationsAligned'
  <2>1. ASSUME NEW id \in DOMAIN feature'
        PROVE  DOMAIN feature'[id].feature_per_frame = 1 .. Len(feature'[id].feature_per_frame)
    BY <1>5, FeatureParts
  <2> QED
    BY <1>3, <1>5, <2>1 DEF ObservationsAligned, AlignedIn
<1>9. FullWindow' /\ HeaderOfTaken'
  BY <1>1, <1>2 DEF FullWindow, HeaderOfTaken, InHand, Locked
<1> QED
  BY <1>6, <1>7, <1>8, <1>9 DEF FeatureInv

(* A restart: no feature is left, and the frames that waited are gone.     *)
LEMMA ClearFeatures ==
  ASSUME TypeOK, TypeOK', FeatureInv, ClearState
  PROVE  FeatureInv'
<1>1. /\ stage \notin Locked /\ stage' = stage /\ taken' = taken /\ ids' = ids /\ featureBuf' = <<>>
      /\ n_id' = n_id /\ feature' = <<>> /\ solver_flag' = "INITIAL"
  BY DEF ClearState, NextName
<1>2. DOMAIN feature' = {}
  BY <1>1
<1>3. Ahead' = Ahead /\ Ahead \in {0, 1}
  BY <1>1 DEF Ahead, InHand
<1>4. PICK a \in {0, 1} : a = Ahead
  BY <1>3
<1>5. ToCome' = [k \in 1 .. a + 1 |-> IF k = a THEN taken.ids ELSE ids]
  <2>1. Len(featureBuf') = 0
    BY <1>1, EmptySeq
  <2>2. ToCome' = [k \in 1 .. a + 0 + 1 |->
                     IF k = a THEN taken.ids ELSE IF k <= a + 0 THEN featureBuf'[k - a].ids ELSE ids]
    BY <1>1, <1>3, <1>4, <2>1 DEF ToCome
  <2>3. a + 0 + 1 = a + 1
    OBVIOUS
  <2>4. ASSUME NEW k \in 1 .. a + 1, k # a PROVE ~(k <= a + 0)
    BY <2>4
  <2> QED
    BY <2>2, <2>3, <2>4
<1>6. DOMAIN ToCome' = 1 .. a + 1 /\ \A k \in 1 .. a + 1 : ToCome'[k] = IF k = a THEN taken.ids ELSE ids
  BY <1>5
<1>7. /\ \A m \in DOMAIN ToCome : ToCome[m] \subseteq Known
      /\ 1 \in DOMAIN ToCome /\ Buffered + 1 \in DOMAIN ToCome /\ ToCome[Buffered + 1] = ids
      /\ Ahead = 1 => ToCome[1] = taken.ids
  BY ToComeParts DEF FeatureInv, NamesKnown
<1>8. NamesKnown'
  <2>1. ids \subseteq Known /\ (a = 1 => taken.ids \subseteq Known)
    BY <1>4, <1>7
  <2>2. ASSUME NEW k \in 1 .. a + 1 PROVE ToCome'[k] \subseteq Known
    BY <1>6, <2>1
  <2>3. Known' = Known
    BY <1>1 DEF Known
  <2> QED
    BY <1>2, <1>6, <2>2, <2>3 DEF NamesKnown
<1>9. Steady'
  <2>1. \A k, j \in 1 .. a + 1 : \A l \in 1 .. a + 1 : k < l => ~(j < k)
    OBVIOUS
  <2> QED
    BY <1>2, <1>6, <2>1 DEF Steady
<1>10. LostForGood' /\ ObservationsAligned'
  BY <1>2 DEF LostForGood, ObservationsAligned
<1>11. FullWindow' /\ HeaderOfTaken'
  BY <1>1 DEF FullWindow, HeaderOfTaken, InHand, Locked
<1> QED
  BY <1>8, <1>9, <1>10, <1>11 DEF FeatureInv

(* One of the frames that wait is dropped: of those to come the others     *)
(* move up, in their order.                                                *)
LEMMA DroppedToCome ==
  ASSUME TypeOK, TypeOK', PopFrame, featureBuf # <<>>, featureBuf' = Tail(featureBuf)
  PROVE  /\ Buffered \in Nat /\ Buffered >= 2 /\ DOMAIN ToCome = 1 .. Buffered + 1
         /\ DOMAIN ToCome' = 1 .. Buffered
         /\ \A k \in 1 .. Buffered : ToCome'[k] = ToCome[IF k = 1 THEN 1 ELSE k + 1]
<1>1. /\ Ahead = 1 /\ Ahead' = 1 /\ taken'.ids = taken.ids /\ ids' = ids
  <2>1. stage = "copied" /\ stage' = "taken"
    BY DEF PopFrame
  <2>2. taken'.ids = taken.ids
    BY DEF PopFrame, TypeOK
  <2> QED
    BY <2>1, <2>2 DEF Ahead, InHand, PopFrame, tracker
<1>2. featureBuf \in Seq(Frame)
  BY DEF TypeOK, Frame
<1>3. PICK n \in Nat : n = Len(featureBuf) /\ n >= 1
  <2>1. Len(featureBuf) \in Nat /\ Len(featureBuf) # 0
    BY <1>2, ToComeParts, EmptySeq
  <2> QED
    BY <2>1
<1>4. /\ Len(featureBuf') = n - 1
      /\ \A i \in 1 .. n - 1 : featureBuf'[i] = featureBuf[i + 1]
  BY <1>2, <1>3, HeadTailProperties
<1> DEFINE X(k) == IF k = 1 THEN taken.ids ELSE IF k <= 1 + n THEN featureBuf[k - 1].ids ELSE ids
           Y(k) == IF k = 1 THEN taken.ids ELSE IF k <= 1 + (n - 1) THEN featureBuf'[k - 1].ids ELSE ids
<1>5. ToCome = [k \in 1 .. 1 + n + 1 |-> X(k)]
  BY <1>1, <1>3 DEF ToCome
<1>6. ToCome' = [k \in 1 .. 1 + (n - 1) + 1 |-> Y(k)]
  BY <1>1, <1>4 DEF ToCome
<1>7. ASSUME NEW k \in 1 .. n + 1 PROVE Y(k) = X(IF k = 1 THEN 1 ELSE k + 1)
  <2>1. CASE k = 1
    BY <2>1
  <2>2. CASE k # 1 /\ k <= n
    <3>1. /\ k - 1 \in 1 .. n - 1 /\ (k - 1) + 1 = k /\ (k + 1) - 1 = k /\ k + 1 # 1
          /\ k + 1 <= 1 + n /\ k <= 1 + (n - 1)
      BY <1>3, <2>2
    <3>2. featureBuf'[k - 1] = featureBuf[k]
      BY <1>4, <3>1
    <3>3. Y(k) = featureBuf'[k - 1].ids /\ X(k + 1) = featureBuf[k].ids
      BY <2>2, <3>1
    <3> QED
      BY <2>2, <3>2, <3>3
  <2>3. CASE k # 1 /\ ~(k <= n)
    <3>1. ~(k + 1 <= 1 + n) /\ ~(k <= 1 + (n - 1)) /\ k + 1 # 1
      BY <1>3, <2>3
    <3> QED
      BY <2>3, <3>1
  <2> QED
    BY <2>1, <2>2, <2>3
<1>8. /\ Buffered = n + 1 /\ 1 + (n - 1) + 1 = n + 1 /\ 1 + n + 1 = Buffered + 1 /\ n + 1 >= 2
      /\ n + 1 \in Nat
  BY <1>1, <1>3 DEF Buffered
<1>9. ASSUME NEW k \in 1 .. n + 1 PROVE (IF k = 1 THEN 1 ELSE k + 1) \in 1 .. 1 + n + 1
  BY <1>3
<1> HIDE DEF X, Y
<1> QED
  BY <1>5, <1>6, <1>7, <1>8, <1>9

LEMMA PopFeatures ==
  ASSUME TypeOK, TypeOK', FeatureInv, PopFrame
  PROVE  FeatureInv'
<1>1. /\ feature' = feature /\ Headers' = Headers /\ n_id' = n_id /\ ids' = ids
      /\ frame_count' = frame_count /\ solver_flag' = solver_flag
      /\ stage = "copied" /\ stage' = "taken"
  BY DEF PopFrame, tracker, flags, window
<1>2. Newest' = Newest /\ Ahead' = Ahead /\ taken'.ids = taken.ids
  <2>1. taken'.ids = taken.ids
    BY DEF PopFrame, TypeOK
  <2> QED
    BY <1>1, <2>1 DEF Newest, Ahead, InHand, Locked
<1>3. FullWindow' /\ HeaderOfTaken'
  BY <1>1 DEF FeatureInv, FullWindow, HeaderOfTaken, InHand, Locked
<1>4. CASE featureBuf' = featureBuf
  <2>1. NamesShrink
    BY <1>1, <1>2, <1>4, ShrunkToCome
  <2>2. (NamesKnown /\ Steady /\ LostForGood /\ ObservationsAligned)'
    BY <1>1, <1>2, <2>1, FeaturesKept
  <2> QED
    BY <1>3, <2>2 DEF FeatureInv
<1>5. CASE featureBuf # <<>> /\ featureBuf' = Tail(featureBuf)
  <2> DEFINE Old(k) == IF k = 1 THEN 1 ELSE k + 1
  <2>1. PICK n \in Nat : /\ DOMAIN ToCome = 1 .. n + 1 /\ DOMAIN ToCome' = 1 .. n
                         /\ \A k \in 1 .. n : ToCome'[k] = ToCome[Old(k)]
    BY <1>5, DroppedToCome
  <2>2. \A k \in 1 .. n : Old(k) \in 1 .. n + 1
    OBVIOUS
  <2>3. \A k, l \in 1 .. n : k < l => Old(k) < Old(l)
    OBVIOUS
  <2> HIDE DEF Old
  <2>4. NamesKnown'
    BY <1>1, <2>1, <2>2 DEF FeatureInv, NamesKnown, Known
  <2>5. Steady'
    <3> SUFFICES ASSUME NEW k \in 1 .. n, NEW l \in 1 .. n, k < l, NEW id \in ToCome'[l] \ ToCome'[k]
                 PROVE  /\ id \notin DOMAIN feature
                        /\ \A j \in 1 .. n : j < k => id \notin ToCome'[j]
      BY <1>1, <2>1 DEF Steady
    <3>1. id \in ToCome[Old(l)] \ ToCome[Old(k)] /\ Old(k) < Old(l)
      BY <2>1, <2>3
    <3>2. /\ id \notin DOMAIN feature
          /\ \A j \in 1 .. n + 1 : j < Old(k) => id \notin ToCome[j]
      BY <2>1, <2>2, <3>1 DEF FeatureInv, Steady
    <3>3. ASSUME NEW j \in 1 .. n, j < k PROVE id \notin ToCome'[j]
      BY <2>1, <2>2, <2>3, <3>2, <3>3
    <3> QED
      BY <3>2, <3>3
  <2>6. LostForGood'
    BY <1>1, <1>2, <2>1, <2>2 DEF FeatureInv, LostForGood, endFrame
  <2>7. ObservationsAligned'
    BY <1>1, <1>2 DEF FeatureInv, ObservationsAligned, endFrame
  <2> QED
    BY <1>3, <2>4, <2>5, <2>6, <2>7 DEF FeatureInv
<1> QED
  BY <1>4, <1>5 DEF PopFrame

LEMMA FeatureStep ==
  ASSUME TypeOK, TypeOK', FeatureInv, [Next]_vars
  PROVE  FeatureInv'
<1>1. CASE UNCHANGED vars \/ Undefined
  <2>1. UNCHANGED <<n_id, ids, featureBuf, taken, stage, feature, Headers, frame_count, solver_flag>>
    BY <1>1 DEF vars, Undefined, tracker, input, thread, flags, window
  <2>2. ToCome' = ToCome /\ Newest' = Newest
    BY <2>1 DEF ToCome, Ahead, InHand, Newest
  <2>3. NamesKnown' /\ Steady' /\ LostForGood' /\ ObservationsAligned'
    BY <2>1, <2>2 DEF FeatureInv, NamesKnown, Known, Steady, LostForGood, ObservationsAligned, endFrame
  <2>4. FullWindow' /\ HeaderOfTaken'
    BY <2>1 DEF FeatureInv, FullWindow, HeaderOfTaken
  <2> QED
    BY <2>3, <2>4 DEF FeatureInv
<1>2. CASE Restart \/ ReuseImu
  <2>1. ClearState
    BY <1>2 DEF Restart, ReuseImu
  <2> QED
    BY <2>1, ClearFeatures
<1> QED
  BY <1>1, <1>2, InputFeatures, TakeFeatures, PopFeatures, IMUFeatures, AddInv, SolveFeatures,
     SlideFeatures DEF Next

-----------------------------------------------------------------------------
(* The images, action by action.                                           *)

Busy == stage \in InHand \cup Locked

LEMMA BufferFacts ==
  ASSUME TypeOK
  PROVE  /\ Len(featureBuf) \in Nat /\ DOMAIN featureBuf = 1 .. Len(featureBuf)
         /\ \A i \in 1 .. Len(featureBuf) : featureBuf[i].t \in Nat
         /\ pushed \in Nat /\ taken.t \in Nat /\ frame_count \in Nat
         /\ \A t \in all_image_frame : t \in Nat
         /\ \A i \in Index : Headers[i] \in Nat
<1>1. featureBuf \in Seq(Frame)
  BY DEF TypeOK, Frame
<1>2. Len(featureBuf) \in Nat /\ DOMAIN featureBuf = 1 .. Len(featureBuf)
  BY <1>1, LenProperties
<1>3. \A i \in 1 .. Len(featureBuf) : featureBuf[i] \in Frame
  BY <1>1, ElementOfSeq
<1>4. \A f \in Frame : f.t \in Nat
  BY SizeAssumption DEF Frame, Frames
<1>5. Frames \subseteq Nat /\ Index \subseteq Nat
  BY SizeAssumption DEF Frames, Index
<1>6. taken.t \in Frames
  BY DEF TypeOK
<1> QED
  BY <1>2, <1>3, <1>4, <1>5, <1>6 DEF TypeOK

(* Nothing the images speak of changes.                                    *)
LEMMA ImagesKept ==
  ASSUME ImagesInOrder, ImagesExact, Newest' = Newest,
         UNCHANGED <<Headers, all_image_frame, freed>>,
         stage' = "clean" => solver_flag' = "NON_LINEAR",
         STEREO' /\ solver_flag' = "INITIAL" /\ "cam" \notin Switches =>
           STEREO /\ solver_flag = "INITIAL" /\ stage' # "slide"
  PROVE  ImagesInOrder' /\ ImagesExact'
<1>1. ImagesInOrder'
  BY DEF ImagesInOrder
<1>2. ImagesExact'
  BY DEF ImagesExact
<1> QED
  BY <1>1, <1>2

LEMMA InputImages ==
  ASSUME TypeOK, TypeOK', ImagesInv, InputImage
  PROVE  ImagesInv'
<1>1. /\ stage' = stage \/ (stage = "idle" /\ stage' = "call")
      /\ taken' = taken /\ all_image_frame' = all_image_frame /\ freed' = freed /\ Headers' = Headers
      /\ frame_count' = frame_count /\ solver_flag' = solver_flag /\ STEREO' = STEREO
  BY DEF InputImage, flags, window, images, sensors
<1>2. Newest' = Newest
  BY <1>1 DEF Newest, InHand, Locked
<1>3. ImagesInOrder' /\ ImagesExact'
  BY <1>1, <1>2, ImagesKept DEF ImagesInv, ImagesExact
<1>4. FramesInOrder'
  <2>1. CASE featureBuf' = featureBuf /\ pushed' = pushed
    BY <1>1, <2>1 DEF ImagesInv, FramesInOrder, InHand, Locked
  <2>2. CASE /\ pushed' = pushed + 1
             /\ featureBuf' = Append(featureBuf, [t |-> pushed + 1, ids |-> ids'])
    <3>1. PICK n \in Nat, p \in Nat : n = Len(featureBuf) /\ p = pushed
      BY BufferFacts
    <3>2. PICK f : f = [t |-> p + 1, ids |-> ids']
      OBVIOUS
    <3>3. f.t = p + 1 /\ featureBuf' = Append(featureBuf, f)
      BY <2>2, <3>1, <3>2
    <3>4. featureBuf \in Seq(Frame) /\ f \in Frame
      <4>1. p + 1 \in Frames
        BY <3>1, SizeAssumption DEF InputImage, TypeOK, Frames
      <4>2. ids' \in SUBSET (0 .. MaxId)
        <5>1. PICK next : next = n_id'
          OBVIOUS
        <5>2. next \in 0 .. MaxId /\ ids' \subseteq 0 .. next - 1
          BY <5>1 DEF TypeOK
        <5>3. 0 .. next - 1 \subseteq 0 .. MaxId
          BY <5>2, SizeAssumption
        <5> QED
          BY <5>2, <5>3
      <4> QED
        BY <3>2, <4>1, <4>2 DEF TypeOK, Frame
    <3>5. Len(featureBuf') = n + 1 /\ featureBuf' \in Seq(Frame)
          /\ featureBuf'[n + 1] = f /\ \A i \in 1 .. n : featureBuf'[i] = featureBuf[i]
      BY <3>1, <3>3, <3>4, AppendProperties
    <3>6. DOMAIN featureBuf' = 1 .. n + 1 /\ DOMAIN featureBuf = 1 .. n
      BY <3>1, <3>5, BufferFacts, LenProperties
    <3>7. ASSUME NEW i \in 1 .. n + 1
          PROVE  \/ i \in 1 .. n /\ featureBuf'[i] = featureBuf[i] /\ featureBuf'[i].t <= p
                 \/ i = n + 1 /\ featureBuf'[i].t = p + 1
      <4>1. CASE i \in 1 .. n
        BY <3>1, <3>5, <3>6, <4>1 DEF ImagesInv, FramesInOrder
      <4>2. CASE i = n + 1
        BY <3>3, <3>5, <4>2
      <4> QED
        BY <4>1, <4>2
    <3>8. \A i \in 1 .. n : featureBuf[i].t \in Nat
      BY <3>1, BufferFacts
    <3>9. ASSUME NEW i \in 1 .. n + 1
          PROVE  /\ featureBuf'[i].t <= p + 1
                 /\ \A j \in 1 .. n + 1 : i < j => featureBuf'[i].t < featureBuf'[j].t
      <4>1. featureBuf'[i].t <= p + 1
        BY <3>7, <3>8
      <4>2. ASSUME NEW j \in 1 .. n + 1, i < j PROVE featureBuf'[i].t < featureBuf'[j].t
        <5>1. i \in 1 .. n /\ featureBuf'[i] = featureBuf[i] /\ featureBuf[i].t <= p
          BY <3>7, <4>2
        <5>2. CASE j \in 1 .. n
          <6>1. featureBuf'[j] = featureBuf[j]
            BY <3>5, <5>2
          <6> QED
            BY <3>6, <4>2, <5>1, <5>2, <6>1 DEF ImagesInv, FramesInOrder
        <5>3. CASE j = n + 1
          <6>1. featureBuf'[j].t = p + 1
            BY <3>3, <3>5, <5>3
          <6> QED
            BY <3>8, <5>1, <6>1
        <5> QED
          BY <5>2, <5>3
      <4> QED
        BY <4>1, <4>2
    <3>10. ASSUME NEW i \in 1 .. n + 1, NEW t \in Nat, t <= p, i \in 1 .. n => t < featureBuf[i].t
           PROVE  t < featureBuf'[i].t
      BY <3>7, <3>10
    <3>11. \A t \in all_image_frame : t \in Nat /\ t <= p /\ \A i \in 1 .. n : t < featureBuf[i].t
      BY <3>1, <3>6, BufferFacts DEF ImagesInv, FramesInOrder
    <3>12. Busy => taken.t \in Nat /\ taken.t <= p /\ \A i \in 1 .. n : taken.t < featureBuf[i].t
      BY <3>1, <3>6, BufferFacts DEF ImagesInv, FramesInOrder, Busy
    <3>13. ASSUME NEW t \in Nat, t <= p PROVE t <= p + 1
      BY <3>13
    <3>14. stage' \in InHand \cup Locked => Busy
      BY <1>1 DEF Busy, InHand, Locked
    <3>15. stage' \in InHand => \A t \in all_image_frame : t < taken.t
      BY <1>1 DEF ImagesInv, FramesInOrder, InHand
    <3> QED
      BY <1>1, <2>2, <3>1, <3>6, <3>9, <3>10, <3>11, <3>12, <3>13, <3>14, <3>15 DEF FramesInOrder
  <2> QED
    BY <2>1, <2>2 DEF InputImage
<1> QED
  BY <1>3, <1>4 DEF ImagesInv

LEMMA TakeImages ==
  ASSUME TypeOK, TypeOK', ImagesInv, CopyFrame
  PROVE  ImagesInv'
<1>1. /\ stage \in {"idle", "call"} /\ stage' = "copied" /\ featureBuf # <<>>
      /\ featureBuf' = Tail(featureBuf) /\ taken'.t = Head(featureBuf).t /\ pushed' = pushed
      /\ all_image_frame' = all_image_frame /\ freed' = freed /\ Headers' = Headers
      /\ frame_count' = frame_count /\ solver_flag' = solver_flag /\ STEREO' = STEREO
  BY DEF CopyFrame, flags, window, images, sensors
<1>2. Newest' = Newest
  BY <1>1 DEF Newest, InHand, Locked
<1>3. ImagesInOrder' /\ ImagesExact'
  BY <1>1, <1>2, ImagesKept DEF ImagesInv
<1>4. FramesInOrder'
  <2>1. featureBuf \in Seq(Frame) /\ featureBuf # <<>>
    BY <1>1 DEF TypeOK, Frame
  <2>2. PICK n \in Nat : n = Len(featureBuf)
    BY BufferFacts
  <2>3. n # 0
    BY <2>1, <2>2, EmptySeq
  <2>4. /\ Len(featureBuf') = n - 1 /\ featureBuf' \in Seq(Frame)
        /\ \A i \in 1 .. n - 1 : featureBuf'[i] = featureBuf[i + 1]
        /\ taken'.t = featureBuf[1].t
    BY <1>1, <2>1, <2>2, HeadTailProperties
  <2>5. DOMAIN featureBuf = 1 .. n /\ DOMAIN featureBuf' = 1 .. n - 1
    BY <2>2, <2>4, BufferFacts, LenProperties
  <2>6. 1 \in 1 .. n /\ \A i \in 1 .. n - 1 : i + 1 \in 1 .. n /\ 1 < i + 1
    BY <2>3
  <2>7. /\ \A i \in 1 .. n : featureBuf[i].t <= pushed
        /\ \A i, j \in 1 .. n : i < j => featureBuf[i].t < featureBuf[j].t
        /\ \A i \in 1 .. n : \A t \in all_image_frame : t < featureBuf[i].t
        /\ \A t \in all_image_frame : t <= pushed
    BY <2>5 DEF ImagesInv, FramesInOrder
  <2>8. ASSUME NEW i \in 1 .. n - 1
        PROVE  /\ featureBuf'[i].t <= pushed /\ taken'.t < featureBuf'[i].t
               /\ \A t \in all_image_frame : t < featureBuf'[i].t
               /\ \A j \in 1 .. n - 1 : i < j => featureBuf'[i].t < featureBuf'[j].t
    <3>1. i + 1 \in 1 .. n /\ featureBuf'[i] = featureBuf[i + 1] /\ 1 < i + 1
      BY <2>4, <2>6
    <3>2. featureBuf'[i].t <= pushed /\ taken'.t < featureBuf'[i].t
          /\ \A t \in all_image_frame : t < featureBuf'[i].t
      BY <2>4, <2>6, <2>7, <3>1
    <3>3. ASSUME NEW j \in 1 .. n - 1, i < j PROVE featureBuf'[i].t < featureBuf'[j].t
      <4>1. j + 1 \in 1 .. n /\ featureBuf'[j] = featureBuf[j + 1] /\ i + 1 < j + 1
        BY <2>4, <2>6, <3>3
      <4> QED
        BY <2>7, <3>1, <4>1
    <3> QED
      BY <3>2, <3>3
  <2>9. taken'.t <= pushed /\ \A t \in all_image_frame : t < taken'.t
    BY <2>4, <2>6, <2>7
  <2> QED
    BY <1>1, <2>5, <2>7, <2>8, <2>9 DEF FramesInOrder
<1> QED
  BY <1>3, <1>4 DEF ImagesInv

(* The tail of the frames that wait.                                       *)
LEMMA TailFrames ==
  ASSUME TypeOK, featureBuf # <<>>, featureBuf' = Tail(featureBuf)
  PROVE  /\ \A i \in DOMAIN featureBuf' : i + 1 \in DOMAIN featureBuf /\ featureBuf'[i] = featureBuf[i + 1]
         /\ \A i, j \in DOMAIN featureBuf' : i < j => i + 1 < j + 1
<1>1. featureBuf \in Seq(Frame)
  BY DEF TypeOK, Frame
<1>2. PICK n \in Nat : n = Len(featureBuf) /\ n # 0
  BY <1>1, BufferFacts, EmptySeq
<1>3. /\ Len(featureBuf') = n - 1 /\ featureBuf' \in Seq(Frame)
      /\ \A i \in 1 .. n - 1 : featureBuf'[i] = featureBuf[i + 1]
  BY <1>1, <1>2, HeadTailProperties
<1>4. DOMAIN featureBuf = 1 .. n /\ DOMAIN featureBuf' = 1 .. n - 1
  BY <1>2, <1>3, BufferFacts, LenProperties
<1>5. \A i \in 1 .. n - 1 : i + 1 \in 1 .. n
  BY <1>2
<1>6. \A i, j \in 1 .. n - 1 : i < j => i + 1 < j + 1
  OBVIOUS
<1> QED
  BY <1>3, <1>4, <1>5, <1>6

LEMMA PopImages ==
  ASSUME TypeOK, TypeOK', ImagesInv, PopFrame
  PROVE  ImagesInv'
<1>1. /\ stage = "copied" /\ stage' = "taken" /\ taken'.t = taken.t /\ pushed' = pushed
      /\ all_image_frame' = all_image_frame /\ freed' = freed /\ Headers' = Headers
      /\ frame_count' = frame_count /\ solver_flag' = solver_flag /\ STEREO' = STEREO
  <2>1. taken'.t = taken.t
    BY DEF PopFrame, TypeOK
  <2> QED
    BY <2>1 DEF PopFrame, flags, window, images, sensors
<1>2. Newest' = Newest
  BY <1>1 DEF Newest, InHand, Locked
<1>3. ImagesInOrder' /\ ImagesExact'
  BY <1>1, <1>2, ImagesKept DEF ImagesInv
<1>4. CASE featureBuf' = featureBuf
  <2>1. FramesInOrder'
    BY <1>1, <1>4 DEF ImagesInv, FramesInOrder, InHand, Locked
  <2> QED
    BY <1>3, <2>1 DEF ImagesInv
<1>5. CASE featureBuf # <<>> /\ featureBuf' = Tail(featureBuf)
  <2>1. FramesInOrder'
    BY <1>1, <1>5, TailFrames DEF ImagesInv, FramesInOrder, InHand, Locked
  <2> QED
    BY <1>3, <2>1 DEF ImagesInv
<1> QED
  BY <1>4, <1>5 DEF PopFrame

LEMMA IMUImages ==
  ASSUME TypeOK, TypeOK', ImagesInv, NoFrameYet \/ ProcessIMU \/ ChangeSensorType
  PROVE  ImagesInv'
<1>1. /\ featureBuf' = featureBuf /\ taken' = taken /\ pushed' = pushed
      /\ all_image_frame' = all_image_frame /\ freed' = freed /\ Headers' = Headers
      /\ frame_count' = frame_count /\ solver_flag' = solver_flag
  BY DEF NoFrameYet, ProcessIMU, ChangeSensorType, input, thread, flags, window, images
<1>2. \/ stage' = stage
      \/ stage = "call" /\ stage' = "idle"
      \/ stage = "taken" /\ stage' = "integrated"
  BY DEF NoFrameYet, ProcessIMU, ChangeSensorType, thread
<1>3. Newest' = Newest
  BY <1>1, <1>2 DEF Newest, InHand, Locked
<1>4. "cam" \notin Switches => STEREO' = STEREO
  BY DEF NoFrameYet, ProcessIMU, ChangeSensorType, sensors
<1>5. /\ stage' = "clean" => solver_flag' = "NON_LINEAR"
      /\ STEREO' /\ solver_flag' = "INITIAL" /\ "cam" \notin Switches =>
           STEREO /\ solver_flag = "INITIAL" /\ stage' # "slide"
  BY <1>1, <1>2, <1>4 DEF ImagesInv, ImagesExact
<1>6. ImagesInOrder' /\ ImagesExact'
  BY <1>1, <1>3, <1>5, ImagesKept DEF ImagesInv
<1>7. FramesInOrder'
  BY <1>1, <1>2 DEF ImagesInv, FramesInOrder, InHand, Locked
<1> QED
  BY <1>6, <1>7 DEF ImagesInv

(* The frame that is added is newer than every image.                      *)
LEMMA AddImages ==
  ASSUME TypeOK, TypeOK', ImagesInv, AddFeatures
  PROVE  ImagesInv'
<1>1. /\ stage = "integrated" /\ stage' = "added" /\ featureBuf' = featureBuf /\ pushed' = pushed
      /\ taken' = taken /\ frame_count' = frame_count /\ solver_flag' = solver_flag
      /\ freed' = freed /\ STEREO' = STEREO
      /\ all_image_frame' = all_image_frame \cup {taken.t}
      /\ Headers' = [Headers EXCEPT ![frame_count] = taken.t]
  BY DEF AddFeatures, input, sensors
<1>2. PICK fc \in Nat, x \in Nat : fc = frame_count /\ x = taken.t
  BY BufferFacts
<1>3. Newest = fc - 1 /\ Newest' = fc
  BY <1>1, <1>2 DEF Newest, InHand, Locked
<1>4. \A t \in all_image_frame : t \in Nat /\ t < x
  BY <1>1, <1>2, BufferFacts DEF ImagesInv, FramesInOrder, InHand
<1>5. Headers \in [Index -> Frames] /\ fc \in Index /\ \A i \in 0 .. fc : i \in Index
  BY <1>2, SizeAssumption DEF TypeOK, Index
<1>6. Headers'[fc] = x /\ \A i \in 0 .. fc - 1 : i \in 0 .. fc /\ i # fc /\ Headers'[i] = Headers[i]
  <2>1. \A i \in 0 .. fc - 1 : i \in 0 .. fc /\ i # fc
    OBVIOUS
  <2> QED
    BY <1>1, <1>2, <1>5, <2>1
<1>7. \A i \in 0 .. fc : i = fc \/ i \in 0 .. fc - 1
  OBVIOUS
<1>8. freed \subseteq all_image_frame
  BY DEF TypeOK
<1>9. /\ \A i \in 0 .. fc - 1 : Headers[i] \in all_image_frame
      /\ \A i, j \in 0 .. fc - 1 : i < j => Headers[i] < Headers[j]
      /\ \A t \in freed : \A u \in all_image_frame : t <= u
      /\ \A t \in freed : \A i \in 0 .. fc - 1 : t < Headers[i]
  BY <1>3 DEF ImagesInv, ImagesInOrder
<1>10. ImagesInOrder'
  <2>1. \A i \in 0 .. fc : Headers'[i] \in all_image_frame'
    BY <1>1, <1>2, <1>6, <1>7, <1>9
  <2>2. ASSUME NEW i \in 0 .. fc, NEW j \in 0 .. fc, i < j PROVE Headers'[i] < Headers'[j]
    <3>1. i \in 0 .. fc - 1
      BY <2>2
    <3>2. CASE j = fc
      BY <1>4, <1>6, <1>9, <3>1, <3>2
    <3>3. CASE j \in 0 .. fc - 1
      BY <1>6, <1>9, <2>2, <3>1, <3>3
    <3> QED
      BY <1>7, <3>2, <3>3
  <2>3. \A t \in freed : \A u \in all_image_frame' : t <= u
    BY <1>1, <1>2, <1>4, <1>8, <1>9
  <2>4. \A t \in freed : \A i \in 0 .. fc : t < Headers'[i]
    BY <1>4, <1>6, <1>7, <1>8, <1>9
  <2> QED
    BY <1>1, <1>3, <2>1, <2>2, <2>3, <2>4 DEF ImagesInOrder
<1>11. ImagesExact'
  <2> SUFFICES ASSUME "cam" \notin Switches, STEREO, solver_flag = "INITIAL", NEW t \in all_image_frame'
               PROVE  \E i \in 0 .. fc : Headers'[i] = t
    BY <1>1, <1>3 DEF ImagesExact
  <2>1. CASE t \in all_image_frame
    <3>1. PICK i \in 0 .. fc - 1 : Headers[i] = t
      BY <1>3, <2>1 DEF ImagesInv, ImagesExact
    <3> QED
      BY <1>6, <3>1
  <2>2. CASE t = x
    <3>1. fc \in 0 .. fc
      OBVIOUS
    <3> QED
      BY <1>6, <2>2, <3>1
  <2> QED
    BY <1>1, <1>2, <2>1, <2>2
<1>12. FramesInOrder'
  <2>1. ASSUME NEW i \in DOMAIN featureBuf, NEW t \in all_image_frame' PROVE t < featureBuf[i].t
    BY <1>1, <2>1 DEF ImagesInv, FramesInOrder, InHand
  <2>2. \A t \in all_image_frame' : t <= pushed
    BY <1>1 DEF ImagesInv, FramesInOrder, InHand
  <2> QED
    BY <1>1, <2>1, <2>2 DEF ImagesInv, FramesInOrder, InHand, Locked
<1> QED
  BY <1>10, <1>11, <1>12 DEF ImagesInv

LEMMA SolveImages ==
  ASSUME TypeOK, TypeOK', FeatureInv, ImagesInv, Grow \/ NotInitialized \/ Initialize \/ Optimize
  PROVE  ImagesInv'
<1>1. /\ stage = "added" /\ featureBuf' = featureBuf /\ pushed' = pushed /\ freed' = freed
      /\ all_image_frame' = all_image_frame /\ Headers' = Headers /\ STEREO' = STEREO
  BY DEF Grow, NotInitialized, Initialize, Optimize, input, window, images, sensors
<1>2. \/ stage' = "idle" /\ frame_count' = frame_count + 1 /\ solver_flag' = solver_flag
      \/ /\ stage' = "slide" /\ frame_count' = frame_count /\ taken' = taken
         /\ solver_flag' = solver_flag /\ ~STEREO
      \/ /\ stage' \in {"slide", "clean"} /\ frame_count' = frame_count /\ taken' = taken
         /\ solver_flag' = "NON_LINEAR"
  BY DEF Grow, NotInitialized, Initialize, Optimize, flags
<1>3. Newest' = Newest
  <2>1. Newest = frame_count /\ frame_count \in Nat
    BY <1>1, BufferFacts DEF Newest, InHand, Locked
  <2>2. CASE stage' = "idle"
    <3>1. Newest' = (frame_count + 1) - 1
      BY <1>2, <2>2 DEF Newest, InHand, Locked
    <3>2. (frame_count + 1) - 1 = frame_count
      BY <2>1
    <3> QED
      BY <2>1, <3>1, <3>2
  <2>3. CASE stage' \in {"slide", "clean"}
    BY <1>2, <2>1, <2>3 DEF Newest, InHand, Locked
  <2> QED
    BY <1>2, <2>2, <2>3
<1>4. /\ stage' = "clean" => solver_flag' = "NON_LINEAR"
      /\ STEREO' /\ solver_flag' = "INITIAL" /\ "cam" \notin Switches =>
           STEREO /\ solver_flag = "INITIAL" /\ stage' # "slide"
  BY <1>1, <1>2
<1>5. ImagesInOrder' /\ ImagesExact'
  BY <1>1, <1>3, <1>4, ImagesKept DEF ImagesInv
<1>6. FramesInOrder'
  BY <1>1, <1>2 DEF ImagesInv, FramesInOrder, InHand, Locked
<1> QED
  BY <1>5, <1>6 DEF ImagesInv

(* The oldest header is the only image that is marked, and is the first.   *)
LEMMA SlideOldImages ==
  ASSUME TypeOK, TypeOK', FeatureInv, ImagesInv, SlideOld
  PROVE  ImagesInv'
<1>1. /\ stage \in {"slide", "clean"} /\ stage' = "idle" /\ featureBuf' = featureBuf /\ pushed' = pushed
      /\ frame_count' = frame_count /\ solver_flag' = solver_flag /\ STEREO' = STEREO
      /\ all_image_frame' = {t \in all_image_frame : t >= Headers[0]}
      /\ freed' = (freed \cap all_image_frame') \cup {Headers[0]}
      /\ Headers' = [i \in Index |-> IF i < WINDOW_SIZE THEN Headers[i + 1] ELSE Headers[i]]
  BY DEF SlideOld, FrameDone, NotBefore, input, sensors, flags
<1>2. PICK w \in Nat : w = WINDOW_SIZE /\ w >= 2 /\ frame_count = w /\ Newest = w /\ Index = 0 .. w
  BY <1>1, SlideFacts
<1>3. Newest' = w - 1
  BY <1>1, <1>2 DEF Newest, InHand, Locked
<1>4. /\ \A i \in 0 .. w : Headers[i] \in all_image_frame
      /\ \A i, j \in 0 .. w : i < j => Headers[i] < Headers[j]
      /\ \A t \in freed : \A i \in 0 .. w : t < Headers[i]
  BY <1>2 DEF ImagesInv, ImagesInOrder
<1>5. ASSUME NEW i \in 0 .. w - 1
      PROVE  /\ Headers'[i] = Headers[i + 1] /\ i + 1 \in 0 .. w /\ 0 < i + 1 /\ 0 \in 0 .. w
             /\ Headers[i + 1] \in Nat
  <2>1. i \in Index /\ i < WINDOW_SIZE /\ i + 1 \in 0 .. w /\ 0 < i + 1 /\ 0 \in 0 .. w
    BY <1>2
  <2> QED
    BY <1>1, <1>2, <2>1, BufferFacts
<1>6. Headers[0] \in Nat /\ 0 \in 0 .. w
  BY <1>2, BufferFacts
<1>7. \A i \in 0 .. w - 1 : Headers[0] < Headers'[i] /\ Headers'[i] \in all_image_frame'
  <2> SUFFICES ASSUME NEW i \in 0 .. w - 1
               PROVE  Headers[0] < Headers'[i] /\ Headers'[i] \in all_image_frame'
    OBVIOUS
  <2>1. Headers[0] < Headers[i + 1] /\ Headers[i + 1] \in all_image_frame
    BY <1>4, <1>5
  <2>2. Headers[i + 1] >= Headers[0]
    BY <1>5, <1>6, <2>1
  <2> QED
    BY <1>1, <1>5, <2>1, <2>2
<1>8. freed' = {Headers[0]}
  <2>1. ASSUME NEW t \in freed PROVE t \notin all_image_frame'
    <3>1. t < Headers[0] /\ t \in Nat
      BY <1>4, <1>6, BufferFacts DEF TypeOK
    <3> QED
      BY <1>1, <1>6, <3>1
  <2> QED
    BY <1>1, <2>1
<1>9. ImagesInOrder'
  <2>1. ASSUME NEW i \in 0 .. w - 1, NEW j \in 0 .. w - 1, i < j PROVE Headers'[i] < Headers'[j]
    <3>1. i + 1 < j + 1
      BY <2>1
    <3> QED
      BY <1>4, <1>5, <3>1
  <2>2. \A t \in freed' : \A u \in all_image_frame' : t <= u
    <3>1. ASSUME NEW u \in all_image_frame' PROVE Headers[0] <= u
      <4>1. u \in Nat /\ u >= Headers[0]
        BY <1>1, BufferFacts
      <4> QED
        BY <1>6, <4>1
    <3> QED
      BY <1>8, <3>1
  <2> QED
    BY <1>3, <1>7, <1>8, <2>1, <2>2 DEF ImagesInOrder
<1>10. ImagesExact'
  BY <1>1 DEF ImagesInv, ImagesExact
<1>11. FramesInOrder'
  BY <1>1 DEF ImagesInv, FramesInOrder, InHand, Locked
<1> QED
  BY <1>9, <1>10, <1>11 DEF ImagesInv

LEMMA SlideNewImages ==
  ASSUME TypeOK, TypeOK', FeatureInv, ImagesInv, SlideNew
  PROVE  ImagesInv'
<1>1. /\ stage \in {"slide", "clean"} /\ stage' = "idle" /\ featureBuf' = featureBuf /\ pushed' = pushed
      /\ frame_count' = frame_count /\ solver_flag' = solver_flag /\ STEREO' = STEREO
      /\ all_image_frame' = all_image_frame /\ freed' = freed
      /\ Headers' = [Headers EXCEPT ![WINDOW_SIZE - 1] = Headers[WINDOW_SIZE]]
  BY DEF SlideNew, FrameDone, images, input, sensors, flags
<1>2. PICK w \in Nat : w = WINDOW_SIZE /\ w >= 2 /\ frame_count = w /\ Newest = w /\ Index = 0 .. w
  BY <1>1, SlideFacts
<1>3. Newest' = w - 1
  BY <1>1, <1>2 DEF Newest, InHand, Locked
<1>4. /\ \A i \in 0 .. w : Headers[i] \in all_image_frame
      /\ \A i, j \in 0 .. w : i < j => Headers[i] < Headers[j]
      /\ \A t \in freed : \A i \in 0 .. w : t < Headers[i]
      /\ \A t \in freed : \A u \in all_image_frame : t <= u
  BY <1>2 DEF ImagesInv, ImagesInOrder
<1>5. ASSUME NEW i \in 0 .. w - 1
      PROVE  \/ i = w - 1 /\ Headers'[i] = Headers[w]
             \/ i < w - 1 /\ Headers'[i] = Headers[i]
  <2>1. i \in Index /\ w - 1 \in Index
    BY <1>2
  <2>2. Headers \in [Index -> Frames]
    BY DEF TypeOK
  <2> QED
    BY <1>1, <1>2, <2>1, <2>2
<1>6. \A i \in 0 .. w - 1 : i \in 0 .. w /\ i < w /\ w \in 0 .. w
  OBVIOUS
<1>7. ImagesInOrder'
  <2>1. ASSUME NEW i \in 0 .. w - 1, NEW j \in 0 .. w - 1, i < j PROVE Headers'[i] < Headers'[j]
    <3>1. Headers'[i] = Headers[i]
      <4>1. i # w - 1
        BY <2>1
      <4> QED
        BY <1>5, <4>1
    <3> QED
      BY <1>4, <1>5, <1>6, <2>1, <3>1
  <2>2. \A i \in 0 .. w - 1 : Headers'[i] \in all_image_frame
    BY <1>4, <1>5, <1>6
  <2>3. \A t \in freed : \A i \in 0 .. w - 1 : t < Headers'[i]
    BY <1>4, <1>5, <1>6
  <2> QED
    BY <1>1, <1>3, <1>4, <2>1, <2>2, <2>3 DEF ImagesInOrder
<1>8. ImagesExact'
  BY <1>1 DEF ImagesInv, ImagesExact
<1>9. FramesInOrder'
  BY <1>1 DEF ImagesInv, FramesInOrder, InHand, Locked
<1> QED
  BY <1>7, <1>8, <1>9 DEF ImagesInv

LEMMA ClearImages ==
  ASSUME TypeOK, TypeOK', ImagesInv, ClearState
  PROVE  ImagesInv'
<1>1. /\ stage \notin Locked /\ stage' = stage /\ taken' = taken /\ pushed' = pushed
      /\ featureBuf' = <<>> /\ all_image_frame' = {} /\ freed' = {} /\ frame_count' = 0
  BY DEF ClearState
<1>2. Newest' = 0 - 1
  BY <1>1 DEF Newest
<1>3. DOMAIN featureBuf' = {} /\ 0 .. (0 - 1) = {}
  BY <1>1, BufferFacts
<1>4. FramesInOrder'
  BY <1>1, <1>3 DEF ImagesInv, FramesInOrder
<1>5. ImagesInOrder' /\ ImagesExact'
  BY <1>1, <1>2, <1>3 DEF ImagesInOrder, ImagesExact, InHand, Locked
<1> QED
  BY <1>4, <1>5 DEF ImagesInv

LEMMA ImagesStep ==
  ASSUME TypeOK, TypeOK', FeatureInv, ImagesInv, [Next]_vars
  PROVE  ImagesInv'
<1>1. CASE UNCHANGED vars \/ Undefined
  <2>1. /\ UNCHANGED <<featureBuf, taken, stage, pushed, all_image_frame, freed, Headers>>
        /\ UNCHANGED <<frame_count, solver_flag, STEREO>>
    BY <1>1 DEF vars, Undefined, sensors, input, thread, flags, window, images
  <2>2. Newest' = Newest
    BY <2>1 DEF Newest
  <2> QED
    BY <2>1, <2>2 DEF ImagesInv, FramesInOrder, ImagesInOrder, ImagesExact
<1>2. CASE Restart \/ ReuseImu
  <2>1. ClearState
    BY <1>2 DEF Restart, ReuseImu
  <2> QED
    BY <2>1, ClearImages
<1> QED
  BY <1>1, <1>2, InputImages, TakeImages, PopImages, IMUImages, AddImages, SolveImages, SlideOldImages,
     SlideNewImages DEF Next
-----------------------------------------------------------------------------
(* The frame that was in hand.                                             *)

LEMMA CutNumbers ==
  ASSUME TypeOK
  PROVE  cut \in Nat /\ taken.t \in Nat /\ pushed \in Nat /\ frame_count \in Nat
<1>1. cut \in Frames /\ Frames \subseteq Nat
  BY SizeAssumption DEF TypeOK, Frames
<1> QED
  BY <1>1, BufferFacts

(* A frame that is pushed is newer, and so is the oldest that waits.       *)
LEMMA CutInput ==
  ASSUME TypeOK, TypeOK', CutFirst, InputImage
  PROVE  CutFirst'
<1>1. /\ cut' = cut /\ taken' = taken /\ curTime' = curTime /\ frame_count' = frame_count
      /\ Headers' = Headers
      /\ stage' \in InHand \cup Locked => stage' = stage
      /\ stage \in InHand \cup Locked => stage' = stage
  BY DEF InputImage, cleared, flags, window, InHand, Locked
<1>2. Newest' = Newest
  BY <1>1 DEF Newest, InHand, Locked
<1>3. CASE featureBuf' = featureBuf /\ pushed' = pushed
  BY <1>1, <1>2, <1>3 DEF CutFirst
<1>4. CASE /\ pushed' = pushed + 1
           /\ featureBuf' = Append(featureBuf, [t |-> pushed + 1, ids |-> ids'])
  <2>1. cut <= pushed /\ cut < pushed + 1 /\ cut <= pushed'
    BY <1>4, CutNumbers DEF CutFirst
  <2>2. PICK f : f = [t |-> pushed + 1, ids |-> ids']
    OBVIOUS
  <2>3. f.t = pushed + 1 /\ featureBuf' = Append(featureBuf, f)
    BY <1>4, <2>2
  <2>4. PICK n \in Nat : n = Len(featureBuf) /\ DOMAIN featureBuf = 1 .. n
    BY BufferFacts
  <2>5. f \in Frame
    <3>1. featureBuf' \in Seq(Frame)
      BY DEF TypeOK, Frame
    <3>2. Len(featureBuf') \in Nat /\ \A k \in 1 .. Len(featureBuf') : featureBuf'[k] \in Frame
      BY <3>1, LenProperties, ElementOfSeq
    <3>3. pushed + 1 \in Frames
      BY <1>4 DEF TypeOK
    <3>4. ids' \in SUBSET (0 .. MaxId)
      <4>1. PICK next : next = n_id'
        OBVIOUS
      <4>2. next \in 0 .. MaxId /\ ids' \subseteq 0 .. next - 1
        BY <4>1 DEF TypeOK
      <4>3. 0 .. next - 1 \subseteq 0 .. MaxId
        BY <4>2, SizeAssumption
      <4> QED
        BY <4>2, <4>3
    <3> QED
      BY <2>2, <3>3, <3>4 DEF Frame
  <2>6. /\ Len(featureBuf') = n + 1 /\ featureBuf'[n + 1] = f
        /\ \A i \in 1 .. n : featureBuf'[i] = featureBuf[i]
    <3>1. featureBuf \in Seq(Frame)
      BY DEF TypeOK, Frame
    <3> QED
      BY <2>3, <2>4, <2>5, <3>1, AppendProperties
  <2>7. DOMAIN featureBuf' = 1 .. n + 1
    BY <2>6, BufferFacts
  <2>8. \A i \in DOMAIN featureBuf' : cut < featureBuf'[i].t
    <3>1. \A i \in 1 .. n + 1 : i \in 1 .. n \/ i = n + 1
      OBVIOUS
    <3> QED
      BY <2>1, <2>3, <2>4, <2>6, <2>7, <3>1 DEF CutFirst
  <2> QED
    BY <1>1, <1>2, <2>1, <2>8 DEF CutFirst
<1> QED
  BY <1>3, <1>4 DEF InputImage

LEMMA CutTake ==
  ASSUME TypeOK, TypeOK', CutFirst, CopyFrame
  PROVE  CutFirst'
<1>1. /\ cut' = cut /\ pushed' = pushed /\ frame_count' = frame_count /\ Headers' = Headers
      /\ stage \in {"idle", "call"} /\ stage' = "copied"
      /\ featureBuf # <<>> /\ featureBuf' = Tail(featureBuf)
      /\ taken'.t = Head(featureBuf).t /\ curTime' = taken'.t
  BY DEF CopyFrame, cleared, flags, window
<1>2. Newest' = Newest
  BY <1>1 DEF Newest, Locked
<1>3. 1 \in DOMAIN featureBuf /\ Head(featureBuf) = featureBuf[1]
  <2>1. featureBuf \in Seq(Frame)
    BY DEF TypeOK, Frame
  <2>2. Len(featureBuf) \in Nat /\ Len(featureBuf) # 0 /\ DOMAIN featureBuf = 1 .. Len(featureBuf)
    BY <1>1, <2>1, BufferFacts, EmptySeq
  <2>3. 1 \in DOMAIN featureBuf
    BY <2>2
  <2> QED
    BY <1>1, <2>1, <2>3, HeadTailProperties
<1>4. cut < taken'.t
  BY <1>1, <1>3 DEF CutFirst
<1>5. taken'.t # cut
  BY <1>4, CutNumbers
<1>6. \A i \in DOMAIN featureBuf' : cut < featureBuf'[i].t
  BY <1>1, TailFrames DEF CutFirst
<1> QED
  BY <1>1, <1>2, <1>4, <1>5, <1>6 DEF CutFirst, Clock

LEMMA CutPop ==
  ASSUME TypeOK, TypeOK', CutFirst, PopFrame
  PROVE  CutFirst'
<1>1. /\ cut' = cut /\ pushed' = pushed /\ frame_count' = frame_count /\ Headers' = Headers
      /\ stage = "copied" /\ stage' = "taken" /\ curTime' = curTime /\ taken'.t = taken.t
  <2>1. taken'.t = taken.t
    BY DEF PopFrame, TypeOK
  <2> QED
    BY <2>1 DEF PopFrame, cleared, flags, window
<1>2. Newest' = Newest
  BY <1>1 DEF Newest, Locked
<1>3. \A i \in DOMAIN featureBuf' : cut < featureBuf'[i].t
  <2>1. CASE featureBuf' = featureBuf
    BY <2>1 DEF CutFirst
  <2>2. CASE featureBuf # <<>> /\ featureBuf' = Tail(featureBuf)
    BY <2>2, TailFrames DEF CutFirst
  <2> QED
    BY <2>1, <2>2 DEF PopFrame
<1>4. curTime = Clock(cut, taken.t) /\ (frame_count >= 1 => cut < taken.t)
  BY <1>1 DEF CutFirst, InHand
<1> QED
  BY <1>1, <1>2, <1>3, <1>4 DEF CutFirst

(* The frame in hand is not the first: it is newer than the one that was.  *)
LEMMA CutAdd ==
  ASSUME TypeOK, TypeOK', CutFirst, AddFeatures
  PROVE  CutFirst'
<1>1. /\ cut' = cut /\ pushed' = pushed /\ featureBuf' = featureBuf /\ taken' = taken
      /\ curTime' = curTime /\ frame_count' = frame_count
      /\ stage = "integrated" /\ stage' = "added"
      /\ Headers' = [Headers EXCEPT ![frame_count] = taken.t]
  BY DEF AddFeatures, cleared, input
<1>2. PICK fc \in Nat : fc = frame_count /\ fc \in Index /\ fc <= WINDOW_SIZE /\ Index = 0 .. WINDOW_SIZE
                         /\ WINDOW_SIZE \in Nat
  BY SizeAssumption, BufferFacts DEF TypeOK, Index
<1>3. Newest = fc - 1 /\ Newest' = fc
  BY <1>1, <1>2 DEF Newest, Locked
<1>4. ASSUME NEW i \in 1 .. fc PROVE Headers'[i] # cut
  <2>1. i \in Index
    BY <1>2
  <2>2. CASE i = fc
    <3>1. fc >= 1
      BY <2>2
    <3>2. cut < taken.t
      BY <1>1, <1>2, <3>1 DEF CutFirst, InHand
    <3>3. Headers'[fc] = taken.t
      BY <1>1, <1>2 DEF TypeOK
    <3> QED
      BY <2>2, <3>2, <3>3, CutNumbers
  <2>3. CASE i # fc
    <3>1. i \in 1 .. fc - 1
      BY <2>3
    <3>2. Headers'[i] = Headers[i]
      BY <1>1, <1>2, <2>1, <2>3 DEF TypeOK
    <3> QED
      BY <1>3, <3>1, <3>2 DEF CutFirst
  <2> QED
    BY <2>2, <2>3
<1>5. curTime = Clock(cut, taken.t)
  BY <1>1 DEF CutFirst, InHand
<1> QED
  BY <1>1, <1>3, <1>4, <1>5 DEF CutFirst, InHand

LEMMA CutSolve ==
  ASSUME TypeOK, TypeOK', CutFirst, Grow \/ NotInitialized \/ Initialize \/ Optimize
  PROVE  CutFirst'
<1>1. /\ cut' = cut /\ pushed' = pushed /\ featureBuf' = featureBuf /\ curTime' = curTime
      /\ Headers' = Headers /\ stage = "added" /\ stage' \notin InHand
      /\ stage' \in Locked => taken' = taken /\ frame_count' = frame_count
      /\ stage' \notin Locked => frame_count' = frame_count + 1
  BY DEF Grow, NotInitialized, Initialize, Optimize, cleared, input, flags, window, InHand, Locked
<1>2. Newest' = Newest
  BY <1>1, CutNumbers DEF Newest, Locked
<1>3. curTime = Clock(cut, taken.t)
  BY <1>1 DEF CutFirst, Locked
<1> QED
  BY <1>1, <1>2, <1>3 DEF CutFirst

LEMMA CutSlide ==
  ASSUME TypeOK, TypeOK', FeatureInv, CutFirst, SlideOld \/ SlideNew
  PROVE  CutFirst'
<1>1. /\ cut' = cut /\ pushed' = pushed /\ featureBuf' = featureBuf
      /\ stage \in {"slide", "clean"} /\ stage' = "idle" /\ frame_count' = frame_count
  BY DEF SlideOld, SlideNew, FrameDone, cleared, input, flags
<1>2. PICK w \in Nat : /\ w = WINDOW_SIZE /\ w >= 2 /\ frame_count = w /\ Newest = w /\ Index = 0 .. w
  BY <1>1, SlideFacts
<1>3. Newest' = w - 1
  BY <1>1, <1>2 DEF Newest, Locked
<1>4. ASSUME NEW i \in 1 .. w - 1 PROVE Headers'[i] # cut
  <2>1. i \in Index /\ i < WINDOW_SIZE /\ i + 1 \in 1 .. w /\ i \in 1 .. w /\ w \in 1 .. w
    BY <1>2
  <2>2. Headers'[i] \in {Headers[i], Headers[i + 1], Headers[w]}
    <3>1. CASE SlideOld
      BY <2>1, <3>1 DEF SlideOld
    <3>2. CASE SlideNew
      BY <1>2, <2>1, <3>2 DEF SlideNew, TypeOK
    <3> QED
      BY <3>1, <3>2
  <2> QED
    BY <1>2, <2>1, <2>2 DEF CutFirst
<1> QED
  BY <1>1, <1>3, <1>4 DEF CutFirst, InHand, Locked

LEMMA CutClear ==
  ASSUME TypeOK, TypeOK', ImagesInv, ClearState
  PROVE  CutFirst'
<1>1. /\ stage \notin Locked /\ stage' = stage /\ taken' = taken /\ pushed' = pushed /\ featureBuf' = <<>>
      /\ frame_count' = 0 /\ curTime' = 0
      /\ cut' = IF stage \in InHand THEN taken.t ELSE 0
  BY DEF ClearState
<1>2. Newest' = 0 - 1 /\ 1 .. (0 - 1) = {} /\ ~(0 >= 1)
  BY <1>1 DEF Newest
<1>3. DOMAIN featureBuf' = {}
  BY <1>1
<1>4. cut' <= pushed
  <2>1. CASE stage \in InHand
    BY <1>1, <2>1 DEF ImagesInv, FramesInOrder
  <2>2. CASE stage \notin InHand
    BY <1>1, <2>2, CutNumbers
  <2> QED
    BY <2>1, <2>2
<1>5. stage \in InHand => curTime' = Clock(cut', taken.t)
  BY <1>1 DEF Clock
<1> QED
  BY <1>1, <1>2, <1>3, <1>4, <1>5 DEF CutFirst

LEMMA CutStep ==
  ASSUME TypeOK, TypeOK', FeatureInv, ImagesInv, CutFirst, [Next]_vars
  PROVE  CutFirst'
<1>1. CASE UNCHANGED vars \/ Undefined \/ NoFrameYet \/ ProcessIMU \/ ChangeSensorType
  <2>1. /\ UNCHANGED <<cut, pushed, featureBuf, taken, curTime, frame_count, Headers>>
        /\ stage' \in InHand \cup Locked <=> stage \in InHand \cup Locked
        /\ stage' \in InHand <=> stage \in InHand
        /\ stage' \in Locked <=> stage \in Locked
    BY <1>1 DEF vars, Undefined, NoFrameYet, ProcessIMU, ChangeSensorType, cleared, input, thread, flags,
       window, InHand, Locked
  <2>2. Newest' = Newest
    BY <2>1 DEF Newest
  <2> QED
    BY <2>1, <2>2 DEF CutFirst
<1>2. CASE Restart \/ ReuseImu
  BY <1>2, CutClear DEF Restart, ReuseImu
<1> QED
  BY <1>1, <1>2, CutInput, CutTake, CutPop, CutAdd, CutSolve, CutSlide DEF Next

-----------------------------------------------------------------------------
(* The prior and the IMU.                                                  *)

(* The IMU is in use, and what the estimator has is of that time.          *)
Live == USE_IMU /\ ~reuse

(* A block of the prior is about the frame that H has at its index, and is *)
(* below the index limit.                                                  *)
AboutIn(p, H, limit) == \A b \in p : b.index < limit /\ b.of = H[b.index]

NoSpeedOfSecondNew(p) == \A b \in p : ~(b.kind = "SpeedBias" /\ b.index = WINDOW_SIZE - 1)

(* Between optimization and slideWindow the prior is about the window that *)
(* is to be.                                                               *)
PriorInv ==
  /\ solver_flag = "INITIAL" => prior = {}
  /\ Live =>
       /\ NoSpeedOfSecondNew(prior)
       /\ stage \notin {"slide", "clean"} => AboutIn(prior, Headers, WINDOW_SIZE)
       /\ stage \in {"slide", "clean"} /\ marginalization_flag = "MARGIN_OLD" =>
            AboutIn(prior, [i \in 0 .. WINDOW_SIZE - 1 |-> Headers[i + 1]], WINDOW_SIZE)
       /\ stage \in {"slide", "clean"} /\ marginalization_flag = "MARGIN_SECOND_NEW" =>
            AboutIn(prior, Headers, WINDOW_SIZE - 1)

(* The pre-integration of the newest frame is empty until the IMU data has *)
(* been processed, and then connects the frame before to the one in hand.  *)
NextImu ==
  stage \notin Locked =>
    /\ prevTime = Clock(cut, Headers[frame_count - 1])
    /\ stage = "taken" => taken.imu
    /\ stage # "integrated" => pre_integrations[frame_count].from = pre_integrations[frame_count].to
    /\ stage = "integrated" =>
         pre_integrations[frame_count] = [from |-> Clock(cut, Headers[frame_count - 1]), to |-> taken.t]

ImuInv ==
  Live =>
    /\ \A i \in 1 .. Newest : pre_integrations[i] = [from |-> Clock(cut, Headers[i - 1]), to |-> Headers[i]]
    /\ \A i \in Index : i > frame_count => pre_integrations[i] = NoImu
    /\ frame_count >= 1 => NextImu

LEMMA LiveBefore ==
  ASSUME TypeOK, [Next]_vars, ~ClearState
  PROVE  Live' => Live
<1>1. CASE ChangeSensorType
  <2>1. PICK imu, stereo \in BOOLEAN : USE_IMU' = imu /\ (reuse' <=> (imu /\ ~USE_IMU)) /\ ~reuse
    BY <1>1 DEF ChangeSensorType
  <2> QED
    BY <2>1 DEF Live
<1>2. CASE ~ChangeSensorType
  <2>1. USE_IMU' = USE_IMU /\ reuse' = reuse
    BY <1>2 DEF vars, Next, InputImage, CopyFrame, NoFrameYet, PopFrame, ProcessIMU, AddFeatures, Grow,
       NotInitialized, Initialize, Optimize, SlideOld, SlideNew, FrameDone, Restart, ReuseImu, Undefined,
       sensors
  <2> QED
    BY <2>1 DEF Live
<1> QED
  BY <1>1, <1>2

LEMMA PriorBlocks ==
  ASSUME TypeOK
  PROVE  /\ WINDOW_SIZE \in Nat /\ WINDOW_SIZE >= 2 /\ Index = 0 .. WINDOW_SIZE
         /\ \A b \in prior : b.index \in 0 .. WINDOW_SIZE /\ b.index \in Nat
         /\ \A b \in prior : b.kind \in {"Pose", "SpeedBias"}
<1>1. WINDOW_SIZE \in Nat /\ WINDOW_SIZE >= 2 /\ Index = 0 .. WINDOW_SIZE /\ Index \subseteq Nat
  BY SizeAssumption DEF Index
<1>2. \A b \in prior : b \in [kind : {"Pose", "SpeedBias"}, index : Index, of : Frames]
  BY DEF TypeOK
<1> QED
  BY <1>1, <1>2

(* Marginalizing the oldest frame leaves a prior about the frames one      *)
(* index further, and no speed of the second newest.                       *)
LEMMA MarginOldPrior ==
  ASSUME TypeOK, AboutIn(prior, Headers, WINDOW_SIZE), NEW short \in BOOLEAN
  PROVE  /\ AboutIn(MarginOld(prior, short), [i \in 0 .. WINDOW_SIZE - 1 |-> Headers[i + 1]], WINDOW_SIZE)
         /\ NoSpeedOfSecondNew(MarginOld(prior, short))
<1> DEFINE imu == IF USE_IMU /\ short
                  THEN {Block(k, i, Headers[i]) : k \in {"Pose", "SpeedBias"}, i \in {0, 1}} ELSE {}
           all == prior \cup imu \cup SeenFromOldest
           H == [i \in 0 .. WINDOW_SIZE - 1 |-> Headers[i + 1]]
<1>1. MarginOld(prior, short) \subseteq {Block(b.kind, b.index - 1, b.of) : b \in {c \in all : c.index # 0}}
  BY DEF MarginOld
<1>2. PICK w \in Nat : w = WINDOW_SIZE /\ w >= 2 /\ Index = 0 .. w
  BY PriorBlocks
<1>3. ASSUME NEW b \in all
      PROVE  b.index \in 0 .. w /\ b.of = Headers[b.index] /\ (b.kind = "SpeedBias" => b.index < w)
  <2>1. CASE b \in prior
    BY <1>2, <2>1, PriorBlocks DEF AboutIn
  <2>2. CASE b \in imu
    <3>1. PICK k \in {"Pose", "SpeedBias"}, i \in {0, 1} : b = Block(k, i, Headers[i])
      BY <2>2
    <3>2. b.kind = k /\ b.index = i /\ b.of = Headers[i]
      BY <3>1 DEF Block
    <3>3. i \in 0 .. w /\ i < w
      BY <1>2
    <3> QED
      BY <3>2, <3>3
  <2>3. CASE b \in SeenFromOldest
    <3>1. PICK i \in Index : b = Block("Pose", i, Headers[i])
      BY <2>3 DEF SeenFromOldest
    <3> QED
      BY <1>2, <3>1 DEF Block
  <2> QED
    BY <2>1, <2>2, <2>3
<1> HIDE DEF imu, all
<1>4. ASSUME NEW c \in MarginOld(prior, short)
      PROVE  /\ c.index < WINDOW_SIZE /\ c.of = H[c.index]
             /\ ~(c.kind = "SpeedBias" /\ c.index = WINDOW_SIZE - 1)
  <2>1. PICK b \in all : b.index # 0 /\ c = Block(b.kind, b.index - 1, b.of)
    BY <1>1
  <2>2. c.kind = b.kind /\ c.index = b.index - 1 /\ c.of = b.of
    BY <2>1 DEF Block
  <2>3. PICK j \in 0 .. w : j = b.index /\ j # 0 /\ c.of = Headers[j] /\ (b.kind = "SpeedBias" => j < w)
    BY <1>3, <2>1, <2>2
  <2>4. j - 1 \in 0 .. w - 1 /\ (j - 1) + 1 = j /\ j - 1 < w /\ (j < w => j - 1 # w - 1)
    BY <2>3
  <2>5. H[j - 1] = Headers[j]
    BY <1>2, <2>4
  <2> QED
    BY <1>2, <2>2, <2>3, <2>4, <2>5
<1> QED
  BY <1>4 DEF AboutIn, NoSpeedOfSecondNew

(* Marginalizing the second newest frame leaves nothing at its index.      *)
LEMMA MarginNewPrior ==
  ASSUME TypeOK, AboutIn(prior, Headers, WINDOW_SIZE), NoSpeedOfSecondNew(prior)
  PROVE  /\ AboutIn(MarginSecondNew(prior), Headers, WINDOW_SIZE - 1)
         /\ NoSpeedOfSecondNew(MarginSecondNew(prior))
<1>1. PICK w \in Nat : w = WINDOW_SIZE /\ w >= 2
  BY PriorBlocks
<1>2. ASSUME NEW c \in MarginSecondNew(prior)
      PROVE  c \in prior /\ ~(c.kind = "Pose" /\ c.index = w - 1)
  <2>1. CASE \E b \in prior : b.kind = "Pose" /\ b.index = WINDOW_SIZE - 1
    <3>1. PICK b \in prior : /\ b.kind # "Pose" \/ b.index # WINDOW_SIZE - 1
                             /\ c = IF b.index = WINDOW_SIZE THEN Block(b.kind, WINDOW_SIZE - 1, b.of) ELSE b
      BY <2>1 DEF MarginSecondNew
    <3>2. b.index \in Nat /\ b.index < w
      BY <1>1, PriorBlocks DEF AboutIn
    <3>3. b.index # w
      BY <3>2
    <3> QED
      BY <1>1, <3>1, <3>3
  <2>2. CASE ~\E b \in prior : b.kind = "Pose" /\ b.index = WINDOW_SIZE - 1
    BY <1>1, <2>2 DEF MarginSecondNew
  <2> QED
    BY <2>1, <2>2
<1>3. ASSUME NEW c \in MarginSecondNew(prior)
      PROVE  c.index < w - 1 /\ c.of = Headers[c.index]
  <2>1. c \in prior /\ c.index < w /\ c.of = Headers[c.index] /\ c.index \in Nat
    BY <1>1, <1>2, PriorBlocks DEF AboutIn
  <2>2. c.kind \in {"Pose", "SpeedBias"}
    BY <2>1, PriorBlocks
  <2>3. c.index # w - 1
    BY <1>1, <1>2, <2>1, <2>2 DEF NoSpeedOfSecondNew
  <2> QED
    BY <2>1, <2>3
<1> QED
  BY <1>1, <1>2, <1>3 DEF AboutIn, NoSpeedOfSecondNew

LEMMA SolvePrior ==
  ASSUME TypeOK, TypeOK', FeatureInv, PriorInv, Initialize \/ Optimize
  PROVE  PriorInv'
<1>1. /\ stage = "added" /\ stage' \in {"slide", "clean"} /\ solver_flag' = "NON_LINEAR"
      /\ frame_count = WINDOW_SIZE /\ Headers' = Headers /\ marginalization_flag' = marginalization_flag
      /\ USE_IMU' = USE_IMU /\ reuse' = reuse
  BY DEF Initialize, Optimize, flags, sensors, FeatureInv, FullWindow
<1>2. SUFFICES ASSUME Live PROVE
        /\ NoSpeedOfSecondNew(prior')
        /\ marginalization_flag = "MARGIN_OLD" =>
             AboutIn(prior', [i \in 0 .. WINDOW_SIZE - 1 |-> Headers[i + 1]], WINDOW_SIZE)
        /\ marginalization_flag = "MARGIN_SECOND_NEW" => AboutIn(prior', Headers, WINDOW_SIZE - 1)
  <2>1. Live' = Live /\ stage' \notin {"idle"}
    BY <1>1 DEF Live
  <2> QED
    BY <1>1, <2>1 DEF PriorInv, AboutIn, NoSpeedOfSecondNew
<1>3. AboutIn(prior, Headers, WINDOW_SIZE) /\ NoSpeedOfSecondNew(prior)
  BY <1>1, <1>2 DEF PriorInv
<1>4. PICK short \in BOOLEAN : prior' = Marginalized(prior, short)
  BY <1>2 DEF Initialize, Optimize, Live
<1>5. ~(frame_count < WINDOW_SIZE)
  BY <1>1, PriorBlocks
<1>6. CASE marginalization_flag = "MARGIN_OLD"
  <2>1. prior' = MarginOld(prior, short)
    BY <1>4, <1>5, <1>6 DEF Marginalized
  <2> QED
    BY <1>3, <1>6, <2>1, MarginOldPrior
<1>7. CASE marginalization_flag = "MARGIN_SECOND_NEW"
  <2>1. prior' = MarginSecondNew(prior)
    BY <1>4, <1>5, <1>7 DEF Marginalized
  <2> QED
    BY <1>3, <1>7, <2>1, MarginNewPrior
<1> QED
  BY <1>6, <1>7 DEF TypeOK

LEMMA SlidePrior ==
  ASSUME TypeOK, TypeOK', FeatureInv, PriorInv, SlideOld \/ SlideNew
  PROVE  PriorInv'
<1>1. /\ stage \in {"slide", "clean"} /\ stage' = "idle" /\ prior' = prior
      /\ solver_flag' = solver_flag /\ USE_IMU' = USE_IMU /\ reuse' = reuse
  BY DEF SlideOld, SlideNew, FrameDone, flags, sensors
<1>2. PICK w \in Nat : w = WINDOW_SIZE /\ w >= 2 /\ Index = 0 .. w
  BY PriorBlocks
<1>3. ASSUME Live, NEW b \in prior
      PROVE  b.index < WINDOW_SIZE /\ b.of = Headers'[b.index]
  <2>1. b.index \in Nat
    BY PriorBlocks
  <2>2. CASE SlideOld
    <3>1. /\ Headers' = [i \in Index |-> IF i < WINDOW_SIZE THEN Headers[i + 1] ELSE Headers[i]]
          /\ b.index < WINDOW_SIZE
          /\ b.of = [i \in 0 .. WINDOW_SIZE - 1 |-> Headers[i + 1]][b.index]
      BY <1>1, <1>3, <2>2 DEF SlideOld, PriorInv, AboutIn
    <3>2. b.index \in 0 .. w - 1 /\ b.index \in 0 .. w
      BY <1>2, <2>1, <3>1
    <3> QED
      BY <1>2, <3>1, <3>2
  <2>3. CASE SlideNew
    <3>1. /\ Headers' = [Headers EXCEPT ![WINDOW_SIZE - 1] = Headers[WINDOW_SIZE]]
          /\ b.index < WINDOW_SIZE - 1 /\ b.of = Headers[b.index]
      BY <1>1, <1>3, <2>3 DEF SlideNew, PriorInv, AboutIn
    <3>2. b.index \in Index /\ b.index < w /\ b.index # w - 1
      BY <1>2, <2>1, <3>1
    <3> QED
      BY <1>2, <3>1, <3>2 DEF TypeOK
  <2> QED
    BY <2>2, <2>3
<1> QED
  BY <1>1, <1>3 DEF PriorInv, Live, AboutIn, NoSpeedOfSecondNew

LEMMA PriorStep ==
  ASSUME TypeOK, TypeOK', FeatureInv, PriorInv, [Next]_vars
  PROVE  PriorInv'
<1>1. CASE UNCHANGED vars \/ Undefined
  BY <1>1 DEF vars, Undefined, sensors, thread, flags, window, PriorInv, Live, AboutIn, NoSpeedOfSecondNew
<1>2. CASE ClearState
  <2>1. prior' = {}
    BY <1>2 DEF ClearState
  <2> QED
    BY <2>1 DEF PriorInv, AboutIn, NoSpeedOfSecondNew
<1>3. CASE AddFeatures
  <2>1. /\ stage = "integrated" /\ stage' = "added" /\ prior' = prior /\ solver_flag' = solver_flag
        /\ USE_IMU' = USE_IMU /\ reuse' = reuse
        /\ Headers' = [Headers EXCEPT ![frame_count] = taken.t]
    BY <1>3 DEF AddFeatures, sensors
  <2>2. CASE solver_flag = "INITIAL"
    BY <2>1, <2>2 DEF PriorInv, AboutIn, NoSpeedOfSecondNew
  <2>3. CASE solver_flag = "NON_LINEAR"
    <3>1. frame_count = WINDOW_SIZE
      BY <2>3 DEF FeatureInv, FullWindow
    <3>2. ASSUME NEW b \in prior, b.index < WINDOW_SIZE PROVE Headers'[b.index] = Headers[b.index]
      <4>1. b.index \in Index /\ b.index # frame_count
        BY <3>1, <3>2, PriorBlocks
      <4> QED
        BY <2>1, <4>1 DEF TypeOK
    <3> QED
      BY <2>1, <2>3, <3>2 DEF PriorInv, Live, AboutIn, NoSpeedOfSecondNew
  <2> QED
    BY <2>2, <2>3 DEF TypeOK
<1>4. CASE ChangeSensorType
  <2>1. /\ prior' = prior \/ prior' = {}
        /\ stage \notin Locked /\ stage' = stage /\ solver_flag' = solver_flag /\ Headers' = Headers
    BY <1>4 DEF ChangeSensorType, thread, flags
  <2>2. ~ClearState => (Live' => Live)
    BY <1>4, LiveBefore
  <2> QED
    BY <1>2, <2>1, <2>2 DEF PriorInv, AboutIn, NoSpeedOfSecondNew, InHand, Locked
<1>5. CASE InputImage \/ CopyFrame \/ NoFrameYet \/ PopFrame \/ ProcessIMU \/ Grow
  <2>1. /\ prior' = prior /\ Headers' = Headers /\ solver_flag' = solver_flag
        /\ USE_IMU' = USE_IMU /\ reuse' = reuse
        /\ marginalization_flag' = marginalization_flag
        /\ stage' \in {"slide", "clean"} => stage' = stage
        /\ stage \in {"slide", "clean"} => stage' = stage
    BY <1>5 DEF InputImage, CopyFrame, NoFrameYet, PopFrame, ProcessIMU, Grow, sensors, flags, window
  <2> QED
    BY <2>1 DEF PriorInv, Live, AboutIn, NoSpeedOfSecondNew
<1>6. CASE NotInitialized
  <2>1. prior' = prior /\ solver_flag = "INITIAL"
    BY <1>6 DEF NotInitialized, window
  <2> QED
    BY <2>1 DEF PriorInv, AboutIn, NoSpeedOfSecondNew
<1>7. CASE Restart \/ ReuseImu
  BY <1>2, <1>7 DEF Restart, ReuseImu
<1> QED
  BY <1>1, <1>3, <1>4, <1>5, <1>6, <1>7, SolvePrior, SlidePrior DEF Next

LEMMA ImuFacts ==
  ASSUME TypeOK
  PROVE  /\ WINDOW_SIZE \in Nat /\ WINDOW_SIZE >= 2 /\ Index = 0 .. WINDOW_SIZE
         /\ frame_count \in Nat /\ frame_count <= WINDOW_SIZE /\ frame_count \in Index
         /\ Headers \in [Index -> Frames]
         /\ pre_integrations \in [Index -> [from : Frames, to : Frames]]
<1>1. WINDOW_SIZE \in Nat /\ WINDOW_SIZE >= 2 /\ Index = 0 .. WINDOW_SIZE
  BY SizeAssumption DEF Index
<1> QED
  BY <1>1 DEF TypeOK

(* The IMU between the frame before and this one.                          *)
LEMMA ProcessImu ==
  ASSUME TypeOK, TypeOK', ImuInv, ProcessIMU
  PROVE  ImuInv'
<1>1. /\ stage = "taken" /\ stage' = "integrated" /\ taken' = taken /\ prevTime' = prevTime
      /\ frame_count' = frame_count /\ Headers' = Headers /\ USE_IMU' = USE_IMU /\ reuse' = reuse
      /\ cut' = cut
  BY DEF ProcessIMU, cleared, sensors, flags
<1>2. SUFFICES ASSUME Live PROVE ImuInv'
  BY <1>1 DEF ImuInv, Live
<1>3. PICK fc \in Nat : fc = frame_count /\ fc \in Index
  BY ImuFacts
<1>4. Newest = fc - 1 /\ Newest' = fc - 1
  BY <1>1, <1>3 DEF Newest, InHand, Locked
<1>5. PICK start : start = IF fc = 0 THEN taken.t
                           ELSE IF pre_integrations[fc].from = pre_integrations[fc].to THEN prevTime
                           ELSE pre_integrations[fc].from
  OBVIOUS
<1>6. \/ pre_integrations' = pre_integrations
      \/ pre_integrations' = [pre_integrations EXCEPT ![fc] = [from |-> start, to |-> taken.t]]
  BY <1>3, <1>5 DEF ProcessIMU
<1>7. fc >= 1 => pre_integrations' = [pre_integrations EXCEPT ![fc] = [from |-> start, to |-> taken.t]]
  <2>1. fc >= 1 => USE_IMU /\ taken.imu
    BY <1>1, <1>2, <1>3 DEF ImuInv, NextImu, Live, InHand, Locked
  <2> QED
    BY <1>3, <1>5, <2>1 DEF ProcessIMU
<1>8. fc >= 1 => start = Clock(cut, Headers[fc - 1])
  <2>1. ASSUME fc >= 1 PROVE /\ prevTime = Clock(cut, Headers[fc - 1])
                             /\ pre_integrations[fc].from = pre_integrations[fc].to
    BY <1>1, <1>2, <1>3, <2>1 DEF ImuInv, NextImu, Locked
  <2>2. fc >= 1 => fc # 0
    OBVIOUS
  <2> QED
    BY <1>5, <2>1, <2>2
<1>9. ASSUME NEW i \in Index, i # fc PROVE pre_integrations'[i] = pre_integrations[i]
  BY <1>6, <1>9, ImuFacts
<1>10. fc >= 1 => pre_integrations'[fc] = [from |-> Clock(cut, Headers[fc - 1]), to |-> taken.t]
  BY <1>3, <1>7, <1>8, ImuFacts
<1>11. \A i \in 1 .. fc - 1 : pre_integrations'[i] = [from |-> Clock(cut, Headers[i - 1]), to |-> Headers[i]]
  <2>1. \A i \in 1 .. fc - 1 : i \in Index /\ i # fc
    BY <1>3, ImuFacts
  <2>2. \A i \in 1 .. fc - 1 : pre_integrations[i] = [from |-> Clock(cut, Headers[i - 1]), to |-> Headers[i]]
    BY <1>2, <1>4 DEF ImuInv
  <2> QED
    BY <1>9, <2>1, <2>2
<1>12. \A i \in Index : i > fc => pre_integrations'[i] = NoImu
  <2>1. \A i \in Index : i > fc => i # fc /\ pre_integrations[i] = NoImu
    BY <1>2, <1>3 DEF ImuInv
  <2> QED
    BY <1>9, <2>1
<1>13. fc >= 1 => NextImu'
  <2>1. ASSUME fc >= 1 PROVE prevTime = Clock(cut, Headers[fc - 1])
    BY <1>1, <1>2, <1>3, <2>1 DEF ImuInv, NextImu, InHand, Locked
  <2> QED
    BY <1>1, <1>3, <1>10, <2>1 DEF NextImu
<1> QED
  BY <1>1, <1>3, <1>4, <1>11, <1>12, <1>13 DEF ImuInv

LEMMA AddImu ==
  ASSUME TypeOK, TypeOK', ImuInv, AddFeatures
  PROVE  ImuInv'
<1>1. /\ stage = "integrated" /\ stage' = "added" /\ taken' = taken
      /\ frame_count' = frame_count /\ USE_IMU' = USE_IMU /\ reuse' = reuse
      /\ pre_integrations' = pre_integrations /\ Headers' = [Headers EXCEPT ![frame_count] = taken.t]
      /\ cut' = cut
  BY DEF AddFeatures, cleared, sensors
<1>2. SUFFICES ASSUME Live PROVE ImuInv'
  BY <1>1 DEF ImuInv, Live
<1>3. PICK fc \in Nat : fc = frame_count /\ fc \in Index /\ fc <= WINDOW_SIZE
  BY ImuFacts
<1>4. Newest = fc - 1 /\ Newest' = fc
  BY <1>1, <1>3 DEF Newest, InHand, Locked
<1>5. Headers'[fc] = taken.t /\ \A i \in Index : i # fc => Headers'[i] = Headers[i]
  BY <1>1, <1>3, ImuFacts
<1>6. ASSUME NEW i \in 1 .. fc
      PROVE  pre_integrations[i] = [from |-> Clock(cut, Headers'[i - 1]), to |-> Headers'[i]]
  <2>1. i - 1 \in Index /\ i - 1 # fc /\ i \in Index
    BY <1>3, ImuFacts
  <2>2. Headers'[i - 1] = Headers[i - 1]
    BY <1>5, <2>1
  <2>3. CASE i = fc
    <3>1. fc >= 1
      BY <2>3
    <3>2. pre_integrations[fc] = [from |-> Clock(cut, Headers[fc - 1]), to |-> taken.t]
      BY <1>1, <1>2, <1>3, <3>1 DEF ImuInv, NextImu, InHand, Locked
    <3> QED
      BY <1>5, <2>2, <2>3, <3>2
  <2>4. CASE i # fc
    <3>1. i \in 1 .. fc - 1
      BY <2>4
    <3>2. pre_integrations[i] = [from |-> Clock(cut, Headers[i - 1]), to |-> Headers[i]]
      BY <1>2, <1>4, <3>1 DEF ImuInv
    <3> QED
      BY <1>5, <2>1, <2>2, <2>4, <3>2
  <2> QED
    BY <2>3, <2>4
<1>7. NextImu'
  BY <1>1 DEF NextImu, InHand, Locked
<1> QED
  BY <1>1, <1>2, <1>3, <1>4, <1>6, <1>7 DEF ImuInv

LEMMA SolveImu ==
  ASSUME TypeOK, TypeOK', FeatureInv, CutFirst, ImuInv, Grow \/ NotInitialized \/ Initialize \/ Optimize
  PROVE  ImuInv'
<1>1. /\ stage = "added" /\ Headers' = Headers /\ pre_integrations' = pre_integrations
      /\ USE_IMU' = USE_IMU /\ reuse' = reuse /\ cut' = cut /\ curTime = Clock(cut, taken.t)
  BY DEF Grow, NotInitialized, Initialize, Optimize, cleared, window, sensors, CutFirst, Locked
<1>2. SUFFICES ASSUME Live PROVE ImuInv'
  BY <1>1 DEF ImuInv, Live
<1>3. PICK fc \in Nat : fc = frame_count /\ fc \in Index /\ fc <= WINDOW_SIZE
  BY ImuFacts
<1>4. Newest = fc
  BY <1>1, <1>3 DEF Newest, InHand, Locked
<1>5. /\ \A i \in 1 .. fc : pre_integrations[i] = [from |-> Clock(cut, Headers[i - 1]), to |-> Headers[i]]
      /\ \A i \in Index : i > fc => pre_integrations[i] = NoImu
  BY <1>2, <1>3, <1>4 DEF ImuInv
<1>6. CASE Grow
  <2>1. /\ stage' = "idle" /\ frame_count' = fc + 1 /\ prevTime' = curTime /\ fc < WINDOW_SIZE
    BY <1>3, <1>6 DEF Grow
  <2>2. Newest' = (fc + 1) - 1 /\ (fc + 1) - 1 = fc
    BY <2>1 DEF Newest, InHand, Locked
  <2>3. Headers[fc] = taken.t
    BY <1>1, <1>3 DEF FeatureInv, HeaderOfTaken, Locked
  <2>4. fc + 1 \in Index /\ fc + 1 > fc
    BY <1>3, <2>1, ImuFacts
  <2>5. \A i \in Index : i > fc + 1 => pre_integrations[i] = NoImu
    <3>1. \A i \in Index : i > fc + 1 => i > fc
      BY ImuFacts
    <3> QED
      BY <1>5, <3>1
  <2>6. NextImu'
    <3>1. pre_integrations[fc + 1].from = pre_integrations[fc + 1].to
      BY <1>5, <2>4 DEF NoImu
    <3> QED
      BY <1>1, <2>1, <2>2, <2>3, <3>1 DEF NextImu
  <2> QED
    BY <1>1, <1>5, <2>1, <2>2, <2>5, <2>6 DEF ImuInv
<1>7. CASE NotInitialized \/ Initialize \/ Optimize
  <2>1. stage' \in {"slide", "clean"} /\ frame_count' = fc
    BY <1>3, <1>7 DEF NotInitialized, Initialize, Optimize, flags
  <2>2. Newest' = fc
    BY <2>1 DEF Newest, InHand, Locked
  <2>3. NextImu'
    BY <2>1 DEF NextImu, InHand, Locked
  <2> QED
    BY <1>1, <1>5, <2>1, <2>2, <2>3 DEF ImuInv
<1> QED
  BY <1>6, <1>7

LEMMA SlideOldImu ==
  ASSUME TypeOK, TypeOK', FeatureInv, CutFirst, ImuInv, SlideOld
  PROVE  ImuInv'
<1>1. /\ stage \in {"slide", "clean"} /\ stage' = "idle" /\ frame_count' = frame_count
      /\ USE_IMU' = USE_IMU /\ reuse' = reuse /\ cut' = cut
      /\ prevTime' = curTime /\ curTime = Clock(cut, taken.t)
      /\ Headers' = [i \in Index |-> IF i < WINDOW_SIZE THEN Headers[i + 1] ELSE Headers[i]]
  BY DEF SlideOld, FrameDone, cleared, flags, sensors, CutFirst, Locked
<1>2. SUFFICES ASSUME Live PROVE ImuInv'
  BY <1>1 DEF ImuInv, Live
<1>3. PICK w \in Nat : /\ w = WINDOW_SIZE /\ w >= 2 /\ frame_count = w /\ Newest = w /\ Index = 0 .. w
                       /\ Headers[w] = taken.t
  BY <1>1, SlideFacts
<1>4. Newest' = w - 1
  BY <1>1, <1>3 DEF Newest, InHand, Locked
<1>5. pre_integrations' =
        [i \in Index |-> IF i < WINDOW_SIZE THEN pre_integrations[i + 1] ELSE [from |-> taken.t, to |-> taken.t]]
  BY <1>2 DEF SlideOld, Live
<1>6. \A i \in 1 .. w : pre_integrations[i] = [from |-> Clock(cut, Headers[i - 1]), to |-> Headers[i]]
  BY <1>2, <1>3 DEF ImuInv
<1>7. ASSUME NEW i \in 0 .. w - 1
      PROVE  Headers'[i] = Headers[i + 1] /\ pre_integrations'[i] = pre_integrations[i + 1]
  <2>1. i \in Index /\ i < WINDOW_SIZE
    BY <1>3
  <2> QED
    BY <1>1, <1>5, <2>1
<1>8. ASSUME NEW i \in 1 .. w - 1
      PROVE  pre_integrations'[i] = [from |-> Clock(cut, Headers'[i - 1]), to |-> Headers'[i]]
  <2>1. i \in 0 .. w - 1 /\ i - 1 \in 0 .. w - 1 /\ i + 1 \in 1 .. w /\ (i + 1) - 1 = i /\ (i - 1) + 1 = i
    OBVIOUS
  <2>2. pre_integrations[i + 1] = [from |-> Clock(cut, Headers[i]), to |-> Headers[i + 1]]
    BY <1>6, <2>1
  <2> QED
    BY <1>7, <2>1, <2>2
<1>9. \A i \in Index : ~(i > w)
  BY <1>3
<1>10. NextImu'
  <2>1. Headers'[w - 1] = taken.t
    <3>1. w - 1 \in 0 .. w - 1 /\ (w - 1) + 1 = w
      BY <1>3
    <3> QED
      BY <1>3, <1>7, <3>1
  <2>2. pre_integrations'[w] = [from |-> taken.t, to |-> taken.t]
    <3>1. w \in Index /\ ~(w < WINDOW_SIZE)
      BY <1>3
    <3> QED
      BY <1>5, <3>1
  <2> QED
    BY <1>1, <1>3, <2>1, <2>2 DEF NextImu
<1> QED
  BY <1>1, <1>3, <1>4, <1>8, <1>9, <1>10 DEF ImuInv

LEMMA SlideNewImu ==
  ASSUME TypeOK, TypeOK', FeatureInv, CutFirst, ImuInv, SlideNew
  PROVE  ImuInv'
<1>1. /\ stage \in {"slide", "clean"} /\ stage' = "idle" /\ frame_count' = frame_count
      /\ USE_IMU' = USE_IMU /\ reuse' = reuse /\ cut' = cut
      /\ prevTime' = curTime /\ curTime = Clock(cut, taken.t)
      /\ Headers' = [Headers EXCEPT ![WINDOW_SIZE - 1] = Headers[WINDOW_SIZE]]
  BY DEF SlideNew, FrameDone, cleared, flags, sensors, CutFirst, Locked
<1>2. SUFFICES ASSUME Live PROVE ImuInv'
  BY <1>1 DEF ImuInv, Live
<1>3. PICK w \in Nat : /\ w = WINDOW_SIZE /\ w >= 2 /\ frame_count = w /\ Newest = w /\ Index = 0 .. w
                       /\ Headers[w] = taken.t
  BY <1>1, SlideFacts
<1>4. Newest' = w - 1
  BY <1>1, <1>3 DEF Newest, InHand, Locked
<1>5. \A i \in 1 .. w : pre_integrations[i] = [from |-> Clock(cut, Headers[i - 1]), to |-> Headers[i]]
  BY <1>2, <1>3 DEF ImuInv
<1>6. PICK m, e : m = Merged /\ e = [from |-> taken.t, to |-> taken.t]
  OBVIOUS
<1>7. pre_integrations' = [pre_integrations EXCEPT ![w - 1] = m, ![w] = e]
  BY <1>2, <1>3, <1>6 DEF SlideNew, Live
<1>8. w \in Index /\ w - 1 \in Index /\ w - 1 # w /\ w - 1 \in 1 .. w /\ w \in 1 .. w
  BY <1>3
<1>9. /\ pre_integrations'[w] = e /\ pre_integrations'[w - 1] = m
      /\ \A i \in Index : i # w /\ i # w - 1 => pre_integrations'[i] = pre_integrations[i]
  BY <1>7, <1>8, ImuFacts
<1>10. Headers'[w - 1] = Headers[w] /\ \A i \in Index : i # w - 1 => Headers'[i] = Headers[i]
  BY <1>1, <1>3, <1>8, ImuFacts
<1>11. m = [from |-> Clock(cut, Headers[w - 2]), to |-> Headers[w]]
  <2>1. /\ pre_integrations[w - 1] = [from |-> Clock(cut, Headers[(w - 1) - 1]), to |-> Headers[w - 1]]
        /\ pre_integrations[w] = [from |-> Clock(cut, Headers[w - 1]), to |-> Headers[w]]
    BY <1>5, <1>8
  <2>2. (w - 1) - 1 = w - 2
    OBVIOUS
  <2>3. m = [from |-> pre_integrations[w - 1].from, to |-> pre_integrations[w].to]
    BY <1>3, <1>6 DEF Merged
  <2> QED
    BY <2>1, <2>2, <2>3
<1>12. ASSUME NEW i \in 1 .. w - 1
       PROVE  pre_integrations'[i] = [from |-> Clock(cut, Headers'[i - 1]), to |-> Headers'[i]]
  <2>1. i \in Index /\ i - 1 \in Index /\ i - 1 # w - 1 /\ i # w /\ i \in 1 .. w
    BY <1>3
  <2>2. Headers'[i - 1] = Headers[i - 1]
    BY <1>10, <2>1
  <2>3. CASE i = w - 1
    <3>1. i - 1 = w - 2
      BY <2>3
    <3> QED
      BY <1>9, <1>10, <1>11, <2>2, <2>3, <3>1
  <2>4. CASE i # w - 1
    BY <1>5, <1>9, <1>10, <2>1, <2>2, <2>4
  <2> QED
    BY <2>3, <2>4
<1>13. \A i \in Index : ~(i > w)
  BY <1>3
<1>14. NextImu'
  BY <1>1, <1>3, <1>6, <1>9, <1>10 DEF NextImu
<1> QED
  BY <1>1, <1>3, <1>4, <1>12, <1>13, <1>14 DEF ImuInv

LEMMA ImuStep ==
  ASSUME TypeOK, TypeOK', FeatureInv, CutFirst, ImuInv, [Next]_vars
  PROVE  ImuInv'
<1>1. CASE UNCHANGED vars \/ Undefined
  <2>1. UNCHANGED <<stage, taken, prevTime, cut, frame_count, Headers, pre_integrations, USE_IMU, reuse>>
    BY <1>1 DEF vars, Undefined, cleared, sensors, thread, flags, window
  <2>2. Newest' = Newest /\ Live' = Live /\ NextImu' = NextImu
    BY <2>1 DEF Newest, Live, NextImu
  <2> QED
    BY <2>1, <2>2 DEF ImuInv
<1>2. CASE ClearState
  <2>1. /\ frame_count' = 0 /\ pre_integrations' = [i \in Index |-> NoImu] /\ stage' = stage
        /\ stage \notin Locked
    BY <1>2 DEF ClearState
  <2>2. Newest' = 0 - 1
    BY <2>1 DEF Newest
  <2>3. 1 .. (0 - 1) = {} /\ ~(0 >= 1)
    OBVIOUS
  <2> QED
    BY <2>1, <2>2, <2>3 DEF ImuInv
<1>3. CASE InputImage \/ CopyFrame \/ NoFrameYet \/ PopFrame \/ ChangeSensorType
  <2>1. /\ frame_count' = frame_count /\ Headers' = Headers /\ pre_integrations' = pre_integrations
        /\ prevTime' = prevTime /\ cut' = cut
        /\ \/ stage' = stage /\ taken' = taken
           \/ stage' \in {"idle", "call", "copied"} /\ stage \in {"idle", "call"}
           \/ stage' = "taken" /\ stage = "copied"
    BY <1>3 DEF InputImage, CopyFrame, NoFrameYet, PopFrame, ChangeSensorType, cleared, thread, flags, window
  <2>2. CASE ClearState
    BY <1>2, <2>2
  <2>3. CASE ~ClearState /\ Live'
    <3>1. Live
      BY <1>3, <2>3, LiveBefore
    <3>2. Newest' = Newest
      BY <2>1 DEF Newest, Locked
    <3>3. ASSUME frame_count >= 1, stage' \notin Locked PROVE NextImu'
      <4>1. NextImu /\ USE_IMU
        BY <3>1, <3>3 DEF ImuInv, Live
      <4>2. stage \notin Locked
        BY <2>1, <3>3 DEF Locked
      <4>3. stage' = "taken" => taken'.imu
        <5>1. CASE stage' = stage /\ taken' = taken
          BY <4>1, <4>2, <5>1 DEF NextImu
        <5>2. CASE stage' = "taken" /\ stage = "copied"
          <6>1. PopFrame
            BY <1>3, <5>2 DEF InputImage, CopyFrame, NoFrameYet, ChangeSensorType, thread
          <6>2. curTime # 0
            <7>1. curTime = Clock(cut, taken.t) /\ cut < taken.t
              BY <3>3, <5>2 DEF CutFirst, InHand
            <7> QED
              BY <7>1, CutNumbers DEF Clock
          <6>3. PICK imu \in {USE_IMU} : taken' = [taken EXCEPT !.imu = imu]
            BY <6>1, <6>2 DEF PopFrame
          <6> QED
            BY <4>1, <6>3 DEF TypeOK
        <5> QED
          BY <2>1, <5>1, <5>2
      <4>4. /\ prevTime = Clock(cut, Headers[frame_count - 1])
            /\ stage' # "integrated" =>
                 pre_integrations[frame_count].from = pre_integrations[frame_count].to
            /\ stage' = "integrated" =>
                 /\ taken' = taken
                 /\ pre_integrations[frame_count] = [from |-> Clock(cut, Headers[frame_count - 1]), to |-> taken.t]
        BY <2>1, <4>1, <4>2 DEF NextImu
      <4> QED
        BY <2>1, <4>3, <4>4 DEF NextImu
    <3>4. stage' \in Locked => NextImu'
      BY DEF NextImu
    <3> QED
      BY <2>1, <3>1, <3>2, <3>3, <3>4 DEF ImuInv
  <2>4. CASE ~Live'
    BY <2>4 DEF ImuInv
  <2> QED
    BY <2>2, <2>3, <2>4
<1>4. CASE Restart \/ ReuseImu
  BY <1>2, <1>4 DEF Restart, ReuseImu
<1> QED
  BY <1>1, <1>3, <1>4, ProcessImu, AddImu, SolveImu, SlideOldImu, SlideNewImu DEF Next

-----------------------------------------------------------------------------
(* The inductive invariant and the theorems.                               *)

IInv == TypeOK /\ FeatureInv /\ ImagesInv /\ CutFirst /\ PriorInv /\ ImuInv

LEMMA InitInv == Init => IInv
<1> SUFFICES ASSUME Init PROVE IInv
  OBVIOUS
<1>1. TypeOK
  BY InitType
<1>2. /\ feature = <<>> /\ featureBuf = <<>> /\ ids = {} /\ n_id = 0 /\ stage = "idle"
      /\ frame_count = 0 /\ solver_flag = "INITIAL" /\ all_image_frame = {} /\ freed = {} /\ prior = {}
      /\ pre_integrations = [i \in Index |-> NoImu] /\ cut = 0 /\ pushed = 0
  BY DEF Init
<1>3. Newest = 0 - 1 /\ 0 .. (0 - 1) = {} /\ 1 .. (0 - 1) = {} /\ ~(0 >= 1)
  BY <1>2 DEF Newest, InHand, Locked
<1>4. DOMAIN feature = {} /\ DOMAIN featureBuf = {}
  BY <1>1, <1>2, BufferFacts
<1>5. Buffered + 1 = 1 /\ DOMAIN ToCome = {1} /\ ToCome[1] = {}
  <2>1. Ahead = 0 /\ Len(featureBuf) = 0
    BY <1>2, EmptySeq DEF Ahead, InHand
  <2>2. Buffered + 1 = 1
    BY <2>1 DEF Buffered
  <2> QED
    BY <1>1, <1>2, <2>2, ToComeParts
<1>6. NamesKnown /\ Steady /\ LostForGood /\ ObservationsAligned
  BY <1>4, <1>5 DEF NamesKnown, Steady, LostForGood, ObservationsAligned
<1>7. FullWindow /\ HeaderOfTaken
  BY <1>2 DEF FullWindow, HeaderOfTaken, InHand, Locked
<1>8. ImagesInv
  BY <1>2, <1>3, <1>4 DEF ImagesInv, FramesInOrder, ImagesInOrder, ImagesExact, InHand, Locked
<1>9. PriorInv
  BY <1>2 DEF PriorInv, AboutIn, NoSpeedOfSecondNew
<1>10. ImuInv
  BY <1>2, <1>3 DEF ImuInv
<1>11. CutFirst
  BY <1>2, <1>3, <1>4 DEF CutFirst, InHand, Locked
<1> QED
  BY <1>1, <1>6, <1>7, <1>8, <1>9, <1>10, <1>11 DEF FeatureInv, IInv

LEMMA NextInv == IInv /\ [Next]_vars => IInv'
<1> SUFFICES ASSUME IInv, [Next]_vars PROVE IInv'
  OBVIOUS
<1>1. TypeOK /\ FeatureInv /\ ImagesInv /\ CutFirst /\ PriorInv /\ ImuInv
  BY DEF IInv
<1>2. TypeOK'
  BY <1>1, TypeStep
<1>3. FeatureInv'
  BY <1>1, <1>2, FeatureStep
<1>4. ImagesInv'
  BY <1>1, <1>2, ImagesStep
<1>5. PriorInv'
  BY <1>1, <1>2, PriorStep
<1>6. ImuInv'
  BY <1>1, <1>2, ImuStep
<1>7. CutFirst'
  BY <1>1, <1>2, CutStep
<1> QED
  BY <1>2, <1>3, <1>4, <1>5, <1>6, <1>7 DEF IInv

LEMMA Invariance == Spec => []IInv
  BY InitInv, NextInv, PTL DEF Spec

(* Every variable keeps its type: no start_frame and no block of the prior *)
(* leaves the window, and every image marked as freed is still there.      *)
THEOREM TypeCorrect == Spec => []TypeOK
<1>1. IInv => TypeOK
  BY DEF IInv
<1> QED
  BY <1>1, Invariance, PTL

(* addFeatureCheckParallax, removeBack and removeFront keep the k-th       *)
(* observation of a feature the one of frame start_frame + k.              *)
THEOREM Aligned == Spec => []ObservationsAligned
<1>1. IInv => ObservationsAligned
  BY DEF IInv, FeatureInv
<1> QED
  BY <1>1, Invariance, PTL

(* A name that the tracker has lost does not come back, not from a frame   *)
(* that waits either.                                                      *)
THEOREM LostStaysLost == Spec => []LostForGood
<1>1. IInv => LostForGood
  BY DEF IInv, FeatureInv
<1> QED
  BY <1>1, Invariance, PTL

(* Both marginalizations leave a prior about the window that slideWindow   *)
(* makes, and none about the speed of the second newest frame.             *)
THEOREM PriorIsAligned == Spec => []PriorAligned
<1>1. IInv => PriorAligned
  <2> SUFFICES ASSUME IInv, USE_IMU /\ ~reuse, stage \notin {"slide", "clean"}, NEW b \in prior
               PROVE  /\ b.index < WINDOW_SIZE /\ b.of = Headers[b.index]
                      /\ ~(b.kind = "SpeedBias" /\ b.index = WINDOW_SIZE - 1)
    BY DEF PriorAligned
  <2> QED
    BY DEF IInv, PriorInv, Live, AboutIn, NoSpeedOfSecondNew
<1> QED
  BY <1>1, Invariance, PTL

(* The pre-integrations connect the frames of the window, whatever was     *)
(* slid, merged or switched; after a restart, all but the one that starts  *)
(* at the frame clearState found in hand, which starts at time 0.          *)
THEOREM ImuConnects == Spec => []ImuConnectsFrames
<1>1. IInv => ImuConnectsFrames
  BY DEF IInv, ImuInv, CutFirst, Clock, Live, ImuConnectsFrames
<1> QED
  BY <1>1, Invariance, PTL

(* While no switch turns the second camera on, the images for the          *)
(* initialization cover the window, and are exactly it for two cameras.    *)
THEOREM ImagesCover == ASSUME "cam" \notin Switches PROVE Spec => []ImagesCoverWindow
<1>1. IInv => ImagesCoverWindow
  <2> SUFFICES ASSUME IInv PROVE ImagesCoverWindow
    OBVIOUS
  <2>1. ImagesInOrder /\ ImagesExact /\ TypeOK
    BY DEF IInv, ImagesInv
  <2>2. PICK n \in Int : n = Newest
    BY <2>1, BufferFacts DEF Newest
  <2>3. \A i \in 1 .. n : i - 1 \in 0 .. n /\ i \in 0 .. n /\ i - 1 < i
    OBVIOUS
  <2>4. \A i \in 1 .. Newest : Headers[i - 1] < Headers[i]
    BY <2>1, <2>2, <2>3 DEF ImagesInOrder
  <2>5. ASSUME stage = "added", solver_flag = "INITIAL", STEREO, frame_count = WINDOW_SIZE
        PROVE  all_image_frame = {Headers[i] : i \in Index}
    <3>1. Index = 0 .. Newest
      BY <2>5 DEF Newest, InHand, Locked, Index
    <3>2. \A i \in Index : Headers[i] \in all_image_frame
      BY <2>1, <3>1 DEF ImagesInOrder
    <3>3. \A t \in all_image_frame : \E i \in Index : Headers[i] = t
      BY <2>1, <2>5, <3>1 DEF ImagesExact
    <3> QED
      BY <3>2, <3>3
  <2> QED
    BY <2>1, <2>4, <2>5 DEF ImagesInOrder, ImagesCoverWindow
<1> QED
  BY <1>1, Invariance, PTL
=============================================================================
