-------------------------- MODULE VinsBuffersProofs --------------------------
(***************************************************************************)
(* Proofs about VinsBuffers for every rate of the images, every skew of    *)
(* the sensors and every number of restarts, with and without a thread.    *)
(*                                                                         *)
(* The data a frame takes are complete because the images stay ordered     *)
(* from one queue to the next: the frame before is older than the frame in *)
(* hand, so nothing a frame drops is wanted later; clearState empties      *)
(* accBuf before it sets the clocks back, and no datum arrives in between. *)
(* The odometry moves forward because accBuf ends with the newest datum,   *)
(* and is empty only while the estimator is cleared or not initialized.    *)
(***************************************************************************)
EXTENDS VinsBuffers, SequenceTheorems, TLAPS

Increasing(s) == \A j, k \in DOMAIN s : j < k => s[j] < s[k]

(* accBuf is in order and ends with the newest datum; what a frame took is *)
(* not newer.                                                              *)
ImuOrdered ==
  /\ Increasing(accBuf)
  /\ \A k \in DOMAIN accBuf : accBuf[k] <= stampImu
  /\ accBuf # <<>> => Last(accBuf) = stampImu
  /\ accVector # <<>> => Last(accVector) <= stampImu

PredictsNewest == latest_time <= stampImu /\ predicting \in {0, stampImu}

(* clearState empties accBuf, and nothing arrives until it is done.        *)
ClearedFirst ==
  clearing # "no" => accBuf = <<>> /\ imu = {} /\ predicting = 0 /\ pc # "ready" /\ restarts > 0

(* Only a restart empties accBuf, and no frame is counted until the next   *)
(* datum.                                                                  *)
EmptyWhileInitial ==
  accBuf = <<>> /\ clearing = "no" =>
    /\ solver_flag = "INITIAL" /\ pc # "ready"
    /\ pc \in {"pop", "interval", "frame", "imu"} => frames = 0

(* Where the frame is in hand, and where it is in featureBuf besides.      *)
BeforePop == {"copied", "pop", "interval", "frame"}
InHand    == BeforePop \cup {"imu"}

(* The frames handed over, and those and the image in hand.                *)
Handed == {feature, curTime, prevTime} \cup {featureBuf[k] : k \in DOMAIN featureBuf}
Taken  == Handed \cup {image}

(* Each image is older than those that are in a queue before it.           *)
ImagesOrdered ==
  /\ Increasing(img0_buf)
  /\ \A k \in DOMAIN img0_buf : img0_buf[k] <= stamp0
  /\ \A t \in Taken : t <= stamp0 /\ \A k \in DOMAIN img0_buf : t < img0_buf[k]
  /\ image # 0 => \A t \in Handed : t < image
  /\ ~MULTIPLE_THREAD /\ image # 0 => pc = "idle"

(* The frame before is older than the frame in hand, and that is older     *)
(* than those that wait, once it is popped.                                *)
FramesOrdered ==
  /\ Increasing(featureBuf)
  /\ \A k \in DOMAIN featureBuf :
       /\ prevTime < featureBuf[k] /\ feature <= featureBuf[k]
       /\ pc \notin BeforePop => feature < featureBuf[k]
  /\ pc \in InHand => prevTime < feature

(* curTime is that of the frame in hand, unless clearState set it and      *)
(* prevTime back.                                                          *)
ClockSet ==
  pc \in InHand => curTime = feature \/ (curTime = 0 /\ prevTime = 0 /\ restarts > 0)

(* The data newer than the last frame are in accBuf.                       *)
DataKept ==
  \A t \in imu :
    /\ t > 0
    /\ (IF pc \in {"frame", "imu"} THEN curTime <= t ELSE prevTime < t) => \E k \in DOMAIN accBuf : accBuf[k] = t

(* What was checked without a lock still holds, without a restart.         *)
StillThere ==
  restarts = 0 =>
    /\ pc = "front" => featureBuf # <<>>
    /\ pc \in {"pop", "interval"} => accBuf # <<>> /\ feature <= Last(accBuf)

(* What a frame took is complete from the moment it took it.               *)
Complete ==
  \/ accVector = <<>> /\ restarts > 0
  \/ /\ accVector # <<>> /\ Last(accVector) >= feature
     /\ \A t \in imu : prevTime < t /\ t < feature => \E k \in DOMAIN accVector : accVector[k] = t
     /\ restarts = 0 => accBuf # <<>> /\ Head(accBuf) = Last(accVector)

TakenComplete ==
  /\ pc \notin {"frame", "imu"} => accVector = <<>>
  /\ pc \in {"frame", "imu"} /\ curTime = feature => Complete

IInv ==
  /\ TypeOK
  /\ ImuOrdered /\ PredictsNewest /\ ClearedFirst /\ EmptyWhileInitial
  /\ ImagesOrdered /\ FramesOrdered /\ ClockSet
  /\ DataKept /\ TakenComplete
  /\ StillThere /\ PopsItsFrame

-----------------------------------------------------------------------------
(* Sequences of stamps.                                                    *)

LEMMA StampsFacts == LastImu \in Nat /\ Stamps \subseteq Nat /\ \A t \in Stamps : t <= LastImu
  BY RateAssumption DEF Stamps, LastImu

(* A message is newer than the one before of its topic.                    *)
LEMMA NextStamp ==
  ASSUME NEW s \in Stamps
  PROVE  /\ \A t \in s + 1 .. MaxTime : t \in Stamps
         /\ \A t \in s + 1 .. s + 2 : t <= LastImu => t \in Stamps
<1>1. s \in Nat /\ MaxTime \in Nat /\ LastImu = MaxTime + 1
  BY StampsFacts, RateAssumption DEF LastImu
<1> QED
  BY <1>1 DEF Stamps

LEMMA SeqFacts ==
  ASSUME NEW s \in Seq(Stamps)
  PROVE  /\ Len(s) \in Nat /\ DOMAIN s = 1 .. Len(s)
         /\ \A k \in 1 .. Len(s) : s[k] \in Stamps /\ s[k] \in Nat
         /\ s # <<>> <=> Len(s) >= 1
         /\ s # <<>> => Last(s) \in Stamps /\ Last(s) = s[Len(s)] /\ Head(s) = s[1]
<1>1. Len(s) \in Nat /\ DOMAIN s = 1 .. Len(s)
  BY LenProperties
<1>2. \A k \in 1 .. Len(s) : s[k] \in Stamps /\ s[k] \in Nat
  BY ElementOfSeq, StampsFacts
<1>3. s # <<>> <=> Len(s) >= 1
  BY <1>1, EmptySeq
<1>4. s # <<>> => Head(s) = s[1]
  BY HeadTailProperties
<1> QED
  BY <1>1, <1>2, <1>3, <1>4 DEF Last

LEMMA AppendFacts ==
  ASSUME NEW s \in Seq(Stamps), NEW t \in Stamps
  PROVE  /\ Append(s, t) \in Seq(Stamps) /\ Append(s, t) # <<>> /\ Last(Append(s, t)) = t
         /\ DOMAIN Append(s, t) = 1 .. Len(s) + 1
         /\ \A k \in DOMAIN s : k \in DOMAIN Append(s, t) /\ Append(s, t)[k] = s[k]
         /\ \A k \in DOMAIN Append(s, t) : k \in DOMAIN s \/ (k = Len(s) + 1 /\ Append(s, t)[k] = t)
         /\ s # <<>> => Head(Append(s, t)) = Head(s)
<1> DEFINE a == Append(s, t)
<1>1. Len(s) \in Nat /\ DOMAIN s = 1 .. Len(s)
  BY SeqFacts
<1>2. /\ a \in Seq(Stamps) /\ a # <<>> /\ Len(a) = Len(s) + 1
      /\ \A k \in 1 .. Len(s) : a[k] = s[k]
      /\ a[Len(s) + 1] = t
  BY AppendProperties
<1> HIDE DEF a
<1>3. DOMAIN a = 1 .. Len(s) + 1
  BY <1>2, SeqFacts
<1>4. Last(a) = t
  BY <1>2 DEF Last
<1>5. s # <<>> => Head(a) = Head(s)
  <2>1. s # <<>> => Head(a) = a[1] /\ Head(s) = s[1] /\ 1 \in 1 .. Len(s)
    BY <1>1, <1>2, SeqFacts
  <2> QED
    BY <2>1, <1>2
<1>6. \A k \in DOMAIN s : k \in DOMAIN a /\ a[k] = s[k]
  BY <1>1, <1>2, <1>3
<1>7. \A k \in DOMAIN a : k \in DOMAIN s \/ (k = Len(s) + 1 /\ a[k] = t)
  BY <1>1, <1>2, <1>3
<1> QED
  BY <1>2, <1>3, <1>4, <1>5, <1>6, <1>7 DEF a

LEMMA TailFacts ==
  ASSUME NEW s \in Seq(Stamps), s # <<>>
  PROVE  /\ Tail(s) \in Seq(Stamps)
         /\ \A k \in DOMAIN Tail(s) : /\ k \in Nat /\ k >= 1 /\ k + 1 \in DOMAIN s
                                      /\ Tail(s)[k] = s[k + 1]
         /\ 1 \in DOMAIN s /\ Head(s) = s[1] /\ Head(s) \in Stamps /\ Head(s) \in Nat
<1>1. Len(s) \in Nat /\ DOMAIN s = 1 .. Len(s) /\ Len(s) >= 1 /\ Head(s) = s[1]
  BY SeqFacts
<1>2. Tail(s) \in Seq(Stamps) /\ Len(Tail(s)) = Len(s) - 1
  BY HeadTailProperties
<1>3. \A k \in 1 .. Len(Tail(s)) : Tail(s)[k] = s[k + 1]
  BY HeadTailProperties
<1>4. DOMAIN Tail(s) = 1 .. Len(Tail(s))
  BY <1>2, SeqFacts
<1> QED
  BY <1>1, <1>2, <1>3, <1>4, SeqFacts

LEMMA SubSeqFacts ==
  ASSUME NEW s \in Seq(Stamps), NEW m \in DOMAIN s, NEW n \in m .. Len(s)
  PROVE  /\ SubSeq(s, m, n) \in Seq(Stamps) /\ SubSeq(s, m, n) # <<>>
         /\ DOMAIN SubSeq(s, m, n) = 1 .. n - m + 1
         /\ \A k \in 1 .. n - m + 1 : m + k - 1 \in DOMAIN s /\ SubSeq(s, m, n)[k] = s[m + k - 1]
         /\ Head(SubSeq(s, m, n)) = s[m] /\ Last(SubSeq(s, m, n)) = s[n]
<1> DEFINE u == SubSeq(s, m, n)
<1>1. /\ Len(s) \in Nat /\ DOMAIN s = 1 .. Len(s) /\ m \in Nat /\ n \in Nat
      /\ 1 <= m /\ m <= n /\ n <= Len(s) /\ n - m + 1 \in Nat /\ n - m + 1 >= 1
  BY SeqFacts
<1>2. /\ Len(u) = n - m + 1 /\ u \in Seq(Stamps)
      /\ \A k \in 1 .. n - m + 1 : u[k] = s[m + k - 1]
  <2>1. u \in Seq(Stamps)
    BY <1>1, SubSeqProperties
  <2>2. Len(u) = n - m + 1
    BY <1>1, SubSeqProperties
  <2>3. \A k \in 1 .. n - m + 1 : u[k] = s[m + k - 1]
    BY <1>1, SubSeqProperties
  <2> QED
    BY <2>1, <2>2, <2>3
<1> HIDE DEF u
<1>3. DOMAIN u = 1 .. n - m + 1 /\ u # <<>> /\ Head(u) = u[1] /\ Last(u) = u[Len(u)]
  BY <1>1, <1>2, SeqFacts
<1>4. 1 \in 1 .. n - m + 1 /\ n - m + 1 \in 1 .. n - m + 1 /\ m + 1 - 1 = m /\ m + (n - m + 1) - 1 = n
  BY <1>1
<1>5. Head(u) = s[m]
  BY <1>2, <1>3, <1>4
<1>6. Last(u) = s[n]
  BY <1>2, <1>3, <1>4
<1>7. \A k \in 1 .. n - m + 1 : m + k - 1 \in DOMAIN s
  BY <1>1
<1> QED
  BY <1>2, <1>3, <1>5, <1>6, <1>7 DEF u

LEMMA AppendIncreasing ==
  ASSUME NEW s \in Seq(Stamps), NEW t \in Stamps, Increasing(s), \A k \in DOMAIN s : s[k] < t
  PROVE  Increasing(Append(s, t))
<1> SUFFICES ASSUME NEW j \in DOMAIN Append(s, t), NEW k \in DOMAIN Append(s, t), j < k
             PROVE  Append(s, t)[j] < Append(s, t)[k]
  BY DEF Increasing
<1>1. Len(s) \in Nat /\ DOMAIN s = 1 .. Len(s) /\ j \in Int /\ k \in Int /\ k <= Len(s) + 1 /\ 1 <= j
  BY AppendFacts, SeqFacts
<1>2. j \in DOMAIN s /\ Append(s, t)[j] = s[j]
  BY <1>1, AppendFacts
<1>3. (k \in DOMAIN s /\ Append(s, t)[k] = s[k]) \/ Append(s, t)[k] = t
  BY AppendFacts
<1> QED
  BY <1>2, <1>3 DEF Increasing

LEMMA TailIncreasing ==
  ASSUME NEW s \in Seq(Stamps), s # <<>>, Increasing(s)
  PROVE  Increasing(Tail(s)) /\ \A k \in DOMAIN Tail(s) : Head(s) < Tail(s)[k]
<1>1. ASSUME NEW j \in DOMAIN Tail(s), NEW k \in DOMAIN Tail(s), j < k
      PROVE  Tail(s)[j] < Tail(s)[k]
  <2>1. j + 1 \in DOMAIN s /\ k + 1 \in DOMAIN s /\ j + 1 < k + 1
    BY <1>1, TailFacts
  <2> QED
    BY <2>1, TailFacts DEF Increasing
<1>2. ASSUME NEW k \in DOMAIN Tail(s)
      PROVE  Head(s) < Tail(s)[k]
  <2>1. 1 \in DOMAIN s /\ k + 1 \in DOMAIN s /\ 1 < k + 1
    BY TailFacts
  <2> QED
    BY <2>1, TailFacts DEF Increasing
<1> QED
  BY <1>1, <1>2 DEF Increasing

LEMMA SubSeqIncreasing ==
  ASSUME NEW s \in Seq(Stamps), NEW m \in DOMAIN s, NEW n \in m .. Len(s), Increasing(s)
  PROVE  Increasing(SubSeq(s, m, n))
<1> SUFFICES ASSUME NEW j \in 1 .. n - m + 1, NEW k \in 1 .. n - m + 1, j < k
             PROVE  SubSeq(s, m, n)[j] < SubSeq(s, m, n)[k]
  BY SubSeqFacts DEF Increasing
<1>1. m \in Int
  BY SeqFacts
<1>2. m + j - 1 < m + k - 1
  BY <1>1
<1> QED
  BY <1>2, SubSeqFacts DEF Increasing

-----------------------------------------------------------------------------
(* Types.                                                                  *)

LEMMA TypeParts ==
  ASSUME TypeOK
  PROVE  /\ stamp0 \in Stamps /\ stamp1 \in Stamps /\ stampImu \in Stamps /\ imu \subseteq Stamps
         /\ img0_buf \in Seq(Stamps) /\ img1_buf \in Seq(Stamps) /\ featureBuf \in Seq(Stamps)
         /\ accBuf \in Seq(Stamps) /\ accVector \in Seq(Stamps)
         /\ image \in Stamps /\ feature \in Stamps /\ curTime \in Stamps /\ prevTime \in Stamps
         /\ predicting \in Stamps /\ latest_time \in Stamps
         /\ pc \in {"idle", "call", "front", "copied", "pop", "interval", "frame", "imu", "ready"}
         /\ frames \in 0 .. InitFrames /\ frames \in Nat /\ InitFrames \in Nat /\ InitFrames > 0
         /\ restarts \in 0 .. MaxRestarts /\ restarts \in Nat
<1>1. frames \in 0 .. InitFrames /\ restarts \in 0 .. MaxRestarts
  BY DEF TypeOK
<1>2. frames \in Nat /\ InitFrames \in Nat /\ InitFrames > 0 /\ restarts \in Nat
  BY <1>1, RateAssumption
<1> QED
  BY <1>1, <1>2 DEF TypeOK

LEMMA NumberFacts ==
  ASSUME TypeOK
  PROVE  /\ stamp0 \in Nat /\ stampImu \in Nat /\ image \in Nat /\ feature \in Nat
         /\ curTime \in Nat /\ prevTime \in Nat /\ predicting \in Nat /\ latest_time \in Nat
         /\ \A t \in imu : t \in Nat
  BY TypeParts, StampsFacts

LEMMA TypeStep == TypeOK /\ [Next]_vars => TypeOK'
<1> SUFFICES ASSUME TypeOK, [Next]_vars PROVE TypeOK'
  OBVIOUS
<1> USE TypeParts, StampsFacts
<1>0. \A s \in Seq(Stamps) : Len(s) \in Nat /\ (s # <<>> => Last(s) \in Stamps /\ Head(s) \in Stamps /\ Tail(s) \in Seq(Stamps))
  BY SeqFacts, TailFacts
<1>1. CASE Img0Callback
  <2>1. PICK t \in stamp0 + 1 .. MaxTime : stamp0' = t /\ img0_buf' = Append(img0_buf, t)
    BY <1>1 DEF Img0Callback
  <2>2. t \in Stamps
    BY <2>1, NextStamp
  <2>3. img0_buf' \in Seq(Stamps)
    BY <2>1, <2>2, AppendFacts
  <2> QED
    BY <1>1, <2>1, <2>2, <2>3 DEF Img0Callback, TypeOK, modes, syncer, buffers, thread, solver, latest, restart
<1>2. CASE Img1Callback
  <2>1. PICK t \in stamp1 + 1 .. MaxTime : stamp1' = t /\ img1_buf' = Append(img1_buf, t)
    BY <1>2 DEF Img1Callback
  <2>2. t \in Stamps
    BY <2>1, NextStamp
  <2>3. img1_buf' \in Seq(Stamps)
    BY <2>1, <2>2, AppendFacts
  <2> QED
    BY <1>2, <2>1, <2>2, <2>3 DEF Img1Callback, TypeOK, modes, syncer, buffers, thread, solver, latest, restart
<1>3. CASE InputIMU
  <2>1. PICK t \in stampImu + 1 .. stampImu + 2 :
          /\ t <= LastImu /\ stampImu' = t /\ imu' = imu \cup {t}
          /\ accBuf' = Append(accBuf, t) /\ predicting' = t
    BY <1>3 DEF InputIMU
  <2>2. t \in Stamps
    BY <2>1, NextStamp
  <2>3. accBuf' \in Seq(Stamps)
    BY <2>1, <2>2, AppendFacts
  <2> QED
    BY <1>3, <2>1, <2>2, <2>3 DEF InputIMU, TypeOK, modes, queues, syncer, thread, solver, restart
<1>4. CASE Predict
  BY <1>4 DEF Predict, TypeOK, modes, sensed, queues, syncer, buffers, thread, solver, restart, Stamps
<1>5. CASE Clear
  <2>1. <<>> \in Seq(Stamps) /\ 0 \in Stamps
    BY EmptySeq DEF Stamps
  <2>2. CASE ClearImu
    <3>1. restarts' \in 0 .. MaxRestarts
      BY <2>2, RateAssumption DEF ClearImu
    <3> QED
      BY <2>1, <2>2, <3>1 DEF ClearImu, TypeOK, modes, queues, syncer, thread, solver, latest
  <2>3. CASE ClearFeatures
    BY <2>1, <2>3 DEF ClearFeatures, TypeOK, modes, sensed, queues, syncer, thread, solver, latest
  <2>4. CASE ClearEstimate
    <3>1. frames' \in 0 .. InitFrames
      BY <2>4, RateAssumption DEF ClearEstimate
    <3> QED
      BY <2>1, <2>4, <3>1 DEF ClearEstimate, TypeOK, modes, sensed, queues, buffers, latest
  <2> QED
    BY <1>5, <2>2, <2>3, <2>4 DEF Clear
<1>6. CASE SyncMono
  BY <1>0, <1>6 DEF SyncMono, TypeOK, modes, sensed, buffers, thread, solver, latest, restart
<1>7. CASE ThrowImg0
  BY <1>0, <1>7 DEF ThrowImg0, TypeOK, modes, sensed, syncer, buffers, thread, solver, latest, restart
<1>8. CASE ThrowImg1
  BY <1>0, <1>8 DEF ThrowImg1, TypeOK, modes, sensed, syncer, buffers, thread, solver, latest, restart
<1>9. CASE SyncPair
  BY <1>0, <1>9 DEF SyncPair, TypeOK, modes, sensed, buffers, thread, solver, latest, restart
<1>10. CASE InputImage
  <2>1. featureBuf' \in Seq(Stamps)
    <3>1. featureBuf' = featureBuf \/ featureBuf' = Append(featureBuf, image)
      BY <1>10 DEF InputImage
    <3>2. featureBuf \in Seq(Stamps) /\ image \in Stamps
      BY TypeParts
    <3>3. Append(featureBuf, image) \in Seq(Stamps)
      BY <3>2, AppendFacts
    <3> QED
      BY <3>1, <3>2, <3>3
  <2>2. inputImageCnt' \in {0, 1} /\ image' \in Stamps
    BY <1>10 DEF InputImage, TypeOK, Stamps
  <2>3. pc' \in {"idle", "call", "front", "copied", "pop", "interval", "frame", "imu", "ready"}
    BY <1>10 DEF InputImage
  <2> QED
    BY <1>10, <2>1, <2>2, <2>3 DEF InputImage, TypeOK, modes, sensed, queues, solver, latest, restart
<1>11. CASE CopyFrame
  BY <1>0, <1>11 DEF CopyFrame, OldestFrame, TypeOK, modes, sensed, queues, syncer, buffers, solver,
     latest, restart
<1>12. CASE CallReturns
  BY <1>12 DEF CallReturns, TypeOK, modes, sensed, queues, syncer, buffers, solver, latest, restart, Stamps
<1>13. CASE HasImu
  BY <1>13 DEF HasImu, TypeOK, modes, sensed, queues, syncer, buffers, solver, latest, restart
<1>14. CASE EndInterval
  <2>1. accVector' \in Seq(Stamps) /\ accBuf' \in Seq(Stamps)
    <3>1. CASE accBuf # <<>>
      <4>1. PICK first \in DOMAIN accBuf : \E last \in first .. Len(accBuf) :
              accVector' = SubSeq(accBuf, first, last) /\ accBuf' = AllOf(last)
        BY <1>14, <3>1 DEF EndInterval
      <4>2. PICK last \in first .. Len(accBuf) :
              accVector' = SubSeq(accBuf, first, last) /\ accBuf' = SubSeq(accBuf, last, Len(accBuf))
        BY <4>1 DEF AllOf
      <4>3. last \in DOMAIN accBuf /\ Len(accBuf) \in last .. Len(accBuf)
        BY SeqFacts
      <4> QED
        BY <4>2, <4>3, SubSeqFacts
    <3>2. CASE accBuf = <<>>
      BY <1>14, <3>2 DEF EndInterval
    <3> QED
      BY <3>1, <3>2
  <2>2. undefined' \in BOOLEAN /\ pc' \in {"interval", "frame"}
    BY <1>14 DEF EndInterval, TypeOK
  <2> QED
    BY <1>14, <2>1, <2>2 DEF EndInterval, TypeOK, modes, sensed, queues, syncer, solver, latest, restart
<1>18. CASE PopFrame
  BY <1>0, <1>18 DEF PopFrame, TypeOK, modes, sensed, queues, syncer, solver, latest, restart
<1>19. CASE SeesFrame \/ BeginInterval
  BY <1>19 DEF SeesFrame, BeginInterval, TypeOK, modes, sensed, queues, syncer, buffers, solver, latest,
     restart
<1>15. CASE ProcessImage
  <2>1. Replayed \in Stamps
    BY <1>0 DEF Replayed
  <2>2. latest_time' \in Stamps /\ pc' \in {"idle", "ready"}
    BY <1>15, <2>1 DEF ProcessImage
  <2>3. frames' \in 0 .. InitFrames
    BY <1>15 DEF ProcessImage
  <2>4. accVector' \in Seq(Stamps) /\ feature' \in Stamps /\ prevTime' \in Stamps
    BY <1>15, EmptySeq DEF ProcessImage, Stamps
  <2> QED
    BY <1>15, <2>2, <2>3, <2>4 DEF ProcessImage, TypeOK, modes, sensed, queues, syncer, buffers, restart
<1>16. CASE Ready
  BY <1>16 DEF Ready, TypeOK, modes, sensed, queues, syncer, buffers, latest, restart
<1>17. CASE UNCHANGED vars
  BY <1>17 DEF TypeOK, vars, modes, sensed, queues, syncer, buffers, thread, solver, latest, restart
<1> QED
  BY <1>1, <1>2, <1>3, <1>4, <1>5, <1>6, <1>7, <1>8, <1>9, <1>10, <1>11, <1>12, <1>13, <1>14,
     <1>15, <1>16, <1>17, <1>18, <1>19 DEF Next, Callback, Sync, Process

-----------------------------------------------------------------------------
(* What the actions leave alone.                                           *)

Senses == InputIMU \/ Clear \/ EndInterval \/ ProcessImage

LEMMA ImuLeftAlone ==
  ASSUME [Next]_vars, ~Senses
  PROVE  UNCHANGED <<imu, accBuf, accVector, prevTime, stampImu, frames, clearing, restarts>>
  BY DEF Senses, Next, Callback, Sync, Process, vars, modes, sensed, queues, syncer, buffers, thread,
         solver, latest, restart, Img0Callback, Img1Callback, Predict, SyncMono, ThrowImg0, ThrowImg1,
         SyncPair, InputImage, SeesFrame, CopyFrame, CallReturns, HasImu, BeginInterval, PopFrame, Ready

(* Where the data a frame takes begin and end in accBuf.                   *)
LEMMA TakenFrom ==
  ASSUME TypeOK, EndInterval, accBuf # <<>>
  PROVE  \E first \in DOMAIN accBuf : \E last \in first .. Len(accBuf) :
           /\ last \in DOMAIN accBuf /\ Len(accBuf) \in last .. Len(accBuf)
           /\ Interval(prevTime, curTime, first, last)
           /\ accVector' = SubSeq(accBuf, first, last) /\ accBuf' = SubSeq(accBuf, last, Len(accBuf))
<1>1. PICK first \in DOMAIN accBuf : \E last \in first .. Len(accBuf) :
        /\ Interval(prevTime, curTime, first, last)
        /\ accVector' = SubSeq(accBuf, first, last) /\ accBuf' = AllOf(last)
  BY DEF EndInterval
<1>2. PICK last \in first .. Len(accBuf) :
        /\ Interval(prevTime, curTime, first, last)
        /\ accVector' = SubSeq(accBuf, first, last) /\ accBuf' = AllOf(last)
  BY <1>1
<1>3. last \in DOMAIN accBuf /\ Len(accBuf) \in last .. Len(accBuf)
  BY TypeParts, SeqFacts
<1> QED
  BY <1>2, <1>3 DEF AllOf

-----------------------------------------------------------------------------
(* The IMU data.                                                           *)

LEMMA ImuOrderedStep ==
  ASSUME TypeOK, TypeOK', ImuOrdered, [Next]_vars
  PROVE  ImuOrdered'
<1>0. accBuf \in Seq(Stamps) /\ stampImu \in Nat /\ accVector \in Seq(Stamps)
  BY TypeParts, NumberFacts
<1>1. CASE InputIMU
  <2>1. PICK t \in Stamps : /\ t > stampImu /\ stampImu' = t /\ t \in Nat
                            /\ accBuf' = Append(accBuf, t) /\ accVector' = accVector
    <3>1. PICK t \in stampImu + 1 .. stampImu + 2 :
            t <= LastImu /\ stampImu' = t /\ accBuf' = Append(accBuf, t) /\ accVector' = accVector
      BY <1>1 DEF InputIMU, thread
    <3>2. t \in Stamps /\ t > stampImu
      BY <1>0, <3>1 DEF Stamps
    <3> QED
      BY <3>1, <3>2, StampsFacts
  <2>2. \A k \in DOMAIN accBuf : accBuf[k] \in Nat /\ accBuf[k] < t
    BY <1>0, <2>1, SeqFacts DEF ImuOrdered
  <2>3. Increasing(accBuf')
    BY <1>0, <2>1, <2>2, AppendIncreasing DEF ImuOrdered
  <2>4. \A k \in DOMAIN accBuf' : accBuf'[k] <= stampImu'
    BY <1>0, <2>1, <2>2, AppendFacts
  <2>5. Last(accBuf') = stampImu'
    BY <1>0, <2>1, AppendFacts
  <2>6. accVector' # <<>> => Last(accVector') <= stampImu'
    <3>1. accVector # <<>> => Last(accVector) \in Nat /\ Last(accVector) <= stampImu
      BY <1>0, SeqFacts, StampsFacts DEF ImuOrdered
    <3> QED
      BY <1>0, <2>1, <3>1
  <2> QED
    BY <2>3, <2>4, <2>5, <2>6 DEF ImuOrdered, Last
<1>2. CASE Clear
  <2>1. (accBuf' = <<>> \/ accBuf' = accBuf) /\ accVector' = accVector /\ stampImu' = stampImu
    BY <1>2 DEF Clear, ClearImu, ClearFeatures, ClearEstimate, thread, buffers, sensed
  <2>2. CASE accBuf' = <<>>
    <3>1. DOMAIN accBuf' = {}
      BY <2>2
    <3> QED
      BY <2>1, <2>2, <3>1 DEF ImuOrdered, Increasing, Last
  <2>3. CASE accBuf' = accBuf
    BY <2>1, <2>3 DEF ImuOrdered, Last
  <2> QED
    BY <2>1, <2>2, <2>3
<1>3. CASE EndInterval
  <2>0. stampImu' = stampImu
    BY <1>3 DEF EndInterval, sensed
  <2>1. CASE accBuf # <<>>
    <3>1. PICK first \in DOMAIN accBuf, last \in DOMAIN accBuf :
            /\ last \in first .. Len(accBuf) /\ Len(accBuf) \in last .. Len(accBuf)
            /\ accVector' = SubSeq(accBuf, first, last) /\ accBuf' = SubSeq(accBuf, last, Len(accBuf))
      BY <1>3, <2>1, TakenFrom
    <3>2. Increasing(accBuf')
      BY <1>0, <3>1, SubSeqIncreasing DEF ImuOrdered
    <3>3. \A k \in DOMAIN accBuf' : accBuf'[k] <= stampImu'
      <4> DEFINE n == Len(accBuf)
                 s == SubSeq(accBuf, last, n)
      <4>1. /\ DOMAIN s = 1 .. n - last + 1
            /\ \A k \in 1 .. n - last + 1 : last + k - 1 \in DOMAIN accBuf /\ s[k] = accBuf[last + k - 1]
        BY <1>0, <3>1, SubSeqFacts
      <4>2. \A k \in DOMAIN s : s[k] <= stampImu
        BY <1>0, <4>1 DEF ImuOrdered
      <4> QED
        BY <2>0, <3>1, <4>2
    <3>4. Last(accBuf') = accBuf[Len(accBuf)] /\ Last(accVector') = accBuf[last]
      BY <1>0, <3>1, SubSeqFacts
    <3>5. accBuf[Len(accBuf)] = stampImu
      BY <2>1, <1>0, SeqFacts DEF ImuOrdered
    <3> QED
      BY <2>0, <3>1, <3>2, <3>3, <3>4, <3>5 DEF ImuOrdered, Last
  <2>2. CASE accBuf = <<>>
    BY <1>3, <2>0, <2>2 DEF EndInterval, ImuOrdered, Last
  <2> QED
    BY <2>1, <2>2
<1>4. CASE ProcessImage
  <2>1. accVector' = <<>> /\ accBuf' = accBuf /\ stampImu' = stampImu
    BY <1>4 DEF ProcessImage, buffers, sensed
  <2> QED
    BY <2>1 DEF ImuOrdered, Last
<1>5. CASE ~Senses
  BY <1>5, ImuLeftAlone DEF ImuOrdered, Last
<1> QED
  BY <1>1, <1>2, <1>3, <1>4, <1>5 DEF Senses

LEMMA PredictsStep ==
  ASSUME TypeOK, TypeOK', ImuOrdered, PredictsNewest, EmptyWhileInitial, [Next]_vars
  PROVE  PredictsNewest' /\ latest_time' >= latest_time
<1>0. latest_time \in Nat /\ stampImu \in Nat /\ predicting \in Nat
  BY NumberFacts
<1>1. CASE InputIMU
  <2>1. latest_time' = latest_time /\ stampImu' > stampImu /\ stampImu' \in Nat /\ predicting' = stampImu'
    BY <1>0, <1>1 DEF InputIMU
  <2> QED
    BY <1>0, <2>1 DEF PredictsNewest
<1>2. CASE Predict
  <2>1. /\ latest_time' \in {predicting, latest_time} /\ predicting = stampImu
        /\ predicting' = 0 /\ stampImu' = stampImu
    BY <1>2 DEF Predict, sensed, PredictsNewest
  <2> QED
    BY <1>0, <2>1 DEF PredictsNewest
<1>3. CASE ProcessImage
  <2>0. predicting' = predicting /\ stampImu' = stampImu
    BY <1>3 DEF ProcessImage, sensed
  <2>1. latest_time' = latest_time \/ latest_time' = stampImu
    <3>1. CASE accBuf # <<>>
      BY <1>3, <3>1 DEF ProcessImage, Replayed, ImuOrdered
    <3>2. CASE accBuf = <<>>
      <4>1. solver_flag = "INITIAL" /\ frames = 0 /\ frames # InitFrames
        BY <1>3, <3>2, TypeParts DEF EmptyWhileInitial, ProcessImage
      <4> QED
        BY <1>3, <4>1 DEF ProcessImage
    <3> QED
      BY <3>1, <3>2
  <2> QED
    BY <1>0, <2>0, <2>1 DEF PredictsNewest
<1>4. CASE ~(InputIMU \/ Predict \/ ProcessImage)
  <2>1. UNCHANGED <<latest_time, stampImu, predicting>>
    BY <1>4 DEF Next, Callback, Sync, Process, vars, modes, sensed, queues, syncer, buffers, thread,
         solver, latest, restart, Img0Callback, Img1Callback, Clear, ClearImu, ClearFeatures,
         ClearEstimate, SyncMono, ThrowImg0, ThrowImg1, SyncPair, InputImage, SeesFrame, CopyFrame,
         CallReturns, HasImu, BeginInterval, EndInterval, PopFrame, Ready
  <2> QED
    BY <1>0, <2>1 DEF PredictsNewest
<1> QED
  BY <1>1, <1>2, <1>3, <1>4

LEMMA ClearedStep ==
  ASSUME TypeOK, ClearedFirst, [Next]_vars
  PROVE  ClearedFirst'
<1>0. accBuf \in Seq(Stamps) /\ restarts \in Nat
  BY TypeParts
<1>1. CASE InputIMU \/ ProcessImage
  <2>1. clearing' = "no"
    BY <1>1 DEF InputIMU, ProcessImage, CallbackFree, restart
  <2> QED
    BY <2>1 DEF ClearedFirst
<1>2. CASE ClearImu
  <2>1. restarts' > 0 /\ UNCHANGED <<pc, predicting>> /\ pc # "ready" /\ predicting = 0
    BY <1>0, <1>2 DEF ClearImu, CallbackFree, thread, latest
  <2>2. accBuf' = <<>> /\ imu' = {}
    BY <1>2 DEF ClearImu
  <2> QED
    BY <2>1, <2>2 DEF ClearedFirst
<1>3. CASE ClearFeatures \/ ClearEstimate
  BY <1>3 DEF ClearFeatures, ClearEstimate, ClearedFirst, buffers, sensed, thread, latest
<1>4. CASE EndInterval
  <2>1. UNCHANGED <<clearing, restarts, imu, predicting>> /\ pc' # "ready" /\ (accBuf = <<>> => accBuf' = <<>>)
    BY <1>4 DEF EndInterval, restart, sensed, latest
  <2> QED
    BY <2>1 DEF ClearedFirst
<1>5. CASE ~(Senses)
  <2>1. UNCHANGED <<imu, accBuf, clearing, restarts>>
    BY <1>5, ImuLeftAlone
  <2>2. predicting' = predicting \/ predicting' = 0
    BY <1>5 DEF Senses, Next, Callback, Sync, Process, vars, latest, Img0Callback, Img1Callback, Predict,
       SyncMono, ThrowImg0, ThrowImg1, SyncPair, InputImage, SeesFrame, CopyFrame, CallReturns, HasImu,
       BeginInterval, PopFrame, Ready
  <2>3. pc' = pc \/ pc' # "ready"
    BY <1>5 DEF Senses, Next, Callback, Sync, Process, vars, thread, Img0Callback, Img1Callback, Predict,
       SyncMono, ThrowImg0, ThrowImg1, SyncPair, InputImage, SeesFrame, CopyFrame, CallReturns, HasImu,
       BeginInterval, PopFrame, Ready
  <2> QED
    BY <2>1, <2>2, <2>3 DEF ClearedFirst
<1> QED
  BY <1>1, <1>2, <1>3, <1>4, <1>5 DEF Senses, Clear

LEMMA EmptyStep ==
  ASSUME TypeOK, TypeOK', ClearedFirst, EmptyWhileInitial, [Next]_vars
  PROVE  EmptyWhileInitial'
<1>0. accBuf \in Seq(Stamps) /\ InitFrames > 0 /\ InitFrames \in Nat
  BY TypeParts
<1>1. CASE InputIMU
  <2>1. \E t \in Stamps : accBuf' = Append(accBuf, t)
    BY <1>1, NumberFacts DEF InputIMU, Stamps
  <2>2. accBuf' # <<>>
    BY <1>0, <2>1, AppendFacts
  <2> QED
    BY <2>2 DEF EmptyWhileInitial
<1>2. CASE ClearImu \/ ClearFeatures
  <2>1. clearing' # "no"
    BY <1>2 DEF ClearImu, ClearFeatures
  <2> QED
    BY <2>1 DEF EmptyWhileInitial
<1>6. CASE ClearEstimate
  BY <1>6 DEF ClearEstimate, ClearedFirst, EmptyWhileInitial
<1>3. CASE EndInterval
  <2>1. CASE accBuf # <<>>
    <3>1. accBuf' # <<>>
      BY <1>0, <1>3, <2>1, TakenFrom, SubSeqFacts
    <3> QED
      BY <3>1 DEF EmptyWhileInitial
  <2>2. CASE accBuf = <<>>
    BY <1>3, <2>2 DEF EndInterval, EmptyWhileInitial, solver, restart
  <2> QED
    BY <2>1, <2>2
<1>4. CASE ProcessImage
  <2> SUFFICES ASSUME accBuf' = <<>> PROVE solver_flag' = "INITIAL" /\ pc' = "idle"
    BY DEF EmptyWhileInitial
  <2>1. accBuf = <<>> /\ clearing = "no" /\ pc = "imu" /\ solver_flag' = solver_flag
    BY <1>4 DEF ProcessImage, buffers
  <2>2. solver_flag = "INITIAL" /\ frames = 0 /\ frames # InitFrames
    BY <1>0, <2>1 DEF EmptyWhileInitial
  <2> QED
    BY <1>4, <2>1, <2>2 DEF ProcessImage
<1>5. CASE ~Senses
  <2>1. accBuf' = accBuf /\ frames' = frames /\ clearing' = clearing
    BY <1>5, ImuLeftAlone
  <2>2. CASE HasImu
    BY <2>1, <2>2 DEF HasImu, IMUAvailable, EmptyWhileInitial
  <2>3. CASE Ready
    BY <2>1, <2>3 DEF Ready, EmptyWhileInitial
  <2>4. CASE InputImage
    BY <2>1, <2>4 DEF InputImage, EmptyWhileInitial, solver
  <2>5. CASE SeesFrame \/ CopyFrame \/ CallReturns
    BY <2>1, <2>5 DEF SeesFrame, CopyFrame, CallReturns, EmptyWhileInitial, solver
  <2>6. CASE BeginInterval \/ PopFrame
    BY <2>1, <2>6 DEF BeginInterval, PopFrame, EmptyWhileInitial, solver
  <2>7. CASE ~(HasImu \/ Ready \/ InputImage \/ SeesFrame \/ CopyFrame \/ CallReturns \/ BeginInterval \/ PopFrame)
    <3>1. UNCHANGED <<pc, solver_flag>>
      BY <1>5, <2>7 DEF Senses, Next, Callback, Sync, Process, vars, modes, sensed, queues, syncer,
         buffers, thread, solver, latest, Img0Callback, Img1Callback, Predict, SyncMono, ThrowImg0,
         ThrowImg1, SyncPair
    <3> QED
      BY <2>1, <3>1 DEF EmptyWhileInitial
  <2> QED
    BY <2>2, <2>3, <2>4, <2>5, <2>6, <2>7
<1> QED
  BY <1>1, <1>2, <1>3, <1>4, <1>5, <1>6 DEF Senses, Clear

-----------------------------------------------------------------------------
(* The images.                                                             *)

LEMMA TakenFacts == TypeOK => Handed \subseteq Nat /\ Taken \subseteq Nat
<1> SUFFICES ASSUME TypeOK PROVE Handed \subseteq Nat /\ Taken \subseteq Nat
  OBVIOUS
<1>1. \A k \in DOMAIN featureBuf : featureBuf[k] \in Nat
  BY TypeParts, SeqFacts
<1> QED
  BY <1>1, NumberFacts DEF Handed, Taken

(* Nothing new is handed over, and the thread does not leave "idle".       *)
LEMMA NothingHanded ==
  ASSUME TypeOK, TypeOK', ImagesOrdered,
         Handed' \subseteq Handed \cup {0}, UNCHANGED <<image, stamp0, img0_buf, MULTIPLE_THREAD>>,
         ~MULTIPLE_THREAD /\ image # 0 /\ pc = "idle" => pc' = "idle"
  PROVE  ImagesOrdered'
<1>0. stamp0 \in Nat /\ image \in Nat /\ img0_buf \in Seq(Stamps)
  BY TypeParts, NumberFacts
<1>1. \A k \in DOMAIN img0_buf : img0_buf[k] \in Nat
  BY <1>0, SeqFacts
<1>2. \A t \in Handed' \cup {image} : t \in Taken \/ t = 0
  BY DEF Taken
<1>3. 0 <= stamp0 /\ \A k \in DOMAIN img0_buf : 0 < img0_buf[k]
  <2>1. image \in Taken
    BY DEF Taken
  <2>2. \A k \in DOMAIN img0_buf : image < img0_buf[k]
    BY <2>1 DEF ImagesOrdered
  <2> QED
    BY <1>0, <1>1, <2>2
<1>4. \A t \in Handed' \cup {image} : t <= stamp0 /\ \A k \in DOMAIN img0_buf : t < img0_buf[k]
  BY <1>2, <1>3 DEF ImagesOrdered
<1>5. Taken' = Handed' \cup {image}
  BY DEF Taken
<1>6. image # 0 => \A t \in Handed' : t < image
  BY <1>0 DEF ImagesOrdered
<1> QED
  BY <1>4, <1>5, <1>6 DEF ImagesOrdered

LEMMA ImagesStep ==
  ASSUME TypeOK, TypeOK', ImagesOrdered, [Next]_vars
  PROVE  ImagesOrdered'
<1>0. /\ stamp0 \in Nat /\ image \in Nat /\ feature \in Nat /\ prevTime \in Nat
      /\ img0_buf \in Seq(Stamps) /\ featureBuf \in Seq(Stamps) /\ Taken \subseteq Nat
      /\ \A k \in DOMAIN img0_buf : img0_buf[k] \in Nat
  BY TypeParts, NumberFacts, TakenFacts, SeqFacts
<1>1. CASE Img0Callback
  <2>1. PICK t \in Stamps : t > stamp0 /\ stamp0' = t /\ t \in Nat /\ img0_buf' = Append(img0_buf, t)
    <3>1. PICK t \in stamp0 + 1 .. MaxTime : stamp0' = t /\ img0_buf' = Append(img0_buf, t)
      BY <1>1 DEF Img0Callback
    <3>2. t \in Stamps /\ t > stamp0
      BY <1>0, <3>1, RateAssumption DEF Stamps, LastImu
    <3> QED
      BY <3>1, <3>2, StampsFacts
  <2>2. Taken' = Taken /\ Handed' = Handed /\ UNCHANGED <<image, MULTIPLE_THREAD, pc>>
    BY <1>1 DEF Img0Callback, Taken, Handed, modes, syncer, buffers, thread
  <2>3. \A k \in DOMAIN img0_buf : img0_buf[k] < t
    BY <1>0, <2>1 DEF ImagesOrdered
  <2>4. Increasing(img0_buf')
    BY <1>0, <2>1, <2>3, AppendIncreasing DEF ImagesOrdered
  <2>5. \A k \in DOMAIN img0_buf' : img0_buf'[k] \in {img0_buf[j] : j \in DOMAIN img0_buf} \cup {t}
    BY <1>0, <2>1, AppendFacts
  <2>6. \A k \in DOMAIN img0_buf' : img0_buf'[k] <= t
    BY <1>0, <2>1, <2>3, <2>5
  <2>7. \A s \in Taken : s < t
    BY <1>0, <2>1 DEF ImagesOrdered
  <2>8. \A s \in Taken : s <= t
    BY <1>0, <2>1, <2>7
  <2>9. \A s \in Taken : \A k \in DOMAIN img0_buf' : s < img0_buf'[k]
    BY <2>5, <2>7 DEF ImagesOrdered
  <2> QED
    BY <2>1, <2>2, <2>4, <2>6, <2>8, <2>9 DEF ImagesOrdered
<1>2. CASE SyncMono \/ SyncPair
  <2>1. /\ img0_buf # <<>> /\ image' = Head(img0_buf) /\ img0_buf' = Tail(img0_buf)
        /\ stamp0' = stamp0 /\ Handed' = Handed
        /\ MULTIPLE_THREAD' = MULTIPLE_THREAD /\ pc' = pc /\ (MULTIPLE_THREAD \/ pc = "idle")
    BY <1>2 DEF SyncMono, SyncPair, SyncFree, Handed, modes, sensed, buffers, thread
  <2>2. Taken' = Handed \cup {Head(img0_buf)}
    BY <2>1 DEF Taken
  <2>3. Increasing(img0_buf') /\ \A k \in DOMAIN img0_buf' : Head(img0_buf) < img0_buf'[k]
    BY <1>0, <2>1, TailIncreasing DEF ImagesOrdered
  <2>4. \A k \in DOMAIN img0_buf' : \E j \in DOMAIN img0_buf : img0_buf'[k] = img0_buf[j]
    BY <1>0, <2>1, TailFacts
  <2>5. 1 \in DOMAIN img0_buf /\ Head(img0_buf) = img0_buf[1]
    BY <1>0, <2>1, TailFacts
  <2>6. \A t \in Handed : t <= stamp0 /\ \A k \in DOMAIN img0_buf : t < img0_buf[k]
    BY DEF ImagesOrdered, Taken
  <2> QED
    BY <2>1, <2>2, <2>3, <2>4, <2>5, <2>6 DEF ImagesOrdered
<1>3. CASE ThrowImg0
  <2>1. /\ img0_buf # <<>> /\ img0_buf' = Tail(img0_buf) /\ Taken' = Taken /\ Handed' = Handed
        /\ UNCHANGED <<stamp0, image, MULTIPLE_THREAD, pc>>
    BY <1>3 DEF ThrowImg0, Taken, Handed, modes, sensed, syncer, buffers, thread
  <2>2. Increasing(img0_buf')
    BY <1>0, <2>1, TailIncreasing DEF ImagesOrdered
  <2>3. \A k \in DOMAIN img0_buf' : \E j \in DOMAIN img0_buf : img0_buf'[k] = img0_buf[j]
    BY <1>0, <2>1, TailFacts
  <2> QED
    BY <2>1, <2>2, <2>3 DEF ImagesOrdered
<1>4. CASE InputImage
  <2>1. /\ image # 0 /\ image' = 0 /\ featureBuf' \in {featureBuf, Append(featureBuf, image)}
        /\ UNCHANGED <<stamp0, img0_buf, MULTIPLE_THREAD, feature, curTime, prevTime>>
    BY <1>4 DEF InputImage, modes, sensed, queues
  <2>2. \A k \in DOMAIN featureBuf' :
          featureBuf'[k] = image \/ \E j \in DOMAIN featureBuf : featureBuf'[k] = featureBuf[j]
    <3>1. \A k \in DOMAIN Append(featureBuf, image) :
            \/ Append(featureBuf, image)[k] = image
            \/ k \in DOMAIN featureBuf /\ Append(featureBuf, image)[k] = featureBuf[k]
      BY <1>0, TypeParts, AppendFacts
    <3> QED
      BY <2>1, <3>1
  <2>3. \A t \in Taken' : t \in Taken \/ t = 0
    BY <2>1, <2>2 DEF Taken, Handed
  <2>4. 0 <= stamp0 /\ \A k \in DOMAIN img0_buf : 0 < img0_buf[k]
    <3>1. image \in Taken
      BY DEF Taken
    <3>2. \A k \in DOMAIN img0_buf : image < img0_buf[k]
      BY <3>1 DEF ImagesOrdered
    <3> QED
      BY <1>0, <3>2
  <2>5. \A t \in Taken' : t <= stamp0 /\ \A k \in DOMAIN img0_buf : t < img0_buf[k]
    BY <2>3, <2>4 DEF ImagesOrdered
  <2> QED
    BY <2>1, <2>5 DEF ImagesOrdered
<1>5. CASE CopyFrame
  <2>1. UNCHANGED <<image, stamp0, img0_buf, MULTIPLE_THREAD, prevTime, featureBuf>>
    BY <1>5 DEF CopyFrame, modes, sensed, queues, syncer, buffers
  <2>2. Handed' \subseteq Handed
    <3>1. CASE featureBuf = <<>>
      BY <1>5, <2>1, <3>1 DEF CopyFrame, Handed
    <3>2. CASE featureBuf # <<>>
      <4>1. feature' = featureBuf[1] /\ curTime' = featureBuf[1] /\ 1 \in DOMAIN featureBuf
        BY <1>0, <1>5, <3>2, TailFacts DEF CopyFrame, OldestFrame
      <4> QED
        BY <2>1, <4>1 DEF Handed
    <3> QED
      BY <3>1, <3>2
  <2>3. pc # "idle"
    BY <1>5 DEF CopyFrame
  <2> QED
    BY <2>1, <2>2, <2>3, NothingHanded
<1>6. CASE PopFrame
  <2>1. /\ UNCHANGED <<image, stamp0, img0_buf, MULTIPLE_THREAD, feature, curTime, prevTime>> /\ pc # "idle"
        /\ featureBuf' = featureBuf \/ (featureBuf # <<>> /\ featureBuf' = Tail(featureBuf))
    BY <1>6 DEF PopFrame, modes, sensed, queues, syncer
  <2>2. \A k \in DOMAIN featureBuf' : \E j \in DOMAIN featureBuf : featureBuf'[k] = featureBuf[j]
    BY <1>0, <2>1, TailFacts
  <2>3. Handed' \subseteq Handed
    BY <2>1, <2>2 DEF Handed
  <2> QED
    BY <2>1, <2>3, NothingHanded
<1>7. CASE Clear \/ CallReturns \/ ProcessImage
  <2>1. UNCHANGED <<image, stamp0, img0_buf, MULTIPLE_THREAD>>
    BY <1>7 DEF Clear, ClearImu, ClearFeatures, ClearEstimate, CallReturns, ProcessImage, modes, sensed,
       queues, syncer
  <2>2. Handed' \subseteq Handed \cup {0}
    BY <1>7 DEF Clear, ClearImu, ClearFeatures, ClearEstimate, CallReturns, ProcessImage, Handed, buffers,
       thread
  <2>3. pc = "idle" => pc' = "idle"
    BY <1>7 DEF Clear, ClearImu, ClearFeatures, ClearEstimate, CallReturns, ProcessImage, thread
  <2> QED
    BY <2>1, <2>2, <2>3, NothingHanded
<1>8. CASE InputIMU \/ Predict \/ Img1Callback \/ HasImu \/ Ready \/ ThrowImg1 \/ UNCHANGED vars
  <2>1. UNCHANGED <<image, stamp0, img0_buf, MULTIPLE_THREAD, feature, curTime, prevTime, featureBuf>>
    BY <1>8 DEF vars, modes, sensed, queues, syncer, buffers, thread, InputIMU, Predict, Img1Callback,
       HasImu, Ready, ThrowImg1
  <2>2. pc = "idle" => pc' = "idle"
    BY <1>8 DEF vars, thread, InputIMU, Predict, Img1Callback, HasImu, Ready, ThrowImg1
  <2>3. Handed' = Handed
    BY <2>1 DEF Handed
  <2> QED
    BY <2>1, <2>2, <2>3, NothingHanded
<1>9. CASE SeesFrame \/ BeginInterval \/ EndInterval
  <2>1. UNCHANGED <<image, stamp0, img0_buf, MULTIPLE_THREAD, feature, curTime, prevTime, featureBuf>>
    BY <1>9 DEF modes, sensed, queues, syncer, buffers, SeesFrame, BeginInterval, EndInterval
  <2>2. ~MULTIPLE_THREAD => pc # "idle"
    BY <1>9 DEF SeesFrame, BeginInterval, EndInterval
  <2>3. Handed' = Handed
    BY <2>1 DEF Handed
  <2> QED
    BY <2>1, <2>2, <2>3, NothingHanded
<1> QED
  BY <1>1, <1>2, <1>3, <1>4, <1>5, <1>6, <1>7, <1>8, <1>9 DEF Next, Callback, Sync, Process

-----------------------------------------------------------------------------
(* The frames.                                                             *)

(* Fewer frames wait, and none is handed over.                             *)
LEMMA FewerFrames ==
  ASSUME TypeOK, FramesOrdered, NEW f \in {feature, 0}, NEW p,
         pc \notin BeforePop \/ p \in BeforePop \/ f = 0
  PROVE  \A k \in DOMAIN featureBuf :
           /\ prevTime < featureBuf[k] /\ f <= featureBuf[k]
           /\ p \notin BeforePop => f < featureBuf[k]
<1> SUFFICES ASSUME NEW k \in DOMAIN featureBuf
             PROVE  /\ prevTime < featureBuf[k] /\ f <= featureBuf[k]
                    /\ p \notin BeforePop => f < featureBuf[k]
  OBVIOUS
<1>1. featureBuf[k] \in Nat /\ prevTime \in Nat /\ feature \in Nat
  BY TypeParts, NumberFacts, SeqFacts
<1>2. prevTime < featureBuf[k] /\ feature <= featureBuf[k]
  BY DEF FramesOrdered
<1>3. pc \notin BeforePop => feature < featureBuf[k]
  BY DEF FramesOrdered
<1> QED
  BY <1>1, <1>2, <1>3

LEMMA FramesStep ==
  ASSUME TypeOK, TypeOK', ImagesOrdered, FramesOrdered, ClockSet, [Next]_vars
  PROVE  FramesOrdered'
<1>0. /\ image \in Nat /\ feature \in Nat /\ prevTime \in Nat /\ curTime \in Nat /\ image \in Stamps
      /\ featureBuf \in Seq(Stamps) /\ \A k \in DOMAIN featureBuf : featureBuf[k] \in Nat
  BY TypeParts, NumberFacts, SeqFacts
<1>1. CASE InputImage
  <2>1. /\ image # 0 /\ featureBuf' \in {featureBuf, Append(featureBuf, image)}
        /\ feature' = feature /\ prevTime' = prevTime
        /\ pc' = (IF MULTIPLE_THREAD THEN pc ELSE "call")
    BY <1>1 DEF InputImage
  <2>2. \A t \in Handed : t < image
    BY <2>1 DEF ImagesOrdered
  <2>3. feature < image /\ prevTime < image /\ \A k \in DOMAIN featureBuf : featureBuf[k] < image
    BY <2>2 DEF Handed
  <2>4. pc' \in InHand => pc' = pc
    BY <2>1 DEF InHand, BeforePop
  <2>5. pc \notin BeforePop \/ pc' \in BeforePop
    BY <2>1 DEF ImagesOrdered, BeforePop
  <2>6. \A k \in DOMAIN featureBuf :
          /\ prevTime < featureBuf[k] /\ feature <= featureBuf[k]
          /\ pc' \notin BeforePop => feature < featureBuf[k]
    BY <2>5, FewerFrames
  <2>7. CASE featureBuf' = featureBuf
    BY <2>1, <2>4, <2>6, <2>7 DEF FramesOrdered
  <2>8. CASE featureBuf' = Append(featureBuf, image)
    <3>1. Increasing(featureBuf')
      BY <1>0, <2>3, <2>8, AppendIncreasing DEF FramesOrdered
    <3>2. \A k \in DOMAIN featureBuf' :
            featureBuf'[k] = image \/ (k \in DOMAIN featureBuf /\ featureBuf'[k] = featureBuf[k])
      BY <1>0, <2>8, AppendFacts
    <3>3. prevTime < image /\ feature <= image /\ feature < image
      BY <1>0, <2>3
    <3>4. \A k \in DOMAIN featureBuf' :
            /\ prevTime < featureBuf'[k] /\ feature <= featureBuf'[k]
            /\ pc' \notin BeforePop => feature < featureBuf'[k]
      BY <2>6, <3>2, <3>3
    <3> QED
      BY <2>1, <2>4, <3>1, <3>4 DEF FramesOrdered
  <2> QED
    BY <2>1, <2>7, <2>8
<1>2. CASE CopyFrame
  <2>0. featureBuf' = featureBuf /\ prevTime' = prevTime
    BY <1>2 DEF CopyFrame, buffers
  <2>1. CASE featureBuf = <<>>
    BY <1>2, <2>0, <2>1 DEF CopyFrame, FramesOrdered
  <2>2. CASE featureBuf # <<>>
    <3>1. feature' = featureBuf[1] /\ 1 \in DOMAIN featureBuf /\ pc' = "copied"
      BY <1>0, <1>2, <2>2, TailFacts DEF CopyFrame, OldestFrame
    <3>2. \A k \in DOMAIN featureBuf : featureBuf[1] <= featureBuf[k]
      <4> SUFFICES ASSUME NEW k \in DOMAIN featureBuf PROVE featureBuf[1] <= featureBuf[k]
        OBVIOUS
      <4>1. k = 1 \/ 1 < k
        BY <1>0, SeqFacts
      <4>2. 1 < k => featureBuf[1] < featureBuf[k]
        BY <3>1 DEF FramesOrdered, Increasing
      <4> QED
        BY <1>0, <3>1, <4>1, <4>2
    <3> QED
      BY <2>0, <3>1, <3>2 DEF FramesOrdered, BeforePop
  <2> QED
    BY <2>1, <2>2
<1>3. CASE PopFrame
  <2>1. /\ feature' = feature /\ prevTime' = prevTime /\ pc = "frame" /\ pc' \in {"frame", "imu"}
        /\ \/ featureBuf' = featureBuf /\ pc' = "frame"
           \/ featureBuf # <<>> /\ featureBuf' = Tail(featureBuf)
    BY <1>3 DEF PopFrame
  <2>2. prevTime < feature
    BY <2>1 DEF FramesOrdered, InHand, BeforePop
  <2>3. CASE featureBuf' = featureBuf /\ pc' = "frame"
    BY <2>1, <2>3 DEF FramesOrdered
  <2>4. CASE featureBuf # <<>> /\ featureBuf' = Tail(featureBuf)
    <3>1. Increasing(featureBuf') /\ \A k \in DOMAIN featureBuf' : Head(featureBuf) < featureBuf'[k]
      BY <1>0, <2>4, TailIncreasing DEF FramesOrdered
    <3>2. 1 \in DOMAIN featureBuf /\ Head(featureBuf) = featureBuf[1]
      BY <1>0, <2>4, TailFacts
    <3>3. feature <= Head(featureBuf) /\ prevTime < Head(featureBuf) /\ Head(featureBuf) \in Nat
      BY <1>0, <3>2 DEF FramesOrdered
    <3>4. featureBuf' \in Seq(Stamps) /\ \A k \in DOMAIN featureBuf' : featureBuf'[k] \in Nat
      BY <1>0, <2>4, TailFacts, SeqFacts
    <3>5. \A k \in DOMAIN featureBuf' :
            prevTime < featureBuf'[k] /\ feature <= featureBuf'[k] /\ feature < featureBuf'[k]
      BY <1>0, <3>1, <3>3, <3>4
    <3> QED
      BY <2>1, <2>2, <3>1, <3>5 DEF FramesOrdered
  <2> QED
    BY <2>1, <2>3, <2>4
<1>4. CASE ProcessImage
  <2>1. /\ pc = "imu" /\ prevTime' = curTime /\ feature' = 0 /\ featureBuf' = featureBuf
        /\ pc' \in {"idle", "ready"}
    BY <1>4 DEF ProcessImage, buffers
  <2>2. curTime <= feature
    BY <1>0, <2>1 DEF ClockSet, InHand
  <2>3. \A k \in DOMAIN featureBuf : feature < featureBuf[k]
    BY <2>1 DEF FramesOrdered, BeforePop
  <2>4. \A k \in DOMAIN featureBuf : curTime < featureBuf[k] /\ 0 <= featureBuf[k] /\ 0 < featureBuf[k]
    BY <1>0, <2>2, <2>3
  <2> QED
    BY <2>1, <2>4 DEF FramesOrdered, InHand, BeforePop
<1>5. CASE Clear
  <2>1. feature' = feature /\ pc' = pc /\ (featureBuf' = <<>> \/ featureBuf' = featureBuf)
        /\ (prevTime' = prevTime \/ prevTime' = 0)
    BY <1>5 DEF Clear, ClearImu, ClearFeatures, ClearEstimate, thread, buffers
  <2>2. Increasing(featureBuf') /\ \A k \in DOMAIN featureBuf' : k \in DOMAIN featureBuf /\ featureBuf'[k] = featureBuf[k]
    <3>1. CASE featureBuf' = <<>>
      <4>1. DOMAIN featureBuf' = {}
        BY <3>1
      <4> QED
        BY <4>1 DEF Increasing
    <3>2. CASE featureBuf' = featureBuf
      BY <3>2 DEF FramesOrdered
    <3> QED
      BY <2>1, <3>1, <3>2
  <2>3. pc \in InHand => prevTime < feature
    BY DEF FramesOrdered
  <2>4. \A k \in DOMAIN featureBuf : prevTime' < featureBuf[k]
    <3>1. \A k \in DOMAIN featureBuf : prevTime < featureBuf[k]
      BY DEF FramesOrdered
    <3> QED
      BY <1>0, <2>1, <3>1
  <2>5. pc \in InHand => prevTime' < feature
    BY <1>0, <2>1, <2>3
  <2> QED
    BY <2>1, <2>2, <2>4, <2>5 DEF FramesOrdered
<1>6. CASE CallReturns
  <2>1. feature' = 0 /\ pc' = "idle" /\ featureBuf' = featureBuf /\ prevTime' = prevTime
    BY <1>6 DEF CallReturns, buffers
  <2>2. \A k \in DOMAIN featureBuf :
          prevTime < featureBuf[k] /\ 0 <= featureBuf[k] /\ 0 < featureBuf[k]
    BY <1>0 DEF FramesOrdered
  <2> QED
    BY <2>1, <2>2 DEF FramesOrdered, InHand, BeforePop
<1>7. CASE HasImu \/ Ready \/ SeesFrame \/ BeginInterval \/ EndInterval
  <2>1. /\ feature' = feature /\ featureBuf' = featureBuf /\ prevTime' = prevTime
        /\ (pc' \in BeforePop => pc \in BeforePop) /\ (pc \in BeforePop => pc' \in BeforePop)
        /\ (pc' \in InHand => pc \in InHand)
    BY <1>7 DEF HasImu, Ready, SeesFrame, BeginInterval, EndInterval, buffers, thread, BeforePop, InHand
  <2> QED
    BY <2>1 DEF FramesOrdered
<1>8. CASE ~(InputImage \/ CopyFrame \/ PopFrame \/ ProcessImage \/ Clear \/ CallReturns \/ HasImu \/ Ready
             \/ SeesFrame \/ BeginInterval \/ EndInterval)
  <2>1. UNCHANGED <<feature, prevTime, featureBuf, pc>>
    BY <1>8 DEF Next, Callback, Sync, Process, vars, modes, sensed, queues, syncer, buffers, thread,
       solver, latest, Img0Callback, Img1Callback, InputIMU, Predict, SyncMono, ThrowImg0, ThrowImg1,
       SyncPair
  <2> QED
    BY <2>1 DEF FramesOrdered
<1> QED
  BY <1>1, <1>2, <1>3, <1>4, <1>5, <1>6, <1>7, <1>8

LEMMA ClockStep ==
  ASSUME TypeOK, ClearedFirst, FramesOrdered, ClockSet, [Next]_vars
  PROVE  ClockSet'
<1>0. restarts \in Nat
  BY TypeParts
<1>1. CASE CopyFrame
  BY <1>1 DEF CopyFrame, ClockSet, InHand, BeforePop
<1>2. CASE ClearEstimate
  BY <1>2 DEF ClearEstimate, ClearedFirst, ClockSet
<1>3. CASE ClearImu
  <2>1. UNCHANGED <<pc, feature, curTime, prevTime>> /\ restarts' = restarts + 1
    BY <1>3 DEF ClearImu, thread
  <2>2. restarts' > 0
    BY <1>0, <2>1
  <2> QED
    BY <2>1, <2>2 DEF ClockSet
<1>4. CASE ProcessImage \/ CallReturns \/ Ready \/ SeesFrame
  BY <1>4 DEF ProcessImage, CallReturns, Ready, SeesFrame, ClockSet, InHand, BeforePop
<1>5. CASE HasImu \/ BeginInterval \/ EndInterval \/ PopFrame
  <2>1. UNCHANGED <<feature, curTime, prevTime, restarts>> /\ pc \in InHand
    BY <1>5 DEF HasImu, BeginInterval, EndInterval, PopFrame, restart, InHand, BeforePop
  <2> QED
    BY <2>1 DEF ClockSet
<1>6. CASE InputImage
  <2>1. UNCHANGED <<feature, curTime, prevTime, restarts>> /\ (pc' = pc \/ pc' = "call")
    BY <1>6 DEF InputImage, restart
  <2> QED
    BY <2>1 DEF ClockSet, InHand, BeforePop
<1>7. CASE ~(CopyFrame \/ ClearEstimate \/ ClearImu \/ ProcessImage \/ CallReturns \/ Ready \/ SeesFrame
             \/ HasImu \/ BeginInterval \/ EndInterval \/ PopFrame \/ InputImage)
  <2>1. UNCHANGED <<feature, curTime, prevTime, pc, restarts>>
    BY <1>7 DEF Next, Callback, Clear, Sync, Process, vars, thread, restart, Img0Callback, Img1Callback,
       InputIMU, Predict, ClearFeatures, SyncMono, ThrowImg0, ThrowImg1, SyncPair
  <2> QED
    BY <2>1 DEF ClockSet
<1> QED
  BY <1>1, <1>2, <1>3, <1>4, <1>5, <1>6, <1>7

LEMMA StillThereStep ==
  ASSUME TypeOK, TypeOK', ImuOrdered, ImagesOrdered, ClearedFirst, StillThere, [Next]_vars
  PROVE  StillThere'
<1>0. /\ featureBuf \in Seq(Stamps) /\ accBuf \in Seq(Stamps) /\ image \in Stamps /\ restarts \in Nat
      /\ feature \in Nat /\ stampImu \in Nat
  BY TypeParts, NumberFacts
<1>1. CASE InputIMU
  <2>1. PICK t \in stampImu + 1 .. stampImu + 2 : t <= LastImu /\ accBuf' = Append(accBuf, t)
    BY <1>1 DEF InputIMU
  <2>2. t \in Stamps /\ t \in Nat /\ t > stampImu
    BY <1>0, <2>1 DEF Stamps
  <2>3. accBuf' # <<>> /\ Last(accBuf') = t
    BY <1>0, <2>1, <2>2, AppendFacts
  <2>4. UNCHANGED <<pc, feature, featureBuf, restarts>>
    BY <1>1 DEF InputIMU, thread, restart
  <2>5. accBuf # <<>> => Last(accBuf) = stampImu
    BY DEF ImuOrdered
  <2>6. accBuf # <<>> /\ feature <= Last(accBuf) => feature <= t
    BY <1>0, <2>2, <2>5
  <2> QED
    BY <2>3, <2>4, <2>6 DEF StillThere, Last
<1>2. CASE ClearImu
  <2>1. restarts' = restarts + 1
    BY <1>2 DEF ClearImu
  <2>2. restarts' # 0
    BY <1>0, <2>1
  <2> QED
    BY <2>2 DEF StillThere
<1>3. CASE InputImage
  <2>1. /\ UNCHANGED <<feature, accBuf, restarts>> /\ (pc' = pc \/ pc' = "call")
        /\ featureBuf' \in {featureBuf, Append(featureBuf, image)}
    BY <1>3 DEF InputImage, restart
  <2>2. featureBuf # <<>> => featureBuf' # <<>>
    BY <1>0, <2>1, AppendFacts
  <2> QED
    BY <2>1, <2>2 DEF StillThere, Last
<1>4. CASE SeesFrame
  BY <1>4 DEF SeesFrame, StillThere, buffers
<1>5. CASE HasImu
  BY <1>5 DEF HasImu, StillThere, IMUAvailable, buffers, Last
<1>6. CASE BeginInterval
  <2>1. UNCHANGED <<feature, accBuf, featureBuf, restarts>> /\ pc = "pop" /\ pc' \in {"interval", "frame"}
    BY <1>6 DEF BeginInterval, buffers, restart
  <2> QED
    BY <2>1 DEF StillThere, Last
<1>7. CASE CopyFrame \/ CallReturns \/ ProcessImage \/ Ready
  <2>1. UNCHANGED <<accBuf, featureBuf, restarts>> /\ pc' \in {"copied", "idle", "ready", "front"}
    <3>1. CASE CopyFrame
      BY <3>1 DEF CopyFrame, buffers, restart
    <3>2. CASE CallReturns \/ ProcessImage \/ Ready
      BY <3>2 DEF CallReturns, ProcessImage, Ready, buffers, restart
    <3> QED
      BY <1>7, <3>1, <3>2
  <2>2. pc' = "front" => pc = "front"
    BY <1>7 DEF CopyFrame, CallReturns, ProcessImage, Ready
  <2> QED
    BY <2>1, <2>2 DEF StillThere
<1>8. CASE EndInterval
  <2>1. CASE accBuf = <<>>
    <3>1. UNCHANGED <<accBuf, pc, feature, featureBuf, restarts>>
      BY <1>8, <2>1 DEF EndInterval, restart
    <3> QED
      BY <3>1 DEF StillThere, Last
  <2>2. CASE accBuf # <<>>
    <3>1. pc' = "frame"
      BY <1>8, <2>2 DEF EndInterval
    <3> QED
      BY <3>1 DEF StillThere
  <2> QED
    BY <2>1, <2>2
<1>9. CASE PopFrame
  <2>1. pc' \in {"frame", "imu"}
    BY <1>9 DEF PopFrame
  <2> QED
    BY <2>1 DEF StillThere
<1>10. CASE ClearFeatures \/ ClearEstimate
  <2>1. UNCHANGED restarts /\ clearing # "no"
    BY <1>10 DEF ClearFeatures, ClearEstimate
  <2>2. restarts' # 0
    BY <1>0, <2>1 DEF ClearedFirst
  <2> QED
    BY <2>2 DEF StillThere
<1>11. CASE ~(InputIMU \/ Clear \/ InputImage \/ SeesFrame \/ HasImu \/ BeginInterval \/ CopyFrame
              \/ CallReturns \/ ProcessImage \/ Ready \/ EndInterval \/ PopFrame)
  <2>1. UNCHANGED <<accBuf, featureBuf, pc, feature, restarts>>
    BY <1>11 DEF Next, Callback, Sync, Process, vars, thread, buffers, restart, Img0Callback,
       Img1Callback, Predict, SyncMono, ThrowImg0, ThrowImg1, SyncPair
  <2> QED
    BY <2>1 DEF StillThere, Last
<1> QED
  BY <1>1, <1>2, <1>3, <1>4, <1>5, <1>6, <1>7, <1>8, <1>9, <1>10, <1>11 DEF Clear

LEMMA PopsStep ==
  ASSUME TypeOK, TypeOK', ClearedFirst, StillThere, PopsItsFrame, [Next]_vars
  PROVE  PopsItsFrame'
<1> SUFFICES ASSUME restarts' = 0
             PROVE  /\ ~undefined'
                    /\ pc' \in BeforePop => featureBuf' # <<>> /\ Head(featureBuf') = feature'
  BY DEF PopsItsFrame, BeforePop
<1>0. featureBuf \in Seq(Stamps) /\ image \in Stamps /\ restarts \in Nat
  BY TypeParts
<1>1. restarts = 0 /\ restarts' = restarts /\ ~Clear
  <2>1. CASE ClearImu
    <3>1. restarts' = restarts + 1
      BY <2>1 DEF ClearImu
    <3> QED
      BY <1>0, <3>1
  <2>2. CASE ClearFeatures \/ ClearEstimate
    BY <2>2 DEF ClearFeatures, ClearEstimate, ClearedFirst
  <2>3. CASE ~Clear
    BY <2>3 DEF Next, Callback, Sync, Process, vars, restart, Img0Callback, Img1Callback, InputIMU,
       Predict, SyncMono, ThrowImg0, ThrowImg1, SyncPair, InputImage, SeesFrame, CopyFrame, CallReturns,
       HasImu, BeginInterval, EndInterval, PopFrame, ProcessImage, Ready
  <2> QED
    BY <2>1, <2>2, <2>3 DEF Clear
<1>2. ~undefined /\ (pc \in BeforePop => featureBuf # <<>> /\ Head(featureBuf) = feature)
  BY <1>1 DEF PopsItsFrame, BeforePop
<1>3. CASE CopyFrame
  <2>1. featureBuf # <<>>
    BY <1>1, <1>3 DEF CopyFrame, StillThere
  <2> QED
    BY <1>2, <1>3, <2>1 DEF CopyFrame, OldestFrame, buffers
<1>4. CASE InputImage
  <2>1. (pc' = pc \/ pc' = "call") /\ feature' = feature /\ undefined' = undefined
    BY <1>4 DEF InputImage
  <2>2. featureBuf' \in {featureBuf, Append(featureBuf, image)}
    BY <1>4 DEF InputImage
  <2> QED
    BY <1>0, <1>2, <2>1, <2>2, AppendFacts DEF BeforePop
<1>5. CASE HasImu \/ BeginInterval
  <2>1. pc \in BeforePop /\ UNCHANGED <<feature, featureBuf, undefined>>
    BY <1>5 DEF HasImu, BeginInterval, buffers, BeforePop
  <2> QED
    BY <1>2, <2>1
<1>6. CASE EndInterval
  <2>1. accBuf # <<>>
    BY <1>1, <1>6 DEF EndInterval, StillThere
  <2>2. pc \in BeforePop /\ UNCHANGED <<feature, featureBuf, undefined>>
    BY <1>6, <2>1 DEF EndInterval, BeforePop
  <2> QED
    BY <1>2, <2>2
<1>7. CASE PopFrame
  <2>1. featureBuf # <<>>
    BY <1>2, <1>7 DEF PopFrame, BeforePop
  <2> QED
    BY <1>2, <1>7, <2>1 DEF PopFrame, BeforePop
<1>8. CASE ProcessImage \/ CallReturns \/ Ready \/ SeesFrame
  BY <1>2, <1>8 DEF ProcessImage, CallReturns, Ready, SeesFrame, BeforePop
<1>9. CASE ~(CopyFrame \/ InputImage \/ HasImu \/ BeginInterval \/ EndInterval \/ PopFrame \/ ProcessImage
             \/ CallReturns \/ Ready \/ SeesFrame)
  <2>1. UNCHANGED <<feature, featureBuf, pc, undefined>>
    BY <1>1, <1>9 DEF Next, Callback, Sync, Process, vars, thread, buffers, Img0Callback, Img1Callback,
       InputIMU, Predict, SyncMono, ThrowImg0, ThrowImg1, SyncPair
  <2> QED
    BY <1>2, <2>1
<1> QED
  BY <1>3, <1>4, <1>5, <1>6, <1>7, <1>8, <1>9

-----------------------------------------------------------------------------
(* The data of a frame.                                                    *)

(* inputIMU adds a datum that is newer than all others.                    *)
LEMMA NewDatum ==
  ASSUME TypeOK, InputIMU
  PROVE  \E t \in Stamps : /\ t \in Nat /\ t > stampImu /\ imu' = imu \cup {t}
                           /\ accBuf' = Append(accBuf, t)
                           /\ UNCHANGED <<pc, feature, curTime, prevTime, accVector, restarts>>
<1>1. PICK t \in stampImu + 1 .. stampImu + 2 :
        t <= LastImu /\ imu' = imu \cup {t} /\ accBuf' = Append(accBuf, t)
  BY DEF InputIMU
<1>2. t \in Stamps /\ t \in Nat /\ t > stampImu
  BY <1>1, NumberFacts DEF Stamps
<1>3. UNCHANGED <<pc, feature, curTime, prevTime, accVector, restarts>>
  BY DEF InputIMU, thread, restart
<1> QED
  BY <1>1, <1>2, <1>3

(* The thread is past the taking, or not, before and after other steps.    *)
LEMMA ImuPhaseKept ==
  ASSUME TypeOK, ImagesOrdered, [Next]_vars, ~Senses, ~BeginInterval
  PROVE  /\ pc' \in {"frame", "imu"} <=> pc \in {"frame", "imu"}
         /\ pc \in {"frame", "imu"} => feature' = feature /\ curTime' = curTime
  BY DEF ImagesOrdered, Senses, Next, Callback, Sync, Process, vars, modes, sensed, queues, syncer,
         buffers, thread, solver, latest, Img0Callback, Img1Callback, Predict, SyncMono, ThrowImg0,
         ThrowImg1, SyncPair, InputImage, SeesFrame, CopyFrame, CallReturns, HasImu, PopFrame, Ready

(* The frame before is not newer than what getIMUInterval is asked for.    *)
LEMMA ClocksOrdered ==
  ASSUME TypeOK, FramesOrdered, ClockSet, pc \in InHand
  PROVE  prevTime < curTime \/ (prevTime = 0 /\ curTime = 0)
  BY NumberFacts DEF FramesOrdered, ClockSet

LEMMA DataStep ==
  ASSUME TypeOK, TypeOK', ImuOrdered, ClearedFirst, ImagesOrdered, FramesOrdered, ClockSet, DataKept,
         [Next]_vars
  PROVE  DataKept'
<1>0. /\ accBuf \in Seq(Stamps) /\ feature \in Nat /\ curTime \in Nat /\ prevTime \in Nat
      /\ stampImu \in Nat /\ \A t \in imu : t \in Nat
  BY TypeParts, NumberFacts
<1>1. CASE InputIMU
  <2>1. PICK t \in Stamps : /\ imu' = imu \cup {t} /\ accBuf' = Append(accBuf, t) /\ t \in Nat /\ t > stampImu
                            /\ UNCHANGED <<pc, curTime, prevTime>>
    BY <1>1, NewDatum
  <2>2. \A k \in DOMAIN accBuf : k \in DOMAIN accBuf' /\ accBuf'[k] = accBuf[k]
    BY <1>0, <2>1, AppendFacts
  <2>3. \E k \in DOMAIN accBuf' : accBuf'[k] = t
    <3>1. accBuf' \in Seq(Stamps) /\ accBuf' # <<>> /\ Last(Append(accBuf, t)) = t
      BY <1>0, <2>1, AppendFacts
    <3>2. Len(accBuf') \in DOMAIN accBuf' /\ accBuf'[Len(accBuf')] = t
      BY <2>1, <3>1, SeqFacts
    <3> QED
      BY <3>2
  <2>4. t > 0
    BY <1>0, <2>1
  <2> QED
    BY <2>1, <2>2, <2>3, <2>4 DEF DataKept
<1>2. CASE Clear
  <2>1. imu' = {}
    BY <1>2 DEF Clear, ClearImu, ClearFeatures, ClearEstimate, ClearedFirst, sensed
  <2> QED
    BY <2>1 DEF DataKept
<1>6. CASE BeginInterval
  <2>1. UNCHANGED <<imu, accBuf, curTime, prevTime>> /\ pc = "pop" /\ pc \in InHand
    BY <1>6 DEF BeginInterval, sensed, buffers, InHand, BeforePop
  <2>2. \A t \in imu : t > 0 /\ (prevTime < t => \E k \in DOMAIN accBuf : accBuf[k] = t)
    BY <2>1 DEF DataKept
  <2>3. \A t \in imu : curTime <= t => prevTime < t
    BY <1>0, <2>1, <2>2, ClocksOrdered
  <2> QED
    BY <2>1, <2>2, <2>3 DEF DataKept
<1>3. CASE EndInterval
  <2>0. /\ pc = "interval" /\ curTime' = curTime /\ prevTime' = prevTime /\ imu' = imu /\ pc \in InHand
    BY <1>3 DEF EndInterval, sensed, InHand, BeforePop
  <2>1. \A t \in imu : curTime <= t => prevTime < t /\ \E k \in DOMAIN accBuf : accBuf[k] = t
    <3>1. \A t \in imu : curTime <= t => prevTime < t
      <4>1. \A t \in imu : t > 0
        BY DEF DataKept
      <4> QED
        BY <1>0, <2>0, <4>1, ClocksOrdered
    <3> QED
      BY <2>0, <3>1 DEF DataKept
  <2>2. CASE accBuf # <<>>
    <3>0. pc' = "frame"
      BY <1>3, <2>2 DEF EndInterval
    <3>1. PICK first \in DOMAIN accBuf, last \in DOMAIN accBuf :
            /\ last \in first .. Len(accBuf) /\ Len(accBuf) \in last .. Len(accBuf)
            /\ Interval(prevTime, curTime, first, last)
            /\ accBuf' = SubSeq(accBuf, last, Len(accBuf))
      BY <1>3, <2>2, TakenFrom
    <3>2. ASSUME NEW t \in imu, curTime <= t
          PROVE  \E k \in DOMAIN accBuf' : accBuf'[k] = t
      <4>1. PICK j \in DOMAIN accBuf : accBuf[j] = t
        BY <2>1, <3>2
      <4>2. /\ Len(accBuf) \in Nat /\ j \in 1 .. Len(accBuf) /\ first \in 1 .. Len(accBuf)
            /\ last \in 1 .. Len(accBuf) /\ first <= last /\ t \in Nat
        BY <1>0, <3>1, <4>1, SeqFacts
      <4>3. ~(j <= first - 1)
        <5>1. j \in 1 .. first - 1 => accBuf[j] <= prevTime
          BY <3>1 DEF Interval
        <5>2. ~(t <= prevTime)
          BY <1>0, <2>1, <3>2, <4>2
        <5> QED
          BY <4>1, <4>2, <5>1, <5>2
      <4>4. ~(first <= j /\ j <= last - 1)
        <5>1. j \in first .. last - 1 => accBuf[j] < curTime
          BY <3>1 DEF Interval
        <5> QED
          BY <1>0, <3>2, <4>1, <4>2, <5>1
      <4>5. j >= last
        BY <4>2, <4>3, <4>4
      <4>6. j - last + 1 \in 1 .. Len(accBuf) - last + 1 /\ last + (j - last + 1) - 1 = j
        BY <4>2, <4>5
      <4>7. /\ DOMAIN accBuf' = 1 .. Len(accBuf) - last + 1
            /\ \A k \in 1 .. Len(accBuf) - last + 1 : accBuf'[k] = accBuf[last + k - 1]
        BY <1>0, <3>1, SubSeqFacts
      <4>8. accBuf'[j - last + 1] = accBuf[last + (j - last + 1) - 1]
        BY <4>6, <4>7
      <4> QED
        BY <4>1, <4>6, <4>7, <4>8
    <3> QED
      BY <2>0, <3>0, <3>2 DEF DataKept
  <2>3. CASE accBuf = <<>>
    <3>1. accBuf' = accBuf /\ pc' = pc
      BY <1>3, <2>3 DEF EndInterval
    <3> QED
      BY <2>0, <3>1 DEF DataKept
  <2> QED
    BY <2>2, <2>3
<1>4. CASE ProcessImage
  <2>1. /\ pc = "imu" /\ pc' \in {"idle", "ready"} /\ prevTime' = curTime /\ imu' = imu
        /\ accBuf' = accBuf
    BY <1>4 DEF ProcessImage, sensed, buffers
  <2>2. \A t \in imu : curTime < t => curTime <= t
    BY <1>0
  <2> QED
    BY <2>1, <2>2 DEF DataKept
<1>5. CASE ~Senses /\ ~BeginInterval
  BY <1>5, ImuLeftAlone, ImuPhaseKept DEF DataKept
<1> QED
  BY <1>1, <1>2, <1>3, <1>4, <1>5, <1>6 DEF Senses

(* The data a frame has taken stay as they are, and more may arrive.       *)
LEMMA CompleteStays ==
  ASSUME TypeOK, TypeOK', ImuOrdered, Complete, UNCHANGED <<feature, prevTime, accVector>>,
         restarts' = restarts \/ restarts' > 0, restarts # 0 => restarts' # 0,
         \/ imu' = {} /\ restarts' > 0
         \/ UNCHANGED <<imu, accBuf>>
         \/ \E t \in Stamps : t \in Nat /\ t > stampImu /\ imu' = imu \cup {t} /\ accBuf' = Append(accBuf, t)
  PROVE  Complete'
<1>0. /\ accBuf \in Seq(Stamps) /\ accVector \in Seq(Stamps) /\ feature \in Nat
      /\ stampImu \in Nat /\ restarts \in Nat /\ restarts' \in Nat
  <2>1. restarts' \in 0 .. MaxRestarts
    BY DEF TypeOK
  <2>2. restarts' \in Nat
    BY <2>1, RateAssumption
  <2> QED
    BY <2>2, TypeParts DEF Stamps, LastImu
<1>1. CASE accVector = <<>>
  BY <1>0, <1>1 DEF Complete
<1>2. CASE accVector # <<>>
  <2>1. /\ Last(accVector) >= feature
        /\ \A t \in imu : prevTime < t /\ t < feature => \E k \in DOMAIN accVector : accVector[k] = t
        /\ restarts = 0 => accBuf # <<>> /\ Head(accBuf) = Last(accVector)
    BY <1>2 DEF Complete
  <2>2. \A t \in imu' : prevTime < t /\ t < feature => \E k \in DOMAIN accVector : accVector[k] = t
    <3>1. CASE \E t \in Stamps : t \in Nat /\ t > stampImu /\ imu' = imu \cup {t}
      <4>1. PICK t \in Stamps : t \in Nat /\ t > stampImu /\ imu' = imu \cup {t}
        BY <3>1
      <4>2. Last(accVector) <= stampImu /\ Last(accVector) \in Nat
        BY <1>0, <1>2, SeqFacts, StampsFacts DEF ImuOrdered
      <4>3. ~(t < feature)
        BY <1>0, <2>1, <4>1, <4>2
      <4> QED
        BY <2>1, <4>1, <4>3
    <3>2. CASE imu' = {} \/ imu' = imu
      BY <2>1, <3>2
    <3> QED
      BY <3>1, <3>2
  <2>3. restarts' = 0 => accBuf' # <<>> /\ Head(accBuf') = Last(accVector)
    <3>1. SUFFICES ASSUME restarts' = 0 PROVE accBuf' # <<>> /\ Head(accBuf') = Last(accVector)
      OBVIOUS
    <3>2. accBuf # <<>> /\ Head(accBuf) = Last(accVector)
      BY <1>0, <2>1, <3>1
    <3>3. accBuf' = accBuf \/ \E t \in Stamps : accBuf' = Append(accBuf, t)
      BY <1>0, <3>1
    <3> QED
      BY <1>0, <3>2, <3>3, AppendFacts
  <2> QED
    BY <1>2, <2>1, <2>2, <2>3 DEF Complete, Last
<1> QED
  BY <1>1, <1>2

LEMMA TakenStep ==
  ASSUME TypeOK, TypeOK', ImuOrdered, ClearedFirst, ImagesOrdered, FramesOrdered, ClockSet, DataKept,
         StillThere, TakenComplete, [Next]_vars
  PROVE  TakenComplete'
<1>0. /\ accBuf \in Seq(Stamps) /\ accVector \in Seq(Stamps) /\ feature \in Nat /\ prevTime \in Nat
      /\ curTime \in Nat /\ stampImu \in Nat /\ restarts \in Nat /\ \A t \in imu : t \in Nat
  BY TypeParts, NumberFacts
<1>1. CASE InputIMU
  <2>1. PICK t \in Stamps : /\ t \in Nat /\ t > stampImu /\ imu' = imu \cup {t}
                            /\ accBuf' = Append(accBuf, t)
                            /\ UNCHANGED <<pc, feature, curTime, prevTime, accVector, restarts>>
    BY <1>1, NewDatum
  <2>2. Complete => Complete'
    BY <2>1, CompleteStays
  <2> QED
    BY <2>1, <2>2 DEF TakenComplete
<1>2. CASE ClearImu \/ ClearFeatures
  <2>1. /\ UNCHANGED <<pc, feature, curTime, prevTime, accVector>> /\ imu' = {} /\ restarts' > 0
    BY <1>0, <1>2 DEF ClearImu, ClearFeatures, ClearedFirst, thread, sensed
  <2>2. restarts' = restarts \/ restarts' > 0
    BY <2>1
  <2>3. Complete => Complete'
    BY <1>0, <2>1, <2>2, CompleteStays
  <2> QED
    BY <2>1, <2>3 DEF TakenComplete
<1>3. CASE ClearEstimate
  <2>1. UNCHANGED <<pc, feature, accVector>> /\ curTime' = 0
    BY <1>3 DEF ClearEstimate
  <2>2. pc \in {"frame", "imu"} => feature # 0
    BY <1>0 DEF FramesOrdered, InHand, BeforePop
  <2> QED
    BY <2>1, <2>2 DEF TakenComplete
<1>4. CASE BeginInterval
  <2>1. /\ UNCHANGED <<feature, curTime, accVector, restarts>> /\ pc = "pop" /\ accVector = <<>>
        /\ pc' = IF IMUAvailable(curTime) THEN "interval" ELSE "frame"
    BY <1>4 DEF BeginInterval, restart, TakenComplete
  <2>2. pc' = "frame" /\ curTime = feature => restarts > 0
    <3>1. SUFFICES ASSUME pc' = "frame", curTime = feature, restarts = 0 PROVE FALSE
      BY <1>0
    <3>2. accBuf # <<>> /\ feature <= Last(accBuf)
      BY <2>1, <3>1 DEF StillThere
    <3>3. IMUAvailable(curTime)
      BY <3>1, <3>2 DEF IMUAvailable
    <3> QED
      BY <2>1, <3>1, <3>3
  <2> QED
    BY <2>1, <2>2 DEF TakenComplete, Complete
<1>5. CASE EndInterval
  <2>0. /\ pc = "interval" /\ feature' = feature /\ curTime' = curTime /\ prevTime' = prevTime /\ imu' = imu
    BY <1>5 DEF EndInterval, sensed
  <2>1. CASE accBuf = <<>>
    <3>1. pc' = pc /\ accVector' = accVector
      BY <1>5, <2>1 DEF EndInterval
    <3> QED
      BY <2>0, <3>1 DEF TakenComplete
  <2>2. CASE accBuf # <<>>
    <3> SUFFICES ASSUME curTime = feature PROVE Complete'
      BY <1>5, <2>0, <2>2 DEF TakenComplete, EndInterval
    <3>1. PICK first \in DOMAIN accBuf, last \in DOMAIN accBuf :
            /\ last \in first .. Len(accBuf) /\ Len(accBuf) \in last .. Len(accBuf)
            /\ Interval(prevTime, feature, first, last)
            /\ accVector' = SubSeq(accBuf, first, last) /\ accBuf' = SubSeq(accBuf, last, Len(accBuf))
      BY <1>5, <2>2, TakenFrom
    <3>2. Last(accVector') = accBuf[last] /\ accBuf' # <<>> /\ Head(accBuf') = accBuf[last]
      BY <1>0, <3>1, SubSeqFacts
    <3>3. accBuf[last] >= feature
      BY <3>1 DEF Interval
    <3>4. ASSUME NEW t \in imu, prevTime < t, t < feature
          PROVE  \E k \in DOMAIN accVector' : accVector'[k] = t
      <4>1. PICK j \in DOMAIN accBuf : accBuf[j] = t
        BY <2>0, <3>4 DEF DataKept
      <4>2. /\ Len(accBuf) \in Nat /\ j \in 1 .. Len(accBuf) /\ first \in 1 .. Len(accBuf)
            /\ last \in 1 .. Len(accBuf) /\ first <= last /\ t \in Nat /\ accBuf[last] \in Nat
        BY <1>0, <3>1, <4>1, SeqFacts
      <4>3. ~(j <= first - 1)
        <5>1. j \in 1 .. first - 1 => accBuf[j] <= prevTime
          BY <3>1 DEF Interval
        <5> QED
          BY <1>0, <3>4, <4>1, <4>2, <5>1
      <4>4. ~(last < j)
        <5>1. last < j => accBuf[last] < accBuf[j]
          BY DEF ImuOrdered, Increasing
        <5> QED
          BY <1>0, <3>3, <3>4, <4>1, <4>2, <5>1
      <4>5. j - first + 1 \in 1 .. last - first + 1 /\ first + (j - first + 1) - 1 = j
        BY <4>2, <4>3, <4>4
      <4>6. /\ DOMAIN accVector' = 1 .. last - first + 1
            /\ \A k \in 1 .. last - first + 1 : accVector'[k] = accBuf[first + k - 1]
        BY <1>0, <3>1, SubSeqFacts
      <4>7. accVector'[j - first + 1] = accBuf[first + (j - first + 1) - 1]
        BY <4>5, <4>6
      <4> QED
        BY <4>1, <4>5, <4>6, <4>7
    <3>5. accVector' # <<>>
      <4>1. DOMAIN accVector' = 1 .. last - first + 1 /\ first \in Nat /\ last \in Nat /\ first <= last
        BY <1>0, <3>1, SubSeqFacts, SeqFacts
      <4>2. 1 \in DOMAIN accVector'
        BY <4>1
      <4> QED
        BY <4>2
    <3> QED
      BY <2>0, <3>2, <3>3, <3>4, <3>5 DEF Complete
  <2> QED
    BY <2>1, <2>2
<1>6. CASE ProcessImage
  BY <1>6 DEF ProcessImage, TakenComplete
<1>7. CASE ~Senses /\ ~BeginInterval
  <2>1. /\ pc' \in {"frame", "imu"} <=> pc \in {"frame", "imu"}
        /\ pc \in {"frame", "imu"} => feature' = feature /\ curTime' = curTime
    BY <1>7, ImuPhaseKept
  <2>2. UNCHANGED <<imu, accBuf, accVector, prevTime, restarts>>
    BY <1>7, ImuLeftAlone
  <2>3. feature' = feature /\ Complete => Complete'
    BY <2>2 DEF Complete, Last
  <2> QED
    BY <2>1, <2>2, <2>3 DEF TakenComplete
<1> QED
  BY <1>1, <1>2, <1>3, <1>4, <1>5, <1>6, <1>7 DEF Senses, Clear

-----------------------------------------------------------------------------
(* The theorems.                                                           *)

LEMMA InitInv == Init => IInv
<1> SUFFICES ASSUME Init PROVE IInv
  OBVIOUS
<1>1. /\ stamp0 = 0 /\ stamp1 = 0 /\ stampImu = 0 /\ imu = {} /\ img0_buf = <<>> /\ img1_buf = <<>>
      /\ image = 0 /\ inputImageCnt = 0 /\ featureBuf = <<>> /\ accBuf = <<>> /\ pc = "idle"
      /\ feature = 0 /\ accVector = <<>> /\ curTime = 0 /\ prevTime = 0 /\ undefined = FALSE /\ frames = 0
      /\ solver_flag = "INITIAL" /\ predicting = 0 /\ latest_time = 0 /\ clearing = "no"
      /\ restarts = 0
  BY DEF Init
<1>2. 0 \in Stamps /\ <<>> \in Seq(Stamps) /\ DOMAIN img0_buf = {} /\ DOMAIN featureBuf = {} /\ DOMAIN accBuf = {}
  BY <1>1, StampsFacts, EmptySeq DEF Stamps
<1>3. STEREO \in BOOLEAN /\ MULTIPLE_THREAD \in BOOLEAN
  BY ModeAssumption DEF Init
<1>4. 0 \in 0 .. InitFrames /\ 0 \in 0 .. MaxRestarts
  BY RateAssumption
<1>5. TypeOK
  BY <1>1, <1>2, <1>3, <1>4 DEF TypeOK
<1>6. ImuOrdered /\ PredictsNewest /\ ClearedFirst /\ EmptyWhileInitial /\ DataKept
  BY <1>1, <1>2 DEF ImuOrdered, Increasing, PredictsNewest, ClearedFirst, EmptyWhileInitial, DataKept
<1>7. Taken = {0}
  BY <1>1, <1>2 DEF Taken, Handed
<1>8. ImagesOrdered /\ FramesOrdered /\ ClockSet
  BY <1>1, <1>2, <1>7 DEF ImagesOrdered, FramesOrdered, ClockSet, Increasing, InHand, BeforePop
<1>9. TakenComplete /\ StillThere /\ PopsItsFrame
  BY <1>1, <1>5 DEF TakenComplete, StillThere, PopsItsFrame
<1> QED
  BY <1>5, <1>6, <1>8, <1>9 DEF IInv

LEMMA NextInv == IInv /\ [Next]_vars => IInv'
<1> SUFFICES ASSUME IInv, [Next]_vars PROVE IInv'
  OBVIOUS
<1>1. /\ TypeOK /\ ImuOrdered /\ PredictsNewest /\ ClearedFirst /\ EmptyWhileInitial /\ ImagesOrdered
      /\ FramesOrdered /\ ClockSet /\ DataKept /\ TakenComplete /\ StillThere /\ PopsItsFrame
  BY DEF IInv
<1>2. TypeOK'
  BY <1>1, TypeStep
<1>3. ImuOrdered' /\ PredictsNewest' /\ ClearedFirst' /\ EmptyWhileInitial'
  BY <1>1, <1>2, ImuOrderedStep, PredictsStep, ClearedStep, EmptyStep
<1>4. ImagesOrdered' /\ FramesOrdered' /\ ClockSet'
  BY <1>1, <1>2, ImagesStep, FramesStep, ClockStep
<1>5. DataKept' /\ TakenComplete'
  BY <1>1, <1>2, DataStep, TakenStep
<1>6. StillThere' /\ PopsItsFrame'
  BY <1>1, <1>2, StillThereStep, PopsStep
<1> QED
  BY <1>2, <1>3, <1>4, <1>5, <1>6 DEF IInv

LEMMA Invariance == Spec => []IInv
  BY InitInv, NextInv, PTL DEF Spec

(* Every variable keeps its type: no stamp leaves the range, no queue      *)
(* holds anything but stamps.                                              *)
THEOREM TypeCorrect == Spec => []TypeOK
<1>1. IInv => TypeOK
  BY DEF IInv
<1> QED
  BY <1>1, Invariance, PTL

(* getIMUInterval leaves no datum between two frames out, takes one at or  *)
(* after the frame, and keeps it for the next, for every frame whose       *)
(* curTime clearState has not set back while it was in hand.               *)
THEOREM ImuComplete == Spec => []ImuDataComplete
<1>1. IInv => ImuDataComplete
  BY DEF IInv, TakenComplete, Complete, ImuDataComplete
<1> QED
  BY <1>1, Invariance, PTL

(* processMeasurements pops the frame it copied, and finds no queue empty  *)
(* that was not when it looked, without a restart.                         *)
THEOREM PopsWhatItCopied == Spec => []PopsItsFrame
<1>1. IInv => PopsItsFrame
  BY DEF IInv
<1> QED
  BY <1>1, Invariance, PTL

(* inputIMU and updateLatestStates never set latest_time back, after a     *)
(* restart neither.                                                        *)
THEOREM OdometryMovesForward == Spec => OdometryForward
<1>1. IInv /\ IInv' /\ [Next]_vars => [latest_time' >= latest_time]_vars
  BY PredictsStep DEF IInv
<1> QED
  BY <1>1, Invariance, PTL DEF Spec, OdometryForward
=============================================================================
