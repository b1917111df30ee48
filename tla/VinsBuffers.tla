------------------------------ MODULE VinsBuffers ------------------------------
(***************************************************************************)
(* The buffers of the VINS node and the threads that share them: the ROS   *)
(* callbacks (one thread), sync_process(), which pairs the images, and     *)
(* processMeasurements(), a thread of its own or, without MULTIPLE_THREAD, *)
(* a call at the end of inputImage().                                      *)
(*                                                                         *)
(* Time is counted in IMU periods.  A message is its time stamp; any       *)
(* message may be lost, none overtakes another of its topic.  What the     *)
(* estimator computes is left out: VinsWindow is about that.               *)
(*                                                                         *)
(* One operation of a queue is one step.  clearState empties the queues    *)
(* under mProcess, the others use them under mBuf or under no lock: what a *)
(* thread has checked may be gone when it uses it, and of a process that   *)
(* takes from an empty queue nothing more is said.                         *)
(***************************************************************************)
EXTENDS Integers, Sequences

CONSTANTS
  Cameras,        \* what STEREO may be
  ThreadModes,    \* what MULTIPLE_THREAD may be
  Period,         \* IMU periods from one image to the next
  InitFrames,     \* frames the estimator takes to initialize, at least
  MaxTime,        \* bound: the stamp of the last image
  MaxSkew,        \* bound: how far the messages of a sensor run ahead of another's
  MaxRestarts     \* bound: messages on the restart topic

ASSUME RateAssumption ==
  /\ Period \in Nat \ {0} /\ InitFrames \in Nat \ {0}
  /\ MaxTime \in Nat /\ MaxSkew \in Nat /\ MaxRestarts \in Nat
ASSUME ModeAssumption == Cameras \subseteq BOOLEAN /\ ThreadModes \subseteq BOOLEAN

VARIABLES
  STEREO, MULTIPLE_THREAD,
  stamp0, stamp1, stampImu,  \* the newest each sensor has sent
  imu,                       \* the IMU data that arrived
  img0_buf, img1_buf,
  image,                     \* the image, or pair, sync_process() has in hand, or 0
  inputImageCnt,             \* modulo 2
  featureBuf, accBuf,        \* gyrBuf is always as accBuf
  pc,                        \* processMeasurements()
  feature,                   \* its copy of the frame it works on, 0 for none
  accVector,
  curTime,                   \* of the frame it works on, unless it was cleared since
  prevTime,                  \* 0 for none
  frames,                    \* frames since the (re)start, up to InitFrames
  solver_flag,
  predicting,                \* the IMU data inputIMU() has pushed, not yet predicted from
  latest_time,
  clearing,                  \* what clearState() has emptied, "no" when it is not running
  restarts,
  undefined                  \* front() or pop() was called on an empty queue

modes   == <<STEREO, MULTIPLE_THREAD>>
sensed  == <<stamp0, stamp1, stampImu, imu>>
queues  == <<img0_buf, img1_buf>>
syncer  == <<image, inputImageCnt>>
buffers == <<featureBuf, accBuf>>
thread  == <<pc, feature, accVector, curTime, prevTime, undefined>>
solver  == <<frames, solver_flag>>
latest  == <<predicting, latest_time>>
restart == <<clearing, restarts>>
vars    == <<modes, sensed, queues, syncer, buffers, thread, solver, latest, restart>>

Last(s) == s[Len(s)]
LastImu == MaxTime + 1

Init ==
  /\ STEREO \in Cameras /\ MULTIPLE_THREAD \in ThreadModes
  /\ stamp0 = 0 /\ stamp1 = 0 /\ stampImu = 0 /\ imu = {}
  /\ img0_buf = <<>> /\ img1_buf = <<>> /\ image = 0 /\ inputImageCnt = 0
  /\ featureBuf = <<>> /\ accBuf = <<>>
  /\ pc = "idle" /\ feature = 0 /\ accVector = <<>> /\ curTime = 0 /\ prevTime = 0
  /\ undefined = FALSE
  /\ frames = 0 /\ solver_flag = "INITIAL"
  /\ predicting = 0 /\ latest_time = 0 /\ clearing = "no" /\ restarts = 0

-----------------------------------------------------------------------------
(* The callbacks, one at a time: the thread may be in the middle of one.   *)

CallbackFree == predicting = 0 /\ clearing = "no"

(* processMeasurements holds the lock of the buffers.                      *)
mBuf == pc \in {"interval", "frame"}

Img0Callback ==
  /\ CallbackFree
  /\ \E t \in {s \in stamp0 + 1 .. MaxTime : s % Period = 0 /\ s <= stampImu + MaxSkew} :
       stamp0' = t /\ img0_buf' = Append(img0_buf, t)
  /\ UNCHANGED <<modes, stamp1, stampImu, imu, img1_buf, syncer, buffers, thread, solver, latest,
                 restart>>

Img1Callback ==
  /\ CallbackFree /\ STEREO
  /\ \E t \in {s \in stamp1 + 1 .. MaxTime : s % Period = 0 /\ s <= stampImu + MaxSkew} :
       stamp1' = t /\ img1_buf' = Append(img1_buf, t)
  /\ UNCHANGED <<modes, stamp0, stampImu, imu, img0_buf, syncer, buffers, thread, solver, latest,
                 restart>>

(* inputIMU, first lock section; one datum of two may be lost, never the   *)
(* last.                                                                   *)
InputIMU ==
  /\ CallbackFree /\ ~mBuf
  /\ \E t \in {s \in stampImu + 1 .. stampImu + 2 : s <= LastImu} :
       /\ stampImu' = t /\ imu' = imu \cup {t}
       /\ accBuf' = Append(accBuf, t)
       /\ predicting' = t
  /\ UNCHANGED <<modes, stamp0, stamp1, queues, syncer, featureBuf, thread, solver, latest_time,
                 restart>>

(* inputIMU, after it: fastPredictIMU once the estimator is initialized.   *)
Predict ==
  /\ predicting # 0
  /\ latest_time' = IF solver_flag = "NON_LINEAR" THEN predicting ELSE latest_time
  /\ predicting' = 0
  /\ UNCHANGED <<modes, sensed, queues, syncer, buffers, thread, solver, restart>>

(* restart_callback, or the restart of changeSensorType: clearState holds  *)
(* mProcess from here on, but not the lock of the buffers.                 *)
ClearImu ==
  /\ CallbackFree /\ pc # "ready"
  /\ restarts < MaxRestarts /\ restarts' = restarts + 1
  /\ accBuf' = <<>> /\ imu' = {}
  /\ clearing' = "imu"
  /\ UNCHANGED <<modes, stamp0, stamp1, stampImu, queues, syncer, featureBuf, thread, solver, latest>>

ClearFeatures ==
  /\ clearing = "imu" /\ clearing' = "features"
  /\ featureBuf' = <<>>
  /\ UNCHANGED <<modes, sensed, queues, syncer, accBuf, thread, solver, latest, restarts>>

(* The rest of clearState: curTime goes too, whatever the thread is at.    *)
ClearEstimate ==
  /\ clearing = "features" /\ clearing' = "no"
  /\ prevTime' = 0 /\ curTime' = 0 /\ inputImageCnt' = 0
  /\ frames' = 0 /\ solver_flag' = "INITIAL"
  /\ UNCHANGED <<modes, sensed, queues, image, buffers, pc, feature, accVector, undefined, latest,
                 restarts>>

-----------------------------------------------------------------------------
(* sync_process.                                                           *)

SyncFree == image = 0 /\ (MULTIPLE_THREAD \/ pc = "idle")

SyncMono ==
  /\ SyncFree /\ ~STEREO /\ img0_buf # <<>>
  /\ image' = Head(img0_buf) /\ img0_buf' = Tail(img0_buf)
  /\ UNCHANGED <<modes, sensed, img1_buf, inputImageCnt, buffers, thread, solver, latest, restart>>

(* The older of two images that differ by more than the tolerance goes.    *)
ThrowImg0 ==
  /\ SyncFree /\ STEREO /\ img0_buf # <<>> /\ img1_buf # <<>>
  /\ Head(img0_buf) < Head(img1_buf)
  /\ img0_buf' = Tail(img0_buf)
  /\ UNCHANGED <<modes, sensed, img1_buf, syncer, buffers, thread, solver, latest, restart>>

ThrowImg1 ==
  /\ SyncFree /\ STEREO /\ img0_buf # <<>> /\ img1_buf # <<>>
  /\ Head(img1_buf) < Head(img0_buf)
  /\ img1_buf' = Tail(img1_buf)
  /\ UNCHANGED <<modes, sensed, img0_buf, syncer, buffers, thread, solver, latest, restart>>

SyncPair ==
  /\ SyncFree /\ STEREO /\ img0_buf # <<>> /\ img1_buf # <<>>
  /\ Head(img0_buf) = Head(img1_buf)
  /\ image' = Head(img0_buf)
  /\ img0_buf' = Tail(img0_buf) /\ img1_buf' = Tail(img1_buf)
  /\ UNCHANGED <<modes, sensed, inputImageCnt, buffers, thread, solver, latest, restart>>

(* inputImage: every second image to the thread, or every one and a call.  *)
InputImage ==
  /\ image # 0 /\ image' = 0
  /\ inputImageCnt' = 1 - inputImageCnt
  /\ \/ MULTIPLE_THREAD /\ inputImageCnt' = 1 /\ featureBuf' = featureBuf
     \/ ~(MULTIPLE_THREAD /\ inputImageCnt' = 1) /\ ~mBuf /\ featureBuf' = Append(featureBuf, image)
  /\ pc' = IF MULTIPLE_THREAD THEN pc ELSE "call"
  /\ UNCHANGED <<modes, sensed, queues, accBuf, feature, accVector, curTime, prevTime, undefined, solver,
                 latest, restart>>

-----------------------------------------------------------------------------
(* processMeasurements.                                                    *)

OldestAvailable(t) == accBuf # <<>> /\ t <= Head(accBuf)

IMUAvailable(t) == accBuf # <<>> /\ t <= Last(accBuf)

NewestFrame == Last(featureBuf)

OldestFrame == Head(featureBuf)

(* There is a frame; no lock is held.                                      *)
SeesFrame ==
  /\ pc = (IF MULTIPLE_THREAD THEN "idle" ELSE "call") /\ featureBuf # <<>>
  /\ pc' = "front"
  /\ UNCHANGED <<modes, sensed, queues, syncer, buffers, feature, accVector, curTime, prevTime, undefined,
                 solver, latest, restart>>

(* The oldest one is copied.                                               *)
CopyFrame ==
  /\ pc = "front"
  /\ IF featureBuf = <<>>
     THEN undefined' = TRUE /\ UNCHANGED <<pc, feature, curTime>>
     ELSE /\ feature' = OldestFrame /\ curTime' = OldestFrame
          /\ pc' = "copied" /\ UNCHANGED undefined
  /\ UNCHANGED <<modes, sensed, queues, syncer, buffers, accVector, prevTime, solver, latest, restart>>

(* Without a thread the call returns when there is no frame or its IMU     *)
(* data is late; with one the thread tries again.                          *)
CallReturns ==
  /\ ~MULTIPLE_THREAD
  /\ \/ pc = "call" /\ featureBuf = <<>>
     \/ pc = "copied" /\ ~IMUAvailable(feature)
  /\ pc' = "idle" /\ feature' = 0
  /\ UNCHANGED <<modes, sensed, queues, syncer, buffers, accVector, curTime, prevTime, undefined, solver,
                 latest, restart>>

HasImu ==
  /\ pc = "copied" /\ IMUAvailable(feature)
  /\ pc' = "pop"
  /\ UNCHANGED <<modes, sensed, queues, syncer, buffers, feature, accVector, curTime, prevTime, undefined,
                 solver, latest, restart>>

(* What stays of accBuf, of which the k-th is the first that is not older  *)
(* than the frame.                                                         *)
AllButFirst(k) == SubSeq(accBuf, k + 1, Len(accBuf))

AllOf(k) == SubSeq(accBuf, k, Len(accBuf))

(* getIMUInterval: what is not newer than t0 goes, what is older than t1   *)
(* is taken, and the first that is not is taken too and stays.             *)
Interval(t0, t1, first, last) ==
  /\ \A k \in 1 .. first - 1 : accBuf[k] <= t0
  /\ accBuf[first] > t0
  /\ \A k \in first .. last - 1 : accBuf[k] < t1
  /\ accBuf[last] >= t1

(* The lock section begins, and getIMUInterval with what it asks of accBuf *)
(* first.                                                                  *)
BeginInterval ==
  /\ pc = "pop"
  /\ pc' = IF IMUAvailable(curTime) THEN "interval" ELSE "frame"
  /\ UNCHANGED <<modes, sensed, queues, syncer, buffers, feature, accVector, curTime, prevTime, undefined,
                 solver, latest, restart>>

EndInterval ==
  /\ pc = "interval"
  /\ IF accBuf = <<>>
     THEN undefined' = TRUE /\ UNCHANGED <<pc, accVector, accBuf>>
     ELSE /\ \E first \in DOMAIN accBuf : \E last \in first .. Len(accBuf) :
               /\ Interval(prevTime, curTime, first, last)
               /\ accVector' = SubSeq(accBuf, first, last) /\ accBuf' = AllOf(last)
          /\ pc' = "frame" /\ UNCHANGED undefined
  /\ UNCHANGED <<modes, sensed, queues, syncer, featureBuf, feature, curTime, prevTime, solver, latest,
                 restart>>

(* The frame goes, and the lock section ends.                              *)
PopFrame ==
  /\ pc = "frame"
  /\ IF featureBuf = <<>>
     THEN undefined' = TRUE /\ UNCHANGED <<pc, featureBuf>>
     ELSE featureBuf' = Tail(featureBuf) /\ pc' = "imu" /\ UNCHANGED undefined
  /\ UNCHANGED <<modes, sensed, queues, syncer, accBuf, feature, accVector, curTime, prevTime, solver,
                 latest, restart>>

(* updateLatestStates: where the prediction is after the replay.           *)
AtFrame == feature

Replayed == IF accBuf = <<>> THEN feature ELSE Last(accBuf)

(* processImage under mProcess, with updateLatestStates: the prediction    *)
(* starts again at the frame and catches up with all of accBuf.            *)
ProcessImage ==
  /\ pc = "imu" /\ clearing = "no"
  /\ prevTime' = curTime
  /\ frames' = IF frames < InitFrames THEN frames + 1 ELSE frames
  /\ \E done \in BOOLEAN :
       LET updated == solver_flag = "NON_LINEAR" \/ done
       IN  /\ done => frames = InitFrames
           /\ latest_time' = IF updated THEN Replayed ELSE latest_time
           /\ pc' = IF updated THEN "ready" ELSE "idle"
  /\ accVector' = <<>> /\ feature' = 0
  /\ UNCHANGED <<modes, sensed, queues, syncer, buffers, curTime, undefined, solver_flag, predicting,
                 restart>>

Ready ==
  /\ pc = "ready" /\ pc' = "idle"
  /\ solver_flag' = "NON_LINEAR"
  /\ UNCHANGED <<modes, sensed, queues, syncer, buffers, feature, accVector, curTime, prevTime, undefined,
                 frames, latest, restart>>

-----------------------------------------------------------------------------
Clear    == ClearImu \/ ClearFeatures \/ ClearEstimate
Callback == Img0Callback \/ Img1Callback \/ InputIMU \/ Predict \/ Clear
Sync     == SyncMono \/ ThrowImg0 \/ ThrowImg1 \/ SyncPair \/ InputImage
Process  == SeesFrame \/ CopyFrame \/ CallReturns \/ HasImu \/ BeginInterval \/ EndInterval \/ PopFrame
              \/ ProcessImage \/ Ready
Next     == ~undefined /\ (Callback \/ Sync \/ Process)

(* Each thread runs when it can, and the IMU does not fall silent.         *)
Fairness == WF_vars(InputIMU \/ Predict) /\ WF_vars(Sync) /\ WF_vars(Process)

Spec == Init /\ [][Next]_vars /\ Fairness

-----------------------------------------------------------------------------
(* Properties.                                                             *)

Stamps == 0 .. LastImu

TypeOK ==
  /\ STEREO \in BOOLEAN /\ MULTIPLE_THREAD \in BOOLEAN
  /\ {stamp0, stamp1, stampImu} \subseteq Stamps
  /\ imu \subseteq Stamps
  /\ \A s \in {img0_buf, img1_buf, featureBuf, accBuf, accVector} : s \in Seq(Stamps)
  /\ {image, feature, curTime, prevTime, predicting, latest_time} \subseteq Stamps
  /\ inputImageCnt \in {0, 1}
  /\ pc \in {"idle", "call", "front", "copied", "pop", "interval", "frame", "imu", "ready"}
  /\ frames \in 0 .. InitFrames /\ solver_flag \in {"INITIAL", "NON_LINEAR"}
  /\ clearing \in {"no", "imu", "features"} /\ restarts \in 0 .. MaxRestarts /\ undefined \in BOOLEAN

(* What a frame takes out of accBuf is complete: every datum that arrived  *)
(* between the frame before and this one, and one at or after it, which    *)
(* also stays for the next frame; however the callbacks, the waiting and   *)
(* what clearState empties fall between the check and the taking.  A frame *)
(* that clearState found in hand, having set curTime to 0, is the one      *)
(* exception: it is a first frame, and takes what datum comes first.       *)
ImuDataComplete ==
  pc = "imu" /\ curTime = feature =>
    \/ accVector = <<>> /\ restarts > 0
    \/ /\ accVector # <<>> /\ Last(accVector) >= feature
       /\ \A t \in imu : prevTime < t /\ t < feature => \E k \in DOMAIN accVector : accVector[k] = t
       /\ restarts = 0 => accBuf # <<>> /\ Head(accBuf) = Last(accVector)

(* The state is well formed, and without a restart the frame the thread    *)
(* copied from the front of featureBuf, without the lock, is the one it    *)
(* pops much later, and no queue is found empty that was checked before.   *)
PopsItsFrame ==
  /\ TypeOK
  /\ restarts = 0 => /\ ~undefined
                     /\ pc \in {"copied", "pop", "interval", "frame"} =>
                          featureBuf # <<>> /\ Head(featureBuf) = feature

(* The odometry that is published at the rate of the IMU never goes back   *)
(* in time, also when the prediction starts again at a frame that is older *)
(* than what has been predicted.                                           *)
OdometryForward == [][latest_time' >= latest_time]_vars

(* With a thread of its own, the estimator catches up with the frames that *)
(* are handed over, again and again, unless it is restarted: it does not   *)
(* wait for IMU data that is there, or leave a frame behind.               *)
CatchesUp == MULTIPLE_THREAD => []<>(featureBuf = <<>> \/ restarts > 0)
=============================================================================
