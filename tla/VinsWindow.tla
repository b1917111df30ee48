------------------------------ MODULE VinsWindow ------------------------------
(***************************************************************************)
(* The sliding window of the VINS estimator: FeatureTracker names the      *)
(* points it follows, FeatureManager lists for each name the frames of the *)
(* window it was seen in, and Estimator keeps beside them the headers, the *)
(* IMU pre-integrations and the prior that marginalization left, all       *)
(* indexed by position in the window.                                      *)
(*                                                                         *)
(* Every frame that is pushed has a number.  An observation, a             *)
(* pre-integration and a block of the prior carry the number of the frame  *)
(* they are really about; positions, depths and poses are left out, and    *)
(* what depends on them is a free choice.                                  *)
(*                                                                         *)
(* clearState shares its lock with processImage only: it may come while    *)
(* the thread has a frame in hand, which then goes on with it.  clearState *)
(* and the loop over processIMU are one step each; VinsBuffers takes the   *)
(* first apart.                                                            *)
(***************************************************************************)
EXTENDS Integers, Sequences, FiniteSets

CONSTANTS
  WINDOW_SIZE,     \* the newest index of the window (10 in the code)
  UsedNum,         \* observations that make a feature used (4 in the code)
  MAX_CNT,         \* points the tracker follows at most
  SensorTypes,     \* the <<USE_IMU, STEREO>> a configuration file may name
  ThreadModes,     \* what MULTIPLE_THREAD may be
  Switches,        \* the topics in use: "imu" (imu_switch), "cam" (cam_switch)
  MaxId,           \* bound: names the tracker gives out
  MaxFrames,       \* bound: frames that are pushed
  MaxMessages      \* bound: restart and switch messages

ASSUME SizeAssumption ==
  /\ WINDOW_SIZE \in Nat /\ WINDOW_SIZE >= 2
  /\ UsedNum \in Nat /\ UsedNum >= 2 /\ MAX_CNT \in Nat
  /\ MaxId \in Nat /\ MaxFrames \in Nat /\ MaxMessages \in Nat
ASSUME SensorAssumption ==
  /\ SensorTypes \subseteq (BOOLEAN \X BOOLEAN) \ {<<FALSE, FALSE>>}
  /\ ThreadModes \subseteq BOOLEAN /\ Switches \subseteq {"imu", "cam"}

VARIABLES
  MULTIPLE_THREAD, USE_IMU, STEREO,
  reuse,               \* changeSensorType() has turned the IMU on, the restart is to come
  messages,            \* restart and switch messages so far
  ids, n_id,           \* FeatureTracker: what it follows, the next name
  inputImageCnt,       \* modulo 2
  pushed,              \* frames pushed so far: the number of the newest
  featureBuf,          \* frames that wait: [t, ids]
  stage,               \* where the processing thread is in processMeasurements()
  taken,               \* the frame it has taken out of featureBuf
  curTime, prevTime,   \* the times of this frame and the one before: a frame, or 0
  cut,                 \* history: the frame the last clearState found in hand, 0 for none
  undefined,           \* pop() of an empty queue, or a null pointer was followed
  solver_flag, marginalization_flag, frame_count,
  Headers,             \* the frame at each index of the window
  feature,             \* FeatureManager's list, by feature_id
  pre_integrations,    \* at each index, the frames the IMU factor connects
  all_image_frame,     \* the frames kept for the initialization
  freed,               \* those of them whose pre_integration was deleted
  prior                \* last_marginalization_parameter_blocks

config   == <<MULTIPLE_THREAD>>
sensors  == <<USE_IMU, STEREO, reuse>>
tracker  == <<ids, n_id>>
input    == <<inputImageCnt, pushed, featureBuf>>
thread   == <<stage, taken, curTime, prevTime>>
cleared  == <<cut, undefined>>
flags    == <<solver_flag, marginalization_flag, frame_count>>
images   == <<all_image_frame, freed>>
window   == <<Headers, feature, pre_integrations, images, prior>>
vars     == <<config, cleared, sensors, messages, tracker, input, thread, flags, window>>

Index   == 0 .. WINDOW_SIZE
Frames  == 0 .. MaxFrames
NoFrame == [t |-> 0, ids |-> {}, imu |-> FALSE]
NoImu   == [from |-> 0, to |-> 0]
InHand  == {"copied", "taken", "integrated"}
Locked  == {"added", "slide", "clean"}      \* the stages under mProcess

Block(kind, i, t) == [kind |-> kind, index |-> i, of |-> t]

Init ==
  /\ MULTIPLE_THREAD \in ThreadModes
  /\ \E s \in SensorTypes : USE_IMU = s[1] /\ STEREO = s[2]
  /\ reuse = FALSE /\ messages = 0
  /\ ids = {} /\ n_id = 0
  /\ inputImageCnt = 0 /\ pushed = 0 /\ featureBuf = <<>>
  /\ stage = "idle" /\ taken = NoFrame /\ curTime = 0 /\ prevTime = 0
  /\ cut = 0 /\ undefined = FALSE
  /\ solver_flag = "INITIAL" /\ marginalization_flag = "MARGIN_OLD" /\ frame_count = 0
  /\ Headers = [i \in Index |-> 0]
  /\ feature = <<>>
  /\ pre_integrations = [i \in Index |-> NoImu]
  /\ all_image_frame = {} /\ freed = {} /\ prior = {}

-----------------------------------------------------------------------------
(* The tracker.                                                            *)

(* inputImage: what optical flow and the mask keep stays, new corners get  *)
(* new names; with a thread of its own the estimator gets every second     *)
(* frame, without one the callback goes on to processMeasurements().       *)
InputImage ==
  /\ stage = "idle" \/ MULTIPLE_THREAD
  /\ pushed < MaxFrames
  /\ \E kept \in SUBSET ids : \E new \in 0 .. MAX_CNT :
       /\ Cardinality(kept) + new <= MAX_CNT
       /\ n_id + new <= MaxId
       /\ ids' = kept \cup (n_id .. n_id + new - 1)
       /\ n_id' = n_id + new
  /\ inputImageCnt' = 1 - inputImageCnt
  /\ IF ~MULTIPLE_THREAD \/ inputImageCnt' = 0
     THEN /\ pushed' = pushed + 1
          /\ featureBuf' = Append(featureBuf, [t |-> pushed + 1, ids |-> ids'])
     ELSE UNCHANGED <<pushed, featureBuf>>
  /\ stage' = IF MULTIPLE_THREAD THEN stage ELSE "call"
  /\ UNCHANGED <<config, cleared, sensors, messages, taken, curTime, prevTime, flags, window>>

-----------------------------------------------------------------------------
(* processMeasurements, up to processImage.                                *)

(* The oldest frame is copied and waits for its IMU data.  featureBuf is   *)
(* from here on what is behind it: the frame is popped when its data is    *)
(* there.                                                                  *)
CopyFrame ==
  /\ stage = IF MULTIPLE_THREAD THEN "idle" ELSE "call"
  /\ featureBuf # <<>>
  /\ taken' = [t |-> Head(featureBuf).t, ids |-> Head(featureBuf).ids, imu |-> FALSE]
  /\ featureBuf' = Tail(featureBuf)
  /\ curTime' = taken'.t
  /\ stage' = "copied"
  /\ UNCHANGED <<config, cleared, sensors, messages, tracker, inputImageCnt, pushed, prevTime, flags,
                 window>>

(* It leaves with its data; after a clearState, which emptied the queue    *)
(* and set curTime to 0, another frame leaves in its place, and there may  *)
(* be no data.                                                             *)
PopFrame ==
  /\ stage = "copied"
  /\ \E imu \in {USE_IMU} \cup (IF curTime = 0 THEN {FALSE} ELSE {}) : taken' = [taken EXCEPT !.imu = imu]
  /\ IF curTime = 0
     THEN featureBuf # <<>> /\ featureBuf' = Tail(featureBuf)
     ELSE featureBuf' = featureBuf
  /\ stage' = "taken"
  /\ UNCHANGED <<config, cleared, sensors, messages, tracker, inputImageCnt, pushed, curTime, prevTime,
                 flags, window>>

(* Without a thread, a frame whose IMU data is late stays in the buffer,   *)
(* and so does the next one, since each image processes one frame.         *)
NoFrameYet ==
  /\ stage = "call" /\ (USE_IMU \/ featureBuf = <<>>)
  /\ stage' = "idle"
  /\ UNCHANGED <<config, cleared, sensors, messages, tracker, input, taken, curTime, prevTime, flags,
                 window>>

(* The loop over processIMU, which holds no lock: the IMU between the      *)
(* frame before and this one goes to the pre-integration of frame_count,   *)
(* which is created if there is none; that of the first frame stays empty. *)
(* The first datum counts from prevTime.                                   *)
ProcessIMU ==
  /\ stage = "taken"
  /\ stage' = "integrated"
  /\ pre_integrations' =
       IF USE_IMU /\ taken.imu
       THEN [pre_integrations EXCEPT ![frame_count] =
               [from |-> IF frame_count = 0 THEN taken.t ELSE IF @.from = @.to THEN prevTime ELSE @.from,
                to   |-> taken.t]]
       ELSE pre_integrations
  /\ UNCHANGED <<config, cleared, sensors, messages, tracker, input, taken, curTime, prevTime, flags,
                 Headers, feature, images, prior>>

-----------------------------------------------------------------------------
(* processImage.                                                           *)

endFrame(f) == f.start_frame + Len(f.feature_per_frame) - 1

(* A name that is not in the list starts at frame_count; one that is gets  *)
(* its observation after those it has.                                     *)
Added(frame) ==
  [id \in DOMAIN feature \cup frame.ids |->
     IF id \notin DOMAIN feature
     THEN [start_frame |-> frame_count, feature_per_frame |-> <<frame.t>>, solve_flag |-> 0]
     ELSE IF id \in frame.ids
     THEN [feature[id] EXCEPT !.feature_per_frame = Append(@, frame.t)]
     ELSE feature[id]]

(* Two frames, or no feature in the last two before this one: a keyframe;  *)
(* otherwise the tracking and the parallax decide.                         *)
Keyframe(list, flag) ==
  \/ flag = "MARGIN_OLD"
  \/ /\ flag = "MARGIN_SECOND_NEW"
     /\ frame_count >= 2
     /\ \E id \in DOMAIN list : /\ list[id].start_frame <= frame_count - 2
                                /\ endFrame(list[id]) >= frame_count - 1

(* processImage takes the lock: addFeatureCheckParallax, the header, and   *)
(* the frame among those for the initialization.                           *)
AddFeatures ==
  /\ stage = "integrated"
  /\ stage' = "added"
  /\ feature' = Added(taken)
  /\ \E flag \in {"MARGIN_OLD", "MARGIN_SECOND_NEW"} :
       Keyframe(feature', flag) /\ marginalization_flag' = flag
  /\ Headers' = [Headers EXCEPT ![frame_count] = taken.t]
  /\ all_image_frame' = all_image_frame \cup {taken.t}
  /\ UNCHANGED <<config, cleared, sensors, messages, tracker, input, taken, curTime, prevTime, solver_flag,
                 frame_count, pre_integrations, freed, prior>>

Used == {id \in DOMAIN feature : Len(feature[id].feature_per_frame) >= UsedNum}

(* The poses that a used feature of the oldest frame ties to it.           *)
SeenFromOldest ==
  {Block("Pose", i, Headers[i]) :
     i \in {k \in Index : \E id \in Used : feature[id].start_frame = 0 /\ k <= endFrame(feature[id])}}

(* Marginalizing the oldest frame: what its factors touch, with what the   *)
(* prior touched; its own blocks are dropped and the others are to be at   *)
(* the index before theirs.  With nothing to drop the result is not valid. *)
MarginOld(p, short) ==
  LET imu == IF USE_IMU /\ short
             THEN {Block(k, i, Headers[i]) : k \in {"Pose", "SpeedBias"}, i \in {0, 1}}
             ELSE {}
      all == p \cup imu \cup SeenFromOldest
  IN  IF \E b \in all : b.index = 0
      THEN {Block(b.kind, b.index - 1, b.of) : b \in {c \in all : c.index # 0}}
      ELSE {}

MarginNothing(p) == p

(* Marginalizing the second newest frame: only out of the prior.           *)
MarginSecondNew(p) ==
  IF \E b \in p : b.kind = "Pose" /\ b.index = WINDOW_SIZE - 1
  THEN {IF b.index = WINDOW_SIZE THEN Block(b.kind, WINDOW_SIZE - 1, b.of) ELSE b :
          b \in {c \in p : c.kind # "Pose" \/ c.index # WINDOW_SIZE - 1}}
  ELSE p

(* optimization: a used feature gets a depth, and fails when it is         *)
(* negative; a full window is marginalized.                                *)
Solved(bad) ==
  [id \in DOMAIN feature |->
     IF id \in Used THEN [feature[id] EXCEPT !.solve_flag = IF id \in bad THEN 2 ELSE 1]
     ELSE feature[id]]

Marginalized(p, short) ==
  IF frame_count < WINDOW_SIZE THEN p
  ELSE IF marginalization_flag = "MARGIN_OLD" THEN MarginOld(p, short)
  ELSE MarginSecondNew(p)

(* INITIAL and the window not yet full: it grows.  Without an IMU it is    *)
(* optimized on the way.                                                   *)
Grow ==
  /\ stage = "added" /\ solver_flag = "INITIAL" /\ frame_count < WINDOW_SIZE
  /\ frame_count' = frame_count + 1
  /\ IF USE_IMU THEN feature' = feature
     ELSE \E bad \in SUBSET Used : feature' = Solved(bad)
  /\ stage' = "idle" /\ taken' = NoFrame /\ prevTime' = curTime
  /\ UNCHANGED <<config, cleared, sensors, messages, tracker, input, curTime, solver_flag,
                 marginalization_flag, Headers, pre_integrations, images, prior>>

(* INITIAL, the window full, one camera: initialStructure() fails, and     *)
(* makes the frame a keyframe when it was the structure that failed.       *)
NotInitialized ==
  /\ stage = "added" /\ solver_flag = "INITIAL" /\ frame_count = WINDOW_SIZE /\ ~STEREO
  /\ marginalization_flag' \in {marginalization_flag, "MARGIN_OLD"}
  /\ stage' = "slide"
  /\ UNCHANGED <<config, cleared, sensors, messages, tracker, input, taken, curTime, prevTime, solver_flag,
                 frame_count, window>>

(* INITIAL, the window full: one camera and an IMU that initialStructure() *)
(* aligns, or two cameras.  Two cameras alone optimize the full window     *)
(* twice, and so marginalize it twice.  With the IMU every pre-integration *)
(* is computed again first.                                                *)
Integrated(indices) == USE_IMU => \A i \in indices : pre_integrations[i] # NoImu

Initialize ==
  /\ stage = "added" /\ solver_flag = "INITIAL" /\ frame_count = WINDOW_SIZE
  /\ Integrated(Index)
  /\ \E bad \in SUBSET Used : feature' = Solved(bad)
  /\ \E short \in BOOLEAN :
       prior' = IF STEREO /\ ~USE_IMU THEN Marginalized(Marginalized(prior, short), short)
                ELSE Marginalized(prior, short)
  /\ solver_flag' = "NON_LINEAR"
  /\ stage' = "slide"
  /\ UNCHANGED <<config, cleared, sensors, messages, tracker, input, taken, curTime, prevTime,
                 marginalization_flag, frame_count, Headers, pre_integrations, images>>

(* NON_LINEAR: optimization, then the outliers among the used features     *)
(* leave the list, and without a thread of its own the tracker too.        *)
Optimize ==
  /\ stage = "added" /\ solver_flag = "NON_LINEAR" /\ Integrated(Index \ {0})
  /\ \E bad, removeIndex \in SUBSET Used :
       /\ feature' = [id \in DOMAIN feature \ removeIndex |-> Solved(bad)[id]]
       /\ ids' = IF MULTIPLE_THREAD THEN ids ELSE ids \ removeIndex
  /\ \E short \in BOOLEAN : prior' = Marginalized(prior, short)
  /\ stage' = "clean"
  /\ UNCHANGED <<config, cleared, sensors, messages, n_id, input, taken, curTime, prevTime, flags, Headers,
                 pre_integrations, images>>

-----------------------------------------------------------------------------
(* slideWindow.                                                            *)

(* The observations s without the one at position i of the vector, from 0. *)
Erase(s, i) == [k \in 1 .. Len(s) - 1 |-> IF k <= i THEN s[k] ELSE s[k + 1]]

(* removeBack and removeBackShiftDepth: every feature moves one index      *)
(* back; one of the oldest frame loses that observation, and leaves the    *)
(* list with fewer than atLeast.                                           *)
ShiftBack(f) ==
  IF f.start_frame # 0 THEN [f EXCEPT !.start_frame = @ - 1]
  ELSE [f EXCEPT !.feature_per_frame = Erase(@, 0)]

RemoveBack(atLeast) ==
  [id \in {i \in DOMAIN feature : feature[i].start_frame = 0
                                     => Len(feature[i].feature_per_frame) - 1 >= atLeast} |->
     ShiftBack(feature[id])]

(* Where the observation of the second newest frame stands in f's vector.  *)
LastPlace(f) == Len(f.feature_per_frame) - 1

PlaceOfSecondNew(f) == WINDOW_SIZE - 1 - f.start_frame

(* removeFront: the second newest frame leaves the window, and the newest  *)
(* takes its index.                                                        *)
ShiftFront(f) ==
  IF f.start_frame = frame_count THEN [f EXCEPT !.start_frame = @ - 1]
  ELSE IF endFrame(f) < frame_count - 1 THEN f
  ELSE [f EXCEPT !.feature_per_frame = Erase(@, PlaceOfSecondNew(f))]

RemoveFront ==
  LET list == [id \in DOMAIN feature |-> ShiftFront(feature[id])]
  IN  [id \in {i \in DOMAIN list : list[i].feature_per_frame # <<>>} |-> list[id]]

(* removeFailures, after the frames of the normal mode only.               *)
WithoutFailures(list) ==
  IF stage = "clean"
  THEN [id \in {i \in DOMAIN list : list[i].solve_flag # 2} |-> list[id]]
  ELSE list

(* The end of a frame: the thread lets go of the lock.                     *)
FrameDone ==
  /\ stage' = "idle" /\ taken' = NoFrame /\ prevTime' = curTime
  /\ UNCHANGED <<config, cleared, sensors, messages, tracker, input, curTime, flags>>

(* What initialStructure may still need of the images.                     *)
Every(t) == TRUE

NotBefore(t) == t >= Headers[0]

(* MARGIN_OLD: everything moves one index back, the newest stays at the    *)
(* last index too, with an empty pre-integration; the pre-integration of   *)
(* the oldest image is deleted, and the images before it are forgotten.    *)
SlideOld ==
  /\ stage \in {"slide", "clean"} /\ marginalization_flag = "MARGIN_OLD"
  /\ Headers' = [i \in Index |-> IF i < WINDOW_SIZE THEN Headers[i + 1] ELSE Headers[i]]
  /\ pre_integrations' =
       IF USE_IMU
       THEN [i \in Index |-> IF i < WINDOW_SIZE THEN pre_integrations[i + 1]
                             ELSE [from |-> taken.t, to |-> taken.t]]
       ELSE pre_integrations
  /\ all_image_frame' = {t \in all_image_frame : NotBefore(t)}
  /\ freed' = (freed \cap all_image_frame') \cup {Headers[0]}
  /\ feature' = WithoutFailures(RemoveBack(IF solver_flag = "NON_LINEAR" THEN 2 ELSE 1))
  /\ FrameDone
  /\ UNCHANGED prior

(* The pre-integration of the second newest with the newest one's data.    *)
Unmerged == pre_integrations[WINDOW_SIZE - 1]

Merged == [from |-> pre_integrations[WINDOW_SIZE - 1].from, to |-> pre_integrations[WINDOW_SIZE].to]

(* MARGIN_SECOND_NEW: the newest takes the index of the second newest, and *)
(* its IMU data is added to the pre-integration there.                     *)
SlideNew ==
  /\ stage \in {"slide", "clean"} /\ marginalization_flag = "MARGIN_SECOND_NEW"
  /\ Headers' = [Headers EXCEPT ![WINDOW_SIZE - 1] = Headers[WINDOW_SIZE]]
  /\ pre_integrations' =
       IF USE_IMU
       THEN [pre_integrations EXCEPT
               ![WINDOW_SIZE - 1] = Merged,
               ![WINDOW_SIZE]     = [from |-> taken.t, to |-> taken.t]]
       ELSE pre_integrations
  /\ feature' = WithoutFailures(RemoveFront)
  /\ FrameDone
  /\ UNCHANGED <<images, prior>>

-----------------------------------------------------------------------------
(* The node's other callbacks.                                             *)

(* The images and the next name that clearState leaves.                    *)
FirstName == 0

NextName == n_id

(* clearState; the tracker, the headers and a frame that is in hand stay,  *)
(* but not its curTime.                                                    *)
ClearState ==
  /\ stage \notin Locked
  /\ inputImageCnt' = 0 /\ featureBuf' = <<>> /\ curTime' = 0 /\ prevTime' = 0
  /\ cut' = IF stage \in InHand THEN taken.t ELSE 0
  /\ solver_flag' = "INITIAL" /\ frame_count' = 0
  /\ feature' = <<>>
  /\ pre_integrations' = [i \in Index |-> NoImu]
  /\ all_image_frame' = {} /\ freed' = {} /\ prior' = {}
  /\ n_id' = NextName
  /\ UNCHANGED <<config, undefined, USE_IMU, STEREO, ids, pushed, stage, taken, marginalization_flag,
                 Headers>>

Restart ==
  /\ messages < MaxMessages /\ messages' = messages + 1
  /\ ClearState
  /\ UNCHANGED reuse

(* changeSensorType: the IMU that is turned on restarts the estimator in a *)
(* lock section of its own.                                                *)
ChangeSensorType ==
  /\ stage \notin Locked /\ ~reuse
  /\ messages < MaxMessages /\ messages' = messages + 1
  /\ \E imu, stereo \in BOOLEAN :
       /\ imu \/ stereo
       /\ \/ "imu" \in Switches /\ imu # USE_IMU /\ stereo = STEREO
          \/ "cam" \in Switches /\ imu = USE_IMU /\ stereo # STEREO
       /\ USE_IMU' = imu /\ STEREO' = stereo
       /\ reuse' = (imu /\ ~USE_IMU)
       /\ prior' = IF USE_IMU /\ ~imu THEN {} ELSE prior
  /\ UNCHANGED <<config, cleared, tracker, input, thread, flags, Headers, feature, pre_integrations, images>>

ReuseImu ==
  /\ reuse /\ reuse' = FALSE
  /\ ClearState
  /\ UNCHANGED messages

(* The process ends: the thread pops from a queue that clearState emptied, *)
(* or the solver reads a pre-integration that clearState deleted and no    *)
(* processIMU created again.                                               *)
Undefined ==
  /\ \/ stage = "copied" /\ curTime = 0 /\ featureBuf = <<>>
     \/ stage = "added" /\ solver_flag = "INITIAL" /\ frame_count = WINDOW_SIZE /\ ~Integrated(Index)
     \/ stage = "added" /\ solver_flag = "NON_LINEAR" /\ ~Integrated(Index \ {0})
  /\ undefined' = TRUE
  /\ UNCHANGED <<config, cut, sensors, messages, tracker, input, thread, flags, window>>

Next ==
  /\ ~undefined
  /\ \/ InputImage \/ CopyFrame \/ NoFrameYet \/ PopFrame \/ ProcessIMU \/ AddFeatures
     \/ Grow \/ NotInitialized \/ Initialize \/ Optimize \/ SlideOld \/ SlideNew
     \/ Restart \/ ChangeSensorType \/ ReuseImu \/ Undefined

Spec == Init /\ [][Next]_vars

-----------------------------------------------------------------------------
(* Properties.                                                             *)

Feature == [start_frame : Index, feature_per_frame : Seq(Frames), solve_flag : 0 .. 2]

TypeOK ==
  /\ MULTIPLE_THREAD \in BOOLEAN
  /\ USE_IMU \in BOOLEAN /\ STEREO \in BOOLEAN /\ reuse \in BOOLEAN
  /\ messages \in 0 .. MaxMessages
  /\ n_id \in 0 .. MaxId /\ ids \subseteq 0 .. n_id - 1
  /\ inputImageCnt \in {0, 1} /\ pushed \in Frames
  /\ featureBuf \in Seq([t : Frames, ids : SUBSET (0 .. MaxId)])
  /\ stage \in {"idle", "call"} \cup InHand \cup Locked
  /\ taken \in [t : Frames, ids : SUBSET (0 .. MaxId), imu : BOOLEAN]
  /\ curTime \in Frames /\ prevTime \in Frames /\ cut \in Frames /\ undefined \in BOOLEAN
  /\ solver_flag \in {"INITIAL", "NON_LINEAR"}
  /\ marginalization_flag \in {"MARGIN_OLD", "MARGIN_SECOND_NEW"}
  /\ frame_count \in Index
  /\ Headers \in [Index -> Frames]
  /\ DOMAIN feature \subseteq 0 .. MaxId
  /\ \A id \in DOMAIN feature : feature[id] \in Feature
  /\ pre_integrations \in [Index -> [from : Frames, to : Frames]]
  /\ all_image_frame \subseteq Frames /\ freed \subseteq all_image_frame
  /\ prior \subseteq [kind : {"Pose", "SpeedBias"}, index : Index, of : Frames]

(* The newest index that holds a frame: frame_count itself only while that *)
(* frame is processed.                                                     *)
Newest == IF stage \in Locked THEN frame_count ELSE frame_count - 1

(* FeaturePerId keeps no frame with an observation: the k-th is taken to   *)
(* be from frame start_frame + k.  Whatever was added, dropped, restarted  *)
(* or slid, it really is, and none is beyond the newest frame; so the      *)
(* factors of optimization() tie the poses the observations came from.     *)
ObservationsAligned ==
  \A id \in DOMAIN feature :
    LET f == feature[id]
    IN  /\ Len(f.feature_per_frame) >= 1
        /\ endFrame(f) <= Newest
        /\ \A k \in 1 .. Len(f.feature_per_frame) :
             f.feature_per_frame[k] = Headers[f.start_frame + k - 1]

(* The names still to come: of the frame that is taken, of the frames that *)
(* wait, oldest first, and of the tracker.                                 *)
Ahead == IF stage \in InHand THEN 1 ELSE 0

ToCome ==
  [k \in 1 .. Ahead + Len(featureBuf) + 1 |->
     IF k = Ahead THEN taken.ids
     ELSE IF k <= Ahead + Len(featureBuf) THEN featureBuf[k - Ahead].ids
     ELSE ids]

(* A feature whose last observation is not of the newest frame is lost for *)
(* good: neither a frame that waits nor the tracker has its name.  Since   *)
(* addFeatureCheckParallax appends blindly, a name that came back would    *)
(* shift the observations after the gap to the wrong frames.               *)
LostForGood ==
  \A id \in DOMAIN feature :
    endFrame(feature[id]) < Newest => \A k \in DOMAIN ToCome : id \notin ToCome[k]

(* With an IMU, the prior that marginalization left at an index is about   *)
(* the frame that is at that index once the window has slid, and, as       *)
(* optimization() asserts, it has no speed and bias of the second newest.  *)
PriorAligned ==
  USE_IMU /\ ~reuse /\ stage \notin {"slide", "clean"} =>
    \A b \in prior : /\ b.index < WINDOW_SIZE /\ b.of = Headers[b.index]
                     /\ ~(b.kind = "SpeedBias" /\ b.index = WINDOW_SIZE - 1)

(* With an IMU, the pre-integration at each index but the first connects   *)
(* the frame before to the frame there, also where frames were merged.     *)
(* The frame that clearState found in hand is the exception: it becomes    *)
(* the first of the window, curTime having been set to 0 when it is done,  *)
(* and the next one's pre-integration starts at time 0.                    *)
ImuConnectsFrames ==
  USE_IMU /\ ~reuse =>
    \A i \in 1 .. Newest :
      /\ Headers[i] # cut
      /\ pre_integrations[i] = [from |-> IF Headers[i - 1] = cut THEN 0 ELSE Headers[i - 1],
                                to   |-> Headers[i]]

(* The images of all_image_frame cover the window in order, so that        *)
(* find(t_0) in slideWindow and all_image_frame[Headers[i]] in             *)
(* visualInitialAlign find what they look for; an image whose              *)
(* pre-integration was deleted is the oldest, which the initialization     *)
(* does not read.  When two cameras and the IMU initialize, the images are *)
(* those of the window and no others: the loop that gives the i-th image   *)
(* the pose Rs[i] gives each its own, and stays within Rs.                 *)
ImagesCoverWindow ==
  /\ \A i \in 0 .. Newest : Headers[i] \in all_image_frame
  /\ \A i \in 1 .. Newest : Headers[i - 1] < Headers[i]
  /\ \A t \in freed : \A u \in all_image_frame : t <= u
  /\ \A t \in freed : \A i \in 0 .. Newest : t < Headers[i]
  /\ stage = "added" /\ solver_flag = "INITIAL" /\ STEREO /\ USE_IMU /\ frame_count = WINDOW_SIZE
       => all_image_frame = {Headers[i] : i \in Index}

=============================================================================
