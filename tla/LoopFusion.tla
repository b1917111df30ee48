----------------------------- MODULE LoopFusion -----------------------------
(***************************************************************************)
(* loop_fusion of VINS-Fusion: the node that pairs images, poses and       *)
(* points into keyframes (pose_graph_node.cpp), the pose graph it adds     *)
(* them to (pose_graph.cpp), the thread that optimizes it, and the graph   *)
(* on disk.                                                                *)
(*                                                                         *)
(* A time stamp counts images, one is a second.  Poses are numbers; of a   *)
(* keyframe the model keeps how often its odometry pose was shifted to the *)
(* world frame, and whether its pose agrees with it: a pose is stale if it *)
(* was computed from an odometry pose that was shifted later.              *)
(***************************************************************************)
EXTENDS Integers, Sequences, FiniteSets, FiniteSetsExt

CONSTANTS
  Bases,         \* the graphs on disk at the start: a loop_index per keyframe
  MAX_SEQUENCES, \* new_sequence breaks beyond
  SKIP_FIRST_CNT,
  Recent,        \* keyframes too new to make a loop with
  MaxResults,    \* of a query of the database
  MaxImages,     \* bound: the last stamp
  MaxKeyframes,  \* bound: keyframes in the graph
  MaxRestarts    \* bound

None == -1

(* A loop leads to a keyframe that is older than the recent ones.          *)
LoopsBack(loops) == \A n \in DOMAIN loops : loops[n] # None => loops[n] \in 0 .. n - Recent - 2

ASSUME SizeAssumption ==
  /\ Recent \in Nat /\ SKIP_FIRST_CNT \in Nat /\ MAX_SEQUENCES \in Nat \ {0}
  /\ MaxResults \in Nat /\ MaxImages \in Nat /\ MaxKeyframes \in Nat /\ MaxRestarts \in Nat
ASSUME BaseAssumption ==
  \A loops \in Bases : loops \in Seq(Nat \union {None}) /\ LoopsBack(loops)

VARIABLES
  now,               \* the stamp of the newest image
  toPose, toPoint,   \* messages of the estimator on their way
  newest,            \* the stamp of its newest keyframe
  image_buf, point_buf, pose_buf, last_image_time,
  sequence,
  pc, taken,         \* process(): its place, the messages it took
  skip_first_cnt,
  cur_kf,            \* the keyframe that is added
  toShift,           \* the keyframes addKeyFrame has yet to shift
  keyframelist, earliest_loop_index, sequence_cnt, sequence_loop,
  shifted,           \* w_r_vio, w_t_vio are not the identity
  drift,             \* r_drift and t_drift
  optimize_buf,
  opt,               \* the optimization: its stage, cur_index, first_looped_index, odometry poses
  up, file, restarts,
  skipped            \* ghost: a sequence passed without a keyframe

stream  == <<now, toPose, toPoint, newest>>
buffers == <<image_buf, point_buf, pose_buf, last_image_time>>
process == <<pc, taken, skip_first_cnt, cur_kf, toShift>>
graph   == <<keyframelist, earliest_loop_index, sequence_cnt, sequence_loop, shifted, skipped>>
node    == <<up, file, restarts>>
vars    == <<stream, buffers, sequence, process, graph, drift, optimize_buf, opt, node>>

NoKeyframe == [stamp |-> 0, sequence |-> 0, loop_index |-> None, shifts |-> 0, stale |-> FALSE]
NoMessages == [image |-> 0, pose |-> 0, point |-> 0]
Idle == [stage |-> "idle", cur |-> None, first |-> None, vio |-> <<>>]

(* The i-th keyframe has index i - 1.                                      *)
Kf(index) == keyframelist[index + 1]
Indices == 0 .. Len(keyframelist) - 1

(* loadPoseGraph and loadKeyFrame: everything is of sequence 0.            *)
Loaded(loops) == [i \in DOMAIN loops |-> [NoKeyframe EXCEPT !.loop_index = loops[i]]]
(* Mutant: the loops of a saved graph are forgotten.                       *)
EarliestOfRun(loops) == None
Earliest(loops) ==
  LET some == {loops[i] : i \in DOMAIN loops} \ {None} IN IF some = {} THEN None ELSE Min(some)

(* main() with the graph that is on disk, or without one.                  *)
Start(loops) ==
  /\ keyframelist = Loaded(loops) /\ earliest_loop_index = Earliest(loops)

Init ==
  /\ now = 0 /\ toPose = <<>> /\ toPoint = <<>> /\ newest = 0
  /\ image_buf = <<>> /\ point_buf = <<>> /\ pose_buf = <<>> /\ last_image_time = None
  /\ sequence = 1
  /\ pc = "idle" /\ taken = NoMessages /\ skip_first_cnt = 0
  /\ cur_kf = NoKeyframe /\ toShift = {}
  /\ file \in Bases /\ Start(file)
  /\ sequence_cnt = 0 /\ sequence_loop = <<0>> /\ shifted = FALSE /\ drift = "none"
  /\ optimize_buf = <<>> /\ opt = Idle
  /\ up = TRUE /\ restarts = 0 /\ skipped = FALSE

-----------------------------------------------------------------------------
(* The camera, the estimator and the callbacks.                            *)

(* The estimator makes a keyframe of an image it was given, later, and     *)
(* publishes its pose and its points one after the other.                  *)
PubKeyframe ==
  \E t \in newest + 1 .. now :
    /\ newest' = t /\ toPose' = Append(toPose, t) /\ toPoint' = Append(toPoint, t)
    /\ UNCHANGED <<now, buffers, sequence, process, graph, drift, optimize_buf, opt, node>>

PoseCallback ==
  /\ up /\ toPose # <<>>
  /\ toPose' = Tail(toPose) /\ pose_buf' = Append(pose_buf, Head(toPose))
  /\ UNCHANGED <<now, toPoint, newest, image_buf, point_buf, last_image_time, sequence, process,
                 graph, drift, optimize_buf, opt, node>>

PointCallback ==
  /\ up /\ toPoint # <<>>
  /\ toPoint' = Tail(toPoint) /\ point_buf' = Append(point_buf, Head(toPoint))
  /\ UNCHANGED <<now, toPose, newest, image_buf, pose_buf, last_image_time, sequence, process,
                 graph, drift, optimize_buf, opt, node>>

(* Everything a process keeps is gone.                                     *)
Die ==
  /\ up' = FALSE
  /\ image_buf' = <<>> /\ point_buf' = <<>> /\ pose_buf' = <<>> /\ last_image_time' = None
  /\ toPose' = <<>> /\ toPoint' = <<>>
  /\ sequence' = 1
  /\ pc' = "idle" /\ taken' = NoMessages /\ skip_first_cnt' = 0
  /\ cur_kf' = NoKeyframe /\ toShift' = {}
  /\ keyframelist' = <<>> /\ earliest_loop_index' = None
  /\ sequence_cnt' = 0 /\ sequence_loop' = <<0>> /\ shifted' = FALSE /\ drift' = "none"
  /\ optimize_buf' = <<>> /\ opt' = Idle /\ skipped' = FALSE
  /\ UNCHANGED <<now, newest, restarts>>

(* new_sequence.  What process() has taken stays taken.                    *)
NewSequence ==
  /\ sequence' = sequence + 1
  /\ image_buf' = <<>> /\ point_buf' = <<>> /\ pose_buf' = <<>>

(* image_callback.  The image that begins a sequence is thrown away with   *)
(* the rest.                                                               *)
Discontinued(t) == last_image_time # None /\ (t - last_image_time > 1 \/ t < last_image_time)

ImageCallback ==
  \E t \in now + 1 .. now + 2 :
    /\ t <= MaxImages /\ now' = t
    /\ IF ~up THEN UNCHANGED <<buffers, sequence>>
       ELSE /\ last_image_time' = t
            /\ IF Discontinued(t) THEN NewSequence
               ELSE image_buf' = Append(image_buf, t) /\ UNCHANGED <<point_buf, pose_buf, sequence>>
    /\ up /\ Discontinued(t) => sequence < MAX_SEQUENCES
    /\ UNCHANGED <<toPose, toPoint, newest, process, graph, drift, optimize_buf, opt, node>>

(* The operator's 'n'.                                                     *)
CommandNew ==
  /\ up /\ sequence < MAX_SEQUENCES
  /\ NewSequence
  /\ UNCHANGED <<stream, last_image_time, process, graph, drift, optimize_buf, opt, node>>

(* One sequence too many, from either: ROS_BREAK.                          *)
Break ==
  /\ up /\ sequence = MAX_SEQUENCES
  /\ Die /\ UNCHANGED file

-----------------------------------------------------------------------------
(* process(): one pass over the buffers under m_buf.                       *)

Front(buf) == Head(buf)
Back(buf)  == buf[Len(buf)]
(* Mutant: what is older than the pose is not thrown away.                 *)
FromTheFirst(buf, t) == buf
From(buf, t) ==
  LET k == CHOOSE i \in DOMAIN buf : buf[i] >= t /\ \A j \in DOMAIN buf : j < i => buf[j] < t
  IN SubSeq(buf, k, Len(buf))

Buffered == up /\ pc = "idle" /\ image_buf # <<>> /\ point_buf # <<>> /\ pose_buf # <<>>

ThrowPose ==
  /\ Buffered /\ Front(image_buf) > Front(pose_buf)
  /\ pose_buf' = Tail(pose_buf)
  /\ UNCHANGED <<stream, image_buf, point_buf, last_image_time, sequence, process, graph, drift,
                 optimize_buf, opt, node>>

ThrowPoint ==
  /\ Buffered /\ Front(image_buf) <= Front(pose_buf) /\ Front(image_buf) > Front(point_buf)
  /\ point_buf' = Tail(point_buf)
  /\ UNCHANGED <<stream, image_buf, pose_buf, last_image_time, sequence, process, graph, drift,
                 optimize_buf, opt, node>>

(* All other poses are thrown away.  The first messages are skipped, then  *)
(* those of a camera that has not moved.                                   *)
Pair ==
  /\ Buffered /\ Front(image_buf) <= Front(pose_buf) /\ Front(image_buf) <= Front(point_buf)
  /\ Back(image_buf) >= Front(pose_buf) /\ Back(point_buf) >= Front(pose_buf)
  /\ LET images == From(image_buf, Front(pose_buf))
         points == From(point_buf, Front(pose_buf))
     IN /\ taken' = [image |-> Front(images), pose |-> Front(pose_buf), point |-> Front(points)]
        /\ image_buf' = Tail(images) /\ point_buf' = Tail(points)
  /\ pose_buf' = <<>>
  /\ IF skip_first_cnt < SKIP_FIRST_CNT
     THEN skip_first_cnt' = skip_first_cnt + 1 /\ pc' = "idle"
     ELSE skip_first_cnt' = skip_first_cnt /\ pc' \in {"idle", "build"}
  /\ UNCHANGED <<stream, last_image_time, sequence, cur_kf, toShift, graph, drift, optimize_buf,
                 opt, node>>

-----------------------------------------------------------------------------
(* The keyframe is made of the sequence of now, then added: addKeyFrame,   *)
(* which only m_process keeps from savePoseGraph.                          *)

(* A new sequence starts unshifted.                                        *)
Build ==
  /\ pc = "build" /\ Len(keyframelist) < MaxKeyframes
  /\ LET begins == sequence_cnt # sequence
     IN /\ sequence_cnt' = IF begins THEN sequence_cnt + 1 ELSE sequence_cnt
        /\ sequence_loop' = IF begins THEN Append(sequence_loop, 0) ELSE sequence_loop
        /\ shifted' = (shifted /\ ~begins)
        /\ drift' = IF begins THEN "none" ELSE drift
        /\ skipped' = (skipped \/ sequence_cnt' # sequence)
        /\ cur_kf' = [NoKeyframe EXCEPT !.stamp = taken.pose, !.sequence = sequence,
                                        !.shifts = IF shifted' THEN 1 ELSE 0]
  /\ pc' = "detect"
  /\ UNCHANGED <<stream, buffers, sequence, taken, skip_first_cnt, toShift, keyframelist,
                 earliest_loop_index, optimize_buf, opt, node>>

(* detectLoop queries the database, which leaves out the newest keyframes  *)
(* but the last (queryL1), and takes the oldest of the good results.       *)
global_index == Len(keyframelist)
Queried == {e \in Indices : e < global_index - Recent \/ e = global_index - 1}
DetectLoop ==
  IF global_index <= Recent THEN {None}
  ELSE {None} \union {Min(good) : good \in {g \in SUBSET Queried : Cardinality(g) \in 2 .. MaxResults}}

NoLoop ==
  /\ pc = "detect" /\ pc' = "append"
  /\ UNCHANGED <<stream, buffers, sequence, taken, skip_first_cnt, cur_kf, toShift, graph, drift,
                 optimize_buf, opt, node>>

(* What lies beyond sequence_loop is what the memory holds.                *)
SequenceLoop(s) == IF s < Len(sequence_loop) THEN {sequence_loop[s + 1]} ELSE {0, 1}

Loop ==
  /\ pc = "detect"
  /\ \E loop \in DetectLoop \ {None} : \E looped \in SequenceLoop(cur_kf.sequence) :
       LET shift == Kf(loop).sequence # cur_kf.sequence /\ looped = 0
       IN /\ earliest_loop_index' = IF earliest_loop_index = None THEN loop
                                    ELSE Min({earliest_loop_index, loop})
          /\ cur_kf' = [cur_kf EXCEPT !.loop_index = loop,
                                      !.shifts = IF shift THEN @ + 1 ELSE @]
          /\ shifted' = (shifted \/ shift)
          /\ drift' = IF shift /\ drift # "none" THEN "stale" ELSE drift
          /\ toShift' = IF shift THEN {i \in Indices : Kf(i).sequence = cur_kf.sequence} ELSE {}
          /\ sequence_loop' = IF shift /\ cur_kf.sequence < Len(sequence_loop)
                              THEN [sequence_loop EXCEPT ![cur_kf.sequence + 1] = 1]
                              ELSE sequence_loop
  /\ pc' = "shift"
  /\ UNCHANGED <<stream, buffers, sequence, taken, skip_first_cnt, keyframelist, sequence_cnt,
                 skipped, optimize_buf, opt, node>>

(* Frame by frame, while the optimization may read and write them.         *)
Shift ==
  /\ pc = "shift" /\ toShift # {}
  /\ LET i == Min(toShift)
     IN /\ keyframelist' = [keyframelist EXCEPT ![i + 1].shifts = @ + 1, ![i + 1].stale = TRUE]
        /\ toShift' = toShift \ {i}
  /\ UNCHANGED <<stream, buffers, sequence, pc, taken, skip_first_cnt, cur_kf, earliest_loop_index,
                 sequence_cnt, sequence_loop, shifted, skipped, drift, optimize_buf, opt, node>>

PushOptimize ==
  /\ pc = "shift" /\ toShift = {}
  /\ optimize_buf' = Append(optimize_buf, global_index) /\ pc' = "append"
  /\ UNCHANGED <<stream, buffers, sequence, taken, skip_first_cnt, cur_kf, toShift, graph, drift,
                 opt, node>>

(* Its pose is its odometry pose under the drift.                          *)
AppendKeyframe ==
  /\ pc = "append" /\ pc' = "idle"
  /\ keyframelist' = Append(keyframelist, [cur_kf EXCEPT !.stale = (drift = "stale")])
  /\ UNCHANGED <<stream, buffers, sequence, taken, skip_first_cnt, cur_kf, toShift,
                 earliest_loop_index, sequence_cnt, sequence_loop, shifted, skipped, drift,
                 optimize_buf, opt, node>>

-----------------------------------------------------------------------------
(* optimize4DoF and optimize6DoF: the same steps about other residuals.    *)

(* The newest keyframe of the queue and the earliest frame of a loop.      *)
Take ==
  /\ up /\ opt.stage = "idle" /\ optimize_buf # <<>>
  /\ opt' = [stage |-> "taken", cur |-> Back(optimize_buf), first |-> earliest_loop_index, vio |-> <<>>]
  /\ optimize_buf' = <<>>
  /\ UNCHANGED <<stream, buffers, sequence, process, graph, drift, node>>

(* getKeyFrame finds no keyframe that is not in the list yet: vio is then  *)
(* empty.                                                                  *)
Collect ==
  /\ opt.stage = "taken"
  /\ opt' = [opt EXCEPT !.stage = "solve",
                        !.vio = IF opt.cur \in Indices THEN [i \in opt.first .. opt.cur |-> Kf(i).shifts]
                                                       ELSE <<>>]
  /\ UNCHANGED <<stream, buffers, sequence, process, graph, drift, optimize_buf, node>>

(* The poses of the frames up to cur are those of the solution, the drift  *)
(* takes the odometry pose of now, and the later frames take the drift.    *)
Moved(i) == Kf(i).shifts # opt.vio[i]
(* Mutant: the frames added since keep their poses.                        *)
PoseOfTheSolved(i, behind) == IF i \in opt.first .. opt.cur THEN Moved(i) ELSE Kf(i).stale
PoseIsStale(i, behind) ==
  IF i < opt.first THEN Kf(i).stale ELSE IF i <= opt.cur THEN Moved(i) ELSE behind

Apply ==
  /\ opt.stage = "solve" /\ opt.vio # <<>>
  /\ LET behind == Moved(opt.cur) \/ opt.cur \in toShift
     IN /\ drift' = IF behind THEN "stale" ELSE "fresh"
        /\ keyframelist' = [n \in DOMAIN keyframelist |->
                              [keyframelist[n] EXCEPT !.stale = PoseIsStale(n - 1, behind)]]
  /\ opt' = Idle
  /\ UNCHANGED <<stream, buffers, sequence, process, earliest_loop_index, sequence_cnt,
                 sequence_loop, shifted, skipped, optimize_buf, node>>

(* cur_kf is NULL.                                                         *)
Crash ==
  /\ opt.stage = "solve" /\ opt.vio = <<>>
  /\ Die /\ UNCHANGED file

-----------------------------------------------------------------------------
(* The operator's 's': savePoseGraph under m_process, then shutdown.  The  *)
(* file has no sequences.                                                  *)
CommandSave ==
  /\ up /\ pc \in {"idle", "build"}
  /\ file' = [n \in DOMAIN keyframelist |-> keyframelist[n].loop_index]
  /\ Die

(* load_previous_pose_graph, or not.                                       *)
Restart ==
  /\ ~up /\ restarts < MaxRestarts
  /\ up' = TRUE /\ restarts' = restarts + 1
  /\ \E loops \in {file, <<>>} :
       keyframelist' = Loaded(loops) /\ earliest_loop_index' = Earliest(loops)
  /\ UNCHANGED <<stream, buffers, sequence, process, sequence_cnt, sequence_loop, shifted, skipped,
                 drift, optimize_buf, opt, file>>

Next ==
  \/ PubKeyframe \/ PoseCallback \/ PointCallback \/ ImageCallback \/ CommandNew \/ Break
  \/ ThrowPose \/ ThrowPoint \/ Pair
  \/ Build \/ NoLoop \/ Loop \/ Shift \/ PushOptimize \/ AppendKeyframe
  \/ Take \/ Collect \/ Apply \/ Crash
  \/ CommandSave \/ Restart

Spec == Init /\ [][Next]_vars

-----------------------------------------------------------------------------
Stamps == Seq(Nat)
Keyframe == [stamp : Nat, sequence : Nat, loop_index : Nat \union {None}, shifts : Nat, stale : BOOLEAN]

(* The node's and the graph's variables have their types.                  *)
TypeOK ==
  /\ now \in Nat /\ newest \in 0 .. now
  /\ toPose \in Stamps /\ toPoint \in Stamps
  /\ image_buf \in Stamps /\ point_buf \in Stamps /\ pose_buf \in Stamps
  /\ last_image_time \in {None, now}
  /\ sequence \in 1 .. MAX_SEQUENCES
  /\ pc \in {"idle", "build", "detect", "shift", "append"}
  /\ taken \in [image : Nat, pose : Nat, point : Nat]
  /\ skip_first_cnt \in Nat
  /\ cur_kf \in Keyframe
  /\ toShift \subseteq Indices
  /\ keyframelist \in Seq(Keyframe)
  /\ earliest_loop_index \in Nat \union {None}
  /\ drift \in {"none", "fresh", "stale"}
  /\ optimize_buf \in Seq(Nat)
  /\ DOMAIN opt = {"stage", "cur", "first", "vio"} /\ opt.stage \in {"idle", "taken", "solve"}
  /\ opt.cur \in Nat \union {None} /\ opt.first \in Nat \union {None}
  /\ up \in BOOLEAN /\ shifted \in BOOLEAN
  /\ file \in Seq(Nat \union {None})

-----------------------------------------------------------------------------
(* "find out the messages with same time stamp" (pose_graph_node.cpp:255): *)
(* the image, the pose and the points of a keyframe are of one stamp,      *)
(* whatever a new sequence has thrown away.                                *)
PairsSameStamp == taken.image = taken.pose /\ taken.point = taken.pose

(* assert(loop_index >= first_looped_index) of pose_graph.cpp:531 holds,    *)
(* though earliest_loop_index is read without the lock it is written       *)
(* under: the loops among the frames of an optimization stay in them, and  *)
(* each leads past the recent frames, whatever the query returned.         *)
LoopEdgesInside ==
  opt.stage = "taken" =>
    \A i \in Indices :
      i \in opt.first .. opt.cur /\ Kf(i).loop_index # None =>
        Kf(i).loop_index \in opt.first .. i - Recent - 1

(* A sequence that met an older one is shifted as a whole, and the frames  *)
(* and the optimization that ran meanwhile catch up: when nothing is left  *)
(* to be done no pose is older than its odometry pose's shift, and a       *)
(* sequence has one shift (unless its number was skipped).                 *)
AtRest == pc \in {"idle", "build"} /\ opt.stage = "idle" /\ optimize_buf = <<>>
SettlesInOneFrame ==
  AtRest /\ ~skipped =>
    \A i, j \in Indices :
      ~Kf(i).stale /\ (Kf(i).sequence = Kf(j).sequence => Kf(i).shifts = Kf(j).shifts)
=============================================================================
