# A verification of fast_ws: from the cameras to the flight controller

fast_ws is the ROS workspace of a small autonomous quadrotor: it estimates the vehicle's state
from cameras and an IMU (VINS-Fusion), plans trajectories around obstacles (EGO-Planner), alone or
in a swarm, or follows a person (human_follow_rknn), and flies them through px4ctrl, which talks
to the PX4 flight controller unit (FCU) over MAVROS. This directory holds TLA+ models of it, the
TLC runs that check them and the proofs TLAPS checks. Paths below are relative to the workspace's
inner `src/`, where the packages are.

## 1. Inventory

| Component | Where | State it keeps | Operations | Module |
|---|---|---|---|---|
| Flight-mode FSM | `px4ctrl/src/PX4CtrlFSM.cpp` | `state`, `takeoff_land`, the detector's statics, the mode to give back | `process()` every cycle; set_mode, arming and reboot calls | `PX4Ctrl` |
| px4ctrl inputs | `px4ctrl/src/input.cpp` | last message of each topic, its time, the RC flags and edges | the `feed` callbacks | `PX4Ctrl` |
| Controller, thrust model | `px4ctrl/src/controller.cpp` | `timed_thrust_`, `thr2acc_`, `P_` | `calculateControl`, `estimateThrustModel` | - |
| Replanning FSM | `planner/plan_manage/src/ego_replan_fsm.cpp` | `exec_state_`, targets, waypoint index, the local trajectory, escape flag | two timers and six callbacks | `EgoReplanFSM` |
| Planner manager | `planner/plan_manage/src/planner_manager.cpp` | global and local trajectories, swarm buffer | `reboundReplan`, `EmergencyStop`, `updateTrajInfo` | `EgoReplanFSM` |
| Trajectory server | `planner/plan_manage/src/traj_server.cpp` | the trajectory served | `bsplineCallback`, `cmdCallback` | `TrajServer` |
| Trajectory optimiser | `planner/bspline_opt` | control points with base points and directions, segments, restarts | `initControlPoints`, `distinctiveTrajs`, the L-BFGS loop, refinement | `ReboundOptimize` |
| Path search | `planner/path_searching` | the pool of nodes, the heap | `AstarSearch` | `DynAStar` |
| Map | `planner/plan_env` | log-odds, inflated map, ray-casting flags | depth, odometry and cloud callbacks, the update timer | `GridMap`, `RayCaster` |
| Swarm | `planner/rosmsg_tcp_bridge`, the swarm callbacks of the FSM | sockets, the list of trajectories, one slot per drone | connect, accept, send, read, UDP | `SwarmStart` |
| VINS node and buffers | `VINS-Fusion/vins_estimator/src/rosNodeTest.cpp`, `estimator.cpp` | image, feature and IMU queues under `m_buf`, `mBuf`, `mProcess`, `mPropagate` | callbacks, `sync_process`, `processMeasurements`, restart | `VinsBuffers` |
| VINS window | `estimator.cpp`, `feature_manager.cpp`, `feature_tracker.cpp` | headers, features, pre-integrations, prior, images | `processImage`, `optimization`, `slideWindow`, restart, sensor switches | `VinsWindow` |
| Loop fusion | `VINS-Fusion/loop_fusion/src` | message queues, keyframe list, drift, queue of optimizations | callbacks, `process`, `addKeyFrame`, `optimize4DoF`, save, load | `LoopFusion` |
| The rest | `drone_detect`, `human_follow_rknn`, `global_fusion`, `camera_models`, `utils`, `shfiles` | | | - (section 6) |

How they interact: VINS publishes odometry, which px4ctrl, the planner and the follower read; loop
fusion corrects its drift in a frame of its own. Depth images and odometry fill the map, the
planner's optimiser and A* read it, and the FSM publishes the B-splines they make. `traj_server`
samples them into `/position_cmd` at 100 Hz, and px4ctrl flies `/position_cmd` while it is in
CMD_CTRL. px4ctrl publishes `/traj_start_trigger` when it is ready for commands, which starts the
planner; it has no other way back. Everything between nodes is a ROS topic: no acknowledgement,
and a publisher that dies just falls silent. px4ctrl's ages (`msg_timeout`) are what it has
against that. Drones of a swarm exchange trajectories through the bridge: once each along a chain
over TCP, then by UDP broadcasts.

What is hard, and what "right" means:

* **px4ctrl** - five levels of control driven by a transmitter, odometry, commands and requests
  that come, stop and come back in any order; callbacks in the middle of `process()`; service
  calls that may fail after the state has changed; flags that outlive the flight they were made
  for. Right: no command flown that the pilot did not release, no landing believed that did not
  happen, control given back whenever it is asked back, and commands left when they stop.
* **Replanning FSM and server** - timers and callbacks that rewrite one trajectory, a wait inside
  a callback that lets others in, an emergency stop that must not be undone. Right: what is
  flown is for the newest goal, and planner, server and swarm agree on it.
* **Swarm** - one message per drone, over a stream that cuts it and bridges that may not be there.
  Right: the order of the start, and nothing taken for a trajectory that is none.
* **Optimiser and A*** - segments by sampling, tables of choices, restarts with two limits, a pool
  that is never cleared. Right: no obstacle left out, no result of an older search, an end.
* **Map** - two writers of one pose, flags of one byte that are never cleared, a moving box that
  is rebuilt. Right: no obstacle lost or made up.
* **VINS** - two threads and the callbacks on four locks; a window whose parts are kept in step by
  hand. Right: frames in order with all their IMU data; observations, factors and prior about
  the frames they came from.
* **Loop fusion** - three threads on a graph of which half is locked. Right: what is paired belongs
  together, what is optimized is closed, and the graph ends in one frame.

## 2. What is modelled

Each component has a module; `MC<module>` gives TLC its instance, `<module>Proofs` holds theorems
(`PlannerProofs` those of `EgoPlanning` and `SwarmStart`). `EgoPlanning` composes `EgoReplanFSM`,
`TrajServer` and the topic between them; `FlightLevels` is what px4ctrl promises, as an abstract
specification. Every module has one type invariant `TypeOK` (`SwarmTypeOK`); the runs check it as a
conjunct of another property (`SwarmStart`, `ReboundOptimize`, `VinsBuffers`) or it is proved
(section 5), or both.

### PX4Ctrl

*The thread.* px4ctrl is one thread. `main` sleeps, runs the pending callbacks (`spinOnce`) and
calls `process()`. So a callback is an action (`FeedRC`, `FeedOdom`, `FeedCmd`,
`FeedTakeoffLand`, `FeedState`, `FeedExtendedState`), and a whole call of `process()` is one
action per path through it: `ManualToHover`, `HoverToCmd`, `LandDisarms` and so on, each with the
end of the call (`EndCall`: the land detector of STEP5 and the flags cleared by STEP6) inside it.
Twice `process()` spins by itself, and there the call is cut in two: `TakeoffBlocks` and
`SticksReady` around the wait for the sticks (`pc = "sticks"`), `ManualToTakeoff` and
`TakeoffArms` around the 0.1 s for the mode change (`pc = "modewait"`).

*Data.* A switch channel is below, at or above its threshold; the sticks are centred, off in
`ch[0]`, or off in another channel (`check_centered` can tell no more); odometry is fresh or not, at
the take-off height or not; a command is fresh or not. Whether the land detector's constraints 1 and
2 hold is free in every state whose setpoint may lie below the vehicle, in a take-off too
(`C12Free`; in the air only if `C12InAir`). In MANUAL_CTRL and in the call that engages the setpoint
is the odometry itself, 0.1 s old in a take-off, and they are taken not to hold. An odometry that
jumps up by 0.5 m within those 0.1 s, at rest, is thus left out: the detector would go on with the
window of 3 s of the flight before, since it keeps its statics when it returns early
(`PX4CtrlFSM.cpp:400`).

*Time.* Ages and timers are not counted. That one runs out is an action (`RCTimeout`,
`OdomTimeout`, `CmdTimeout`, `SpeedupElapses`, `DelayElapses`, `C12Elapses`, `RetryElapses`)
which may come at any moment it could in the code. One ordering of times is kept: the flags of an
RC message live until the next call of `process()`, which comes long before the message
is too old, except while `process()` itself waits for the sticks.

*The world.* The FCU (`fcu`: mode and arming) and the ground are modelled from what px4ctrl asks of
them, and are marked external. A set_mode call may fail, or be sent and then refused; an
arming or disarming call may fail; disarming works on the ground only. The pilot may
change modes and arm on the FCU when `PilotActs` says so. The node may have been restarted in
flight: `Init` allows an armed vehicle in the air. `sent`, `cmdSince`, `winSince` and
`climbHover` are history variables, read by no guard. `NoRC`, `Enable`, `EnableAutoArm` are the
parameters of `auto_takeoff_land` after `config_from_ros_handle` made them consistent
(`ParamAssumption`).

*FlightLevels.* L1 (manual), L2 (hover), L3 (command), take-off and landing, as the comment at the
top of `PX4CtrlFSM.cpp` names them. OFFBOARD is asked of the FCU exactly above L1; a level above
L1 is entered or changed only while the pilot's switch permits it and there is odometry; down to
L1 the way is always open; the take-off alone needs no switch. `PX4Ctrl!LevelsSpec` is that
specification under the refinement mapping (`LevelOf`, `offb.asked`, `rc.is_hover_mode`,
`odom.fresh`).

### EgoReplanFSM, TrajServer, EgoPlanning

*The thread.* The planner is one thread: two timers and the callbacks, each of them one
step. The exec timer (`execFSMCallback`) is an action per case of its switch and outcome of
planning (`ExecInit` to `ExecEscapes`); the safety timer (`checkCollisionCallback`) is
`SafetyClear`, `SafetyReplans` and `SafetyStops`, after the test for lost depth images that all
three begin with. `planNextWaypoint` is the hard part: called from a callback or a timer, unless
it can change the state at once it runs callbacks itself until it sees EXEC_TRAJ. So the call is
cut in two, `PlanNextWaypoint` and `WaitEnds`; in between anything may run, further goals too,
each of which nests one more waiting call: `waits` counts them, `MaxWaits` bounds them.
`ReadGivenWps` is the end of `init()`'s own wait for odometry and trigger. `ExecRuns` keeps one
ordering of the code: the waiting loop looks at the state after every round of callbacks, so
the exec timer does not run a second time on an EXEC_TRAJ that it has just reached.

*Data.* A goal is one of `Points`; a local target is the goal's point, or `Horizon`, or (when
`getLocalTarget` finds nothing) what it was. A trajectory is its kind, the goal it was made for and
the local target it ends at. Whether a plan is found, whether a collision is seen and how near it
is, is free here; `ReboundOptimize` is about that call. Ages are `young`, `aged` (beyond
`thresh_replan_time_`) or `over`. The test at `ego_replan_fsm.cpp:558` with `no_replan_thresh_`
(`ExecArrives`) is "near the last waypoint" if the threshold is positive, and never true with
the default, -1.0: `NoReplanThresh`.

*The world.* Another drone's broadcast is the collision it shows (`BroadcastCollides`), the
predecessor's message the flag it sets (`SwarmTrajsCallback`). The topic `planning/bspline` is a
queue that loses its oldest message when it is full. `flag_escape_emergency_` starts with any
value: the code gives it none. In `TrajServer`, `BsplineCallback` replaces the trajectory that is
served whatever its progress; `CmdCallback` publishes while it lasts; after its end it is silent.

*Left out.* `have_new_target_`, `continously_called_times_`, the yaw, and traj_server's branch for
a start time in the future (both nodes read one clock).

### SwarmStart

The planners of N drones reduced to their start and their trajectories, the bridges and the network.
`TriggerComes` decides how a planner leaves the ground: in SEQUENTIAL_START (`SequentialStart`), or,
when the goal finds it in WAIT_TARGET already, through GEN_NEW_TRAJ (`GenNewTraj`,
`ego_replan_fsm.cpp:182`), which waits for nobody and publishes by `publishSwarmTrajs(false)`: no
start message goes out, and a successor that waits for one waits for ever. `swarmTrajsCallback` is
that of the FSM; the slots and the list of trajectories are the code's. The bridge is `StartBridge`,
`Connect` (once, 0.2 s after the start), `Accept` (one connection in its life), `SendMulti`, `Read`
and `PublishTrajs`, `EndOfStream` and `Crash`. The message's layout is kept in cells of four bytes,
as it is serialized and deserialized: `read()` may cut it anywhere, and each piece lies over what is
left in the buffer of the piece before. `ReadsOf` is everything a message may be read as, computed
once; since nothing the node does depends on when a piece arrives, `Read` takes all of them in one
step. Sizes read from stale cells may be huge, which ends the process (`Abort`). `lost` records that
the one start message of a drone can no longer arrive. The mode is PRESET_TARGET; `LoopsBack` is
whether the last drone's `next_drone_ip` is left at its default, its own machine.

### ReboundOptimize

One call of `reboundReplan()` after another: the sampling of the path with its open and closed
segments (`Sample`), paths around them (`FindPaths`), "Avoid overlap" and the base points
(`Assign`, `Assigned`), the table of sides (`Vary`, `Select`), then for each choice the L-BFGS call
with every reason to stop it (`Evaluate`, `TryAgain`, `SolverFails`, `Converges`), the verdicts, the
restart loop with `restart_nums` and `rebound_times`, and the refinement. A control point is its
index; occupancy, costs and what A* finds are chosen. `rebound_times` is counted one past its
limit, as far as it is read.

### DynAStar

The search of `dyn_a_star.cpp`, one step per node expanded, on a pool that keeps the records of
earlier searches, valid by their `rounds` field. The ends are adjusted out of obstacles as in
`ConvertToIndexAndAdjustStartEndPoints`; the heap is a set whose minimum is popped, except that
`lowered` remembers the keys changed in place, and then any node the broken heap may surface can
be popped. The 0.2 s limit is `TimeLimit`. Two of three axes; costs are ten times the code's.

### GridMap, RayCaster

Images come with a pose of one of two types, fixed at the start: `depthPoseCallback` (`DepthPose`, which
uses no image taken outside the map) or `depthOdomCallback` (`DepthOdom`, which uses any).
`advanced_param.xml:123` sets the first, `advanced_param_exp.xml:122`, the real flight, the second.
With them the odometry and cloud
callbacks, and the timer, cut at its loops: a step per ray (`CastRay`), one for the cached voxels
(`FuseCached`), one for inflation (`ClearAndInflate`). Nothing interleaves with it. Two of
three axes, log-odds as integers with `clamp_min_log_` at 0 and unknown below; `raycast_num_` is
a number of one byte that wraps (`CharSize`). `silence` counts
periods without an image for the alarm. `taken` and `measured` are history variables.

A ray has two ends and two grids. Where it ends is found on the line in the map's grid, cut to
`max_ray_length_` and by `closetPointInMap` (`RayEnd`). What it passes is found in the ray caster's:
`floor(pos / resolution_)` (`raycast.cpp:236`, `grid_map.cpp:413`) against `floor((pos -
map_origin_) / resolution_)` (`grid_map.h:368`). With `ground_height` -0.01 and a resolution of 0.15
the two are shifted, so the cell of a position may be the neighbour of its voxel (`CellOffsets`,
`Ways`). A ray from a camera outside the map counts voxels by an address that is another row's
(`Slot`), or outside of the buffers; a write there is undefined behaviour, after which nothing is
said (`Undefined`). `Line` is any way from one voxel to another that starts where it should; the
instance draws it with `RayCaster`, the translation of `raycast.cpp`.

### VinsBuffers

The ROS callbacks (one thread), `sync_process` and `processMeasurements` with its lock sections:
`SeesFrame` and `CopyFrame` test and read the front of `featureBuf` without a lock (and set
`curTime`), `CallReturns`, `HasImu` the wait for the IMU, `BeginInterval`, `EndInterval` and
`PopFrame` the section under `mBuf` that takes the IMU data and pops, `ProcessImage` under
`mProcess` with `updateLatestStates`, `Ready`. `clearState` holds `mProcess` only, so it is three
steps beside all of that: `ClearImu`, `ClearFeatures`, `ClearEstimate`, the last of which sets
`curTime` to 0 for a frame in hand too. One operation of a queue is one step; `front()` or `pop()`
of an empty one is undefined, and the model ends there (`undefined`). `inputIMU` is two steps, since
its prediction follows the section that pushes (`InputIMU`, `Predict`). Without MULTIPLE_THREAD the
processing is part of `inputImage`. Time counts IMU periods; any message may be lost, none overtakes
another of its topic. The estimator is whatever initializes after `InitFrames` frames or later.

### VinsWindow

Everything the estimator keeps by index: what each observation, pre-integration and block of the
prior is really about is the number of its frame. `InputImage` names points as `trackImage` does;
the processing thread is `CopyFrame`, `PopFrame`, `ProcessIMU`, `AddFeatures`
(`addFeatureCheckParallax`), the initialization or `Optimize` with its outlier removal and
marginalization, and the two kinds of slide. `ClearState` and `changeSensorType` (`Switches`) may
come between any two sections, also while a frame is in hand, which then goes on with `curTime` 0:
another frame is popped in its place, `prevTime` becomes 0, and the next pre-integration starts
there. `cut` remembers that frame. `clearState` and the loop over `processIMU` are one step each
here. A null pre-integration that is dereferenced (`estimator.cpp:498`, `:751`, `:1057`) ends the
model (`undefined`). Depths, poses and the solver's success are free.

### LoopFusion

The callbacks, `process()` (pairing; `Build`, `NoLoop` or `Loop`, `Shift` one keyframe at a time,
`PushOptimize`, `AppendKeyframe`: the order in which `addKeyFrame` touches shared state), the
optimization (`Take`, `Collect`, `Apply`), the operator's commands, a crash and a restart from the
saved graph. Of a pose the model keeps how often its odometry pose was shifted and whether it agrees
with it. Stamps go forward, and an image arrives before the keyframe made of it. `image_callback`'s
push and `new_sequence`'s are two lock sections in the code and one step here.

## 3. What is checked

| Run (distinct states) | Shows |
|---|---|
| `flight` (3.5 M) | With a transmitter and automatic take-off: no command older than the engagement is flown (`CommandPostdatesEngagement`), no landing of an earlier flight is believed (`LandingSeenThisFlight`), px4ctrl implements `FlightLevels` (`LevelsSpec`). |
| `live` (0.8 M) | If the loop keeps running: channel 5 taken back ends every flight (`SwitchEndsFlight`), odometry lost ends all but the take-off (`OdomLossEndsFlight`), commands that stop end the flight by commands (`CommandLossEndsControl`). |
| `goals` (54 k) | A follower of a swarm, goals at any moment, two waits nested: nothing is planned or flown without its inputs (`PlanInputsExist`), the trajectory flown is for the newest goal (`FliesNewestGoal`), the swarm knows it (`SwarmKnowsPlan`). |
| `tour` (1.2 M) | A tour of given waypoints, with the server: what the planner checks for collisions is what the server flies or has as its newest message (`ServerFollowsPlanner`), a stop is made once (`StopsOnce`), a tour ends at its last waypoint (`GivesUpOnlyOnArrival`), an emergency stop reaches the server (`EmergencyReachesServer`). |
| `swarm` (0.6 M) | Three drones, one of which may leave by itself: those that wait for their turn start in order (`StartsInOrder`), each with the trajectories of all before it (`SendsTheWholeChain`), a slot holds a trajectory of its drone (`SlotHoldsItsDrone`), and a drone whose predecessor started in its turn flies, or the message was lost (`StartsOrLost`). |
| `rebound` (1.2 M) | Nine control points: every occupied line is in a segment (`SegmentsCover`), segments are disjoint and ready for `distinctiveTrajs` (`SegmentsReady`), the table has every choice once (`EveryChoiceOnce`), the call returns but for one case (`Returns`). |
| `path` (0.2 M) | Two searches in one pool, five maps: a path found is free and connected (`PathIsFree`), a search that gives up was cut off (`ExhaustedMeansCutOff`), the records add up (`ScoresAddUp`). |
| `map` (1.3 M) | Both types of pose, four images of four kinds from four poses, two of them outside the map: what is occupied is inflated (`OccupiedIsInflated`), what is inflated was measured (`InflatedWasMeasured`), an image is cast from its pose, and with stamped poses from inside the map (`CastsFromItsPose`), a surface seen becomes likelier (`SurfaceIsHit`). |
| `buffers` (4.2 M) | All threads, one camera and two, a restart at any moment: the IMU data of a frame is complete, unless `clearState` found it in hand (`ImuDataComplete`), without a restart the frame copied is the frame popped (`PopsItsFrame`), the odometry goes forward (`OdometryForward`), the estimator catches up (`CatchesUp`). |
| `window` (8.0 M) | A window of three frames and a newest one, every sensor set, restarts: `ObservationsAligned`, `LostForGood`, `PriorAligned` (not of two cameras without an IMU, which marginalize twice when they initialize), `ImuConnectsFrames` (not across a frame a restart found in hand), `ImagesCoverWindow`: all that is indexed by the window is about the frame at its index. |
| `loop` (4.5 M) | Five images, three sequences, a graph from disk or none, one restart: a keyframe's parts have one stamp (`PairsSameStamp`), loops stay inside what is optimized (`LoopEdgesInside`), every sequence settles in one frame (`SettlesInOneFrame`). |

The twelfth run, `emergency`, finds a behaviour that a comment rules out. The flag of
`ego_replan_fsm.cpp:596` is there to avoid "repeated calls"; it is set only by a plan of
GEN_NEW_TRAJ (`:519`), has no initial value and stays down when EMERGENCY_STOP is left by another
way (`:732`, `:319`). The program then announces "emergency stop!" (`:740`) and publishes no stop
trajectory (`EmergencyStops`).

### Bounds

*px4ctrl* has no counters: every variable ranges over a small set, and TLC explores each instance
completely. What is bounded is the set of RC messages: `flight` has the three switch positions of
a flight, one of them with a stick off centre; `live` channels 5 and 6 together. Two FCU modes
are enough: the code tells OFFBOARD from the rest and compares nothing else. The RC-free
configuration (`NoRC`) has a subset of the steps, from `RCDefault`; the proofs cover it.

*Planner.* Two points: the code compares `end_pt_` with one other point at a time. `MaxWaits` is 2
in `goals`, so a goal arrives while a call waits inside a call, and 1 in `tour`, where only the
planner itself gives waypoints. The queue is 1 or 2 long instead of 10: long enough to delay,
short enough to overflow. `goals` leaves the server out, which reads nothing the planner reads.
`NoReplanThresh` is TRUE in the runs, as in every launch file (1.0); the theorems cover the
default too.

*Swarm.* Three drones have a first, a middle and a last. Two trajectories each, so that a newer one
by UDP meets an older one in a list; one datagram in the air, between four pairs (`Hears`), one of
which may be out of range; a message read in at most two pieces, cut anywhere; the bridge of the
middle drone may die once, and the middle drone is the one whose goal may find it in WAIT_TARGET
(`Late`): it has a predecessor it does not wait for and a successor it does not tell. A drone takes
off once.

*Optimiser.* Nine control points are the least with a checked part of more than one point; lines of
six samples; seven kinds of line: free, full, occupied at either end, at both, in the middle
with and without the gap that closes a segment. One restart, no free rebound: the first of
either reaches its limit. `MaxEvaluations` (6) passes the number (4) from
which new collisions are looked for.

*A\**. A pool of 7 by 5 has 15 nodes to walk on, enough for a detour, a wall, a trap and an end that
is moved; two searches, so that the second meets the records of the first.

*Map.* Five by three voxels with a local range smaller than the map; images with and without
returns, near and too far; poses at two corners, behind the map and beside it; a ray caster's cell
is the voxel or its neighbour below; one byte has two values, and four images (the first only noted)
wrap it; one voxel of inflation.

*VINS.* `buffers`: an image every second IMU period, four images, a restart, sensors up to two IMU
periods apart; a frame may initialize the estimator. `window`: `WINDOW_SIZE` 3 has an oldest, a
second newest and one between; six frames, so that it slides more than once; two names, both of
which may be followed at a time; two restart or switch messages. Only `imu_switch` is used there
(see below).

*Loop fusion.* Five images in at most three sequences; a keyframe more than one older may be
a loop; three new keyframes, enough for an optimization to run while the next keyframe shifts its
sequence.

### Fairness

* `PX4Ctrl!FairSpec`: `WF_vars(Process)`; `ros::Rate` drives the main loop for ever, and no call
  inside `process()` blocks but the wait for the sticks (whose disabled wait the fairness does not
  force). Nothing is assumed of callbacks, time, the pilot or the FCU.
* `EgoPlanning!FairSpec`: weak fairness of the exec timer, a ROS timer of a node that spins for ever
  (also inside every waiting call, which spins too), and of the delivery of a queued message to a
  server that spins. Nothing of planning, goals, the safety timer, or time.
* `SwarmStart!SwarmFairSpec`: the planners' timers and the bridges' threads run. Not that a bridge is
  started, odometry comes, or datagrams arrive; that is why `StartsOrLost` has its second half.
* `ReboundOptimize!FairSpec`: one thread, called, goes on until it returns.
* `VinsBuffers!Spec`: both threads run, and the IMU does not fall silent: the processing thread waits
  for it by design. Nothing of the images.

*Mutants.* Each property has a mutant beside the definition it changes (`...NoReset`, `FoundOnly`,
`EarliestOfRun`, ...): a plausible slip in that code under which TLC finds the property violated.

## 4. Where code and words disagree, and what the models exclude

Found while modelling, besides `emergency`; each is in the model unless it says otherwise.

*px4ctrl.* The header says the FCU is rebooted "only while not armed" (`PX4CtrlFSM.cpp:19`); `armed` is
what a State message up to a second old said (`:164`). A mode change back to the pilot's mode may
fail and is not asked again (`:180`, against `PX4CtrlFSM.h:58`). A take-off arms whatever mode the
FCU is in (`:146`-`:155`) and ignores channel 5 (`:254`). A landing called off on the ground leaves
`landed` set, and idles the motors in the air (`:371`, `:395`). The delayed trigger of a take-off
may be sent in a later hover (`:207`, `:270`). `check_centered` looks at one stick of four
(`input.cpp:115`). The reboot switch is dead until channel 5 has been in hover once
(`input.cpp:13`, `:72`). `process()` waits for the sticks without limit (`:127`); two RC messages in one
`spinOnce` lose `enter_hover_mode` (`input.cpp:64`).

*Planner.* A goal in WAIT_TARGET goes past SEQUENTIAL_START (`ego_replan_fsm.cpp:182`); a goal in an
emergency that cannot be left waits for ever (`:187`); within 0.2 m of the goal every plan fails
(`planner_manager.cpp:59`); an emergency stop is not told to the other drones (`:858`); the comment
at `traj_server.cpp:191` says hover when the trajectory is finished, and the code is silent.

*Swarm.* A drone that leaves the ground by WAIT_TARGET waits for nobody, and a successor that waits
in SEQUENTIAL_START never gets its message (`ego_replan_fsm.cpp:183`, `:515`): `StartsInOrder` and
`StartsOrLost` are about drones that took off in their turn. The start message is sent once, the
connection is tried once, the server accepts one in its life. Left at its default, `next_drone_ip`
connects the last drone to itself. A `read()` that cuts a message loses it, or ends the process, or
overwrites `multi_bspline_msgs_buf_` with a list that is then refused. A list by TCP may replace
newer trajectories that came by UDP. A list without odometry is kept, but the flag that would use it
stays down. The STOP path is dead code.

*Optimiser.* "swarm too close, keep optimizing" (`bspline_optimizer.cpp:1490`) has no limit of its
own when the solver fails (`GivesUp`). "Wrong number of base_points!!! Should not be happen!." is
reachable (`WrongNumber`). "Avoid overlap" may leave a segment empty. A stop asked for by the last
evaluation of a solver that converges is not seen. Not modelled: `intersection_point` uninitialised;
`Astar_id` read one past the path before its bound is tested.

*A\**. Truncation toward zero shifts negative offsets; `inf = 1 >> 20` is 0; an end on the pool's border
is never reached; keys are lowered in the heap, so a path need not be the shortest. Not
modelled: start and end in the same occupied voxel, which never moves out of it.

*Map.* `raycast_num_` is a `char` and wraps, and -1 is also what the flags start with; an inflation
index is tested by its address only and may wrap at a face of the map; inflation from just outside
the local box is erased inside it; the alarm for lost depth is never reset, and never raised if
depth never came; the cloud callback erases the inflation of the depth images. Not modelled: without
the depth filter, `has_first_depth_` is never set and odometry overwrites the camera's pose. With
`pose_type` 2, the flight's, an image is cast from wherever the odometry says, also from outside the
map (`grid_map.cpp:1000`): voxels are then counted in another row or outside of the buffers
(`:196`). Where the ray caster's grid is shifted against the map's, this may happen to a camera at
the border of the map too.

*VINS.* `clearState` sets `curTime` to 0 (`estimator.cpp:40`) also under a frame the thread has in
hand. If that frame still waits, `getIMUInterval(-1, 0)` takes one datum only, which may be older
than the frame (`:296`). If not, its processing ends with `prevTime = 0` (`:319`), and the first
`dt` of the next frame is the whole time since the epoch: the propagated pose is far off, and the
IMU factor is left out, since `sum_dt` is above 10. `ImuDataComplete` and `ImuConnectsFrames` except
that frame and what is integrated from it. `clearState` shares no lock with `getIMUInterval` (`:32`,
`:294`): a queue just checked may be empty when its front is read or popped, which is undefined
behaviour (`undefined` in `VinsBuffers`), and another frame may be popped in place of the one in
hand, so `PopsItsFrame` is stated for runs without restart. A restart between the `processIMU` loop
and `processImage` leaves a null pre-integration that is dereferenced when the window is full
(`:498`, `:751`, `:1057`; `undefined` in `VinsWindow`). Two cameras without an IMU marginalize twice
when they initialize, and `PriorAligned` leaves them out. Turning the IMU on again reuses
`pre_integrations` of before until the restart that follows (`reuse`, `estimator.cpp:135`), which
`PriorAligned` and `ImuConnectsFrames` except. Not in the run: `cam_switch` from one camera to two
during the initialization lets `all_image_frame` outgrow `Rs`, which `ImagesCoverWindow` excludes
only without it. Without MULTIPLE_THREAD one late IMU message makes the estimator lag for ever
(`CatchesUp` is about the thread). With `imu: 0` at the start, the IMU is never subscribed, and
`imu_switch` waits for ever. Not modelled: ESTIMATE_EXTRINSIC 2.

*Loop fusion.* The keyframe is queued for the optimization (`pose_graph.cpp:156`) before it is in the
list: a thread that takes it at once ends in a null pointer (`Crash`). Messages taken before a new
sequence get the new number; a number that is skipped resets the shift and leaves two sequences
with one (`skipped`). The image that begins a sequence is thrown away. Drift of an old sequence may
be applied to a new one. The saved graph forgets its sequences.

## 5. What is proved

All theorems are about `Spec` (or `SwarmSpec`), without fairness, for every value of the constants
that meets the named assumptions of the module.

`PX4CtrlProofs`: `TypeCorrect`; `CommandsArePostEngagement`, `LandingIsOfThisFlight`,
the safety invariants of `flight`; `NeverRebootsOnEngaging` (no call both
engages AUTO_HOVER and reboots the FCU: proved, not run); `ImplementsLevels`, the refinement. The
inductive invariant adds two facts. `InsideCall`: the thread is inside `process()` only in the
state that waits there; without it the second half of a take-off could start from anywhere.
`SwitchFlags`: the edge into hover implies the hover position, the reboot flag excludes it. A
step is between the calls (`BetweenCalls`), or a call that ends in MANUAL_CTRL, flies on, or
engages, where the detector starts anew.

`PlannerProofs` about `EgoPlanning`: types, `PlansFromWhatIsThere`, `AlwaysFliesNewestGoal`,
`SwarmAlwaysKnowsPlan`, `StopsOnlyOnce`, `ServerAlwaysFollows` (whatever the queue loses),
`GoalsAreKept` (an action property), at any depth of nested waits. The inductive invariant adds
`GoalKnown`: there is a goal as soon as `have_target_` is set or a trajectory exists, and in a tour
it is the waypoint of `wp_id_`. The steps go by what a handler does to the trajectory, the state,
the goal or flags.

`PlannerProofs` about `SwarmStart`: `DronesStartInOrder` (`StartsInOrder`), `SlotsHoldTheirDrones`
(`SlotHoldsItsDrone`), `DronesSendTheWholeChain` (`SendsTheWholeChain`), for every number of drones,
reads, datagrams and crashes, whoever leaves by WAIT_TARGET. The first and the last are about the
drones that took off in their turn (`in_turn`); a drone that did not sends nothing, so it starts
nobody. Two arguments meet. *The bytes.* A start message of n trajectories is 4 + 24n cells
(`Carries`), and `server_fun` finds only one thing or nothing in any piece of it: a first piece that
is not all of it never has the length found in it (`FirstPiece`); a later piece starts inside a
trajectory, and the cell its count is read from leaves four places where the lengths may agree, each
with a list no planner accepts (`LaterPiece`, `Unfit`). Stale cells behind the piece do not help,
since the length found must be what `read()` returned. So what is made of a message is the message,
or unfit lists and at most one `Abort` (`ReadsOfStart`). *The chain.* `SwarmInv`: a drone sends
once, when it takes off in its turn, the chain up to itself (`SentOnce`); what a server has parsed
was made of that message of its predecessor (`MadeOfIt`), so a planner that waits with
`have_recv_pre_agent_` set holds the chain before it and nothing more is on its way that could
replace it, a refused list being kept too (`HoldsTheChain`); the own trajectory it appends then
lands in its own slot, and every trajectory named on the way has been planned (`Planned`).
`NoStartMessageVanishes` is the safety half of `StartsOrLost`: the start message of a drone that
took off in its turn is somewhere on its way (`OnItsWay`), or was dropped where the model says so
(`lost`).

`DynAStarProofs`: `TypeCorrect`, `RecordsAddUp` (`ScoresAddUp`), `GivesUpCutOff`
(`ExhaustedMeansCutOff`), `WaysAreFree` (`PathIsFree`), for pools of any size and any number of
searches. `Records` adds to the scores what the heap holds, that every free node of this round is
open or closed, that what lies around a closed node has been found, that the end is not closed,
and that the start alone has no predecessor. For the path: the scores fall from a node to its
predecessor, so the set of nodes with a smaller score shrinks (`NearerShrinks`), and
`retrievePath` is at the start before its bound, the size of the pool. That moving an end outwards
terminates is a lemma (`LeavesPool`). Two theorems no run states: where a search says that there is
no path, no way of any length leads to the end (`NoPathOnlyIfNone`: the first node of such a way
that is not closed would be around a closed one), and every round closes one node more and opens
none again (`EachRoundCloses`), so the loop ends without its time limit too.

`GridMapProofs`: `TypeCorrect`, `ImagesKeepTheirPose`, `NoObstacleMissing`, `NoObstacleInvented`
(`InflatedWasMeasured`), for every size of the map, radius of inflation, camera and way to draw a
line that meets `FilterAssumption`, both types of pose, and every offset of the ray caster's cells.
`ImagesKeepTheirPose` says "inside the map" of stamped poses only. What the timer knows between its
loops makes `NoObstacleMissing` inductive: a voxel with a hit lies in the box of what was cast
(`HitsInBox`), and one that was only passed does not become an obstacle, wherever it is; so after
fusing only the local box holds obstacles not inflated (`NotYetInflated`), and that box is rebuilt.
For `NoObstacleInvented` a voxel with a hit counted, or likely an obstacle, is in `measured`
(`HitsMeasured`, `OccupiedMeasured`). `SurfacesAreHit` (`SurfaceIsHit`, an action property) counts
over the rays of the image: where none missed, half of the counts or more are hits (`HalfAreHits`);
a surface no other ray misses is in the queue under its own index, also where others came by another
row's address. It assumes `max_ray_length_ <= local_update_range_`, and needs to: a surface between
the two is measured but cut out of the update. `advanced_param.xml` sets 4.5 and 5.5;
`advanced_param.launch` (`:111`, `:139`) sets 6.0 and 5.5, and there it does not hold.

`LoopFusionProofs`: `TypeCorrect`, `PairsAreOfOneImage`, `LoopsStayInside`, `SettlesTogether`
(`SettlesInOneFrame`), for every graph on disk and any number of images and restarts. The first needs
the order of the streams (`Ordered`, `ImagesInRow`) and that a pose that is not before the images
still has its points (`PointsThere`). The second needs that `earliest_loop_index` is below every
loop of the graph (`GraphLoops`, `CurrentLoop`) and of what is queued: it is written before the
keyframe is queued, which is what makes reading it without its lock harmless. The third is about
all moments the optimization may have copied the poses that `Shift` is moving: what is stale lies
at or after `earliest_loop_index` (`StaleFromEarliest`), so an optimization queued after the last
shift covers all of it; if none is queued or about to be, the one that runs has copied the
latest poses (`RunsCover`, `SolvesTheLatest`); and `sequence_loop` lets a sequence be shifted only
once (`OneShift`).

`VinsBuffersProofs`: `TypeCorrect`, `ImuComplete` (`ImuDataComplete`), `PopsWhatItCopied`
(`PopsItsFrame`), `OdometryMovesForward` (the action property `OdometryForward`), for every rate of
the images, skew of the sensors and number of restarts, with and without a thread. Complete: the
frames keep their order from queue to queue (`ImagesOrdered`, `FramesOrdered`), so nothing a frame
drops from `accBuf` is wanted by a later one (`DataKept`). `curTime` is the frame's own until
`clearState` has taken it away (`ClockSet`), which is the exception that the statement makes, and
needs to: what a restart does to a frame in hand is in section 4. Forward: `accBuf` ends with the
newest datum (`PredictsNewest`), so the replay after a frame ends where the prediction was; it is
empty only before initialization, also after a restart, which empties it before anything else
(`ClearedFirst`, `EmptyWhileInitial`).

`ReboundOptimizeProofs`: `TypeCorrect`, `ObstaclesCovered` (`SegmentsCover`), `SegmentsAreReady`
(`SegmentsReady`), `TableComplete` (`EveryChoiceOnce`), for every number of control points and
samples, and every outcome of occupancy, path search and solver. `ObstaclesCovered` follows the
scan's flags sample by sample (`ScanOK`): an occupied line lies behind the entry of the segment that
is open, or in one that is pushed. `SegmentsAreReady` takes the segments from touching (`InOrder`)
through "Avoid overlap" to apart, and the base points through `Assign` and every restart, where
`NewSegments` finds segments again in a curve that has moved (`SegmentsAt`, `BasesAt`).
`TableComplete` reads the digits of `selection` as a number that grows by one. The recursive
functions of these operators are unfolded by one lemma (`StepByStep`): what is given step by step
over a finite range exists. `EveryStepLeadsOn` is why `Returns` holds: what a call has left is four
natural numbers, in this order the parts of the call (`PartsLeft`), the restarts and rebounds of a
trajectory (`TriesLeft`), the stage of a try (`StageLeft`) and its rounds (`RoundsLeft`), and every
step leaves less, unless it ends in `GivesUp`: the solver failed or was stopped with another drone
too close, which uses up no rebound, and is the one way a call may go on for ever.

`VinsWindowProofs`: `TypeCorrect`, `Aligned`, `LostStaysLost`, `PriorIsAligned`, `ImuConnects` and
`ImagesCover` state all invariants of `window`, for every size of the window, every sensor, and
restarts and switches at any time; the last assumes that the topic `cam_switch` is not used, and
needs to (section 4). Observations stay aligned because no lost name comes back, and that is
inductive only for all names still to come (`ToCome`): once the frame that is taken, those that wait
and the tracker lose a name they do not get it again (`Steady`). Between `optimization` and
`slideWindow` the prior is about the window that is to be (`PriorInv`); the pre-integration of the
newest frame starts where the frame before ended, in every stage of the thread (`NextImu`), which no
longer holds of an IMU just switched on, hence `Live`. After a frame that `clearState` found in hand
it starts at time 0 instead, and such a frame can only be the first of the window (`CutFirst`):
`ImuConnects` says exactly that, no more.

*Only model-checked:* liveness (`SwitchEndsFlight`, `OdomLossEndsFlight`, `CommandLossEndsControl`,
`EmergencyReachesServer`, `StartsOrLost`, `Returns`, `CatchesUp`), since the prover has no ENABLED
and so no weak fairness; of `Returns` and `StartsOrLost` the theorems above prove what does not need
it. Every safety property and action property of the runs is a theorem.

## 6. What is not modelled

* **Numbers**: gains and recursive least squares (`controller.cpp`), the costs and gradients of the
  optimiser, De Boor's formula and polynomial trajectories, factors, marginalization as linear
  algebra and structure from motion in VINS, GPS alignment. Real arithmetic is out of TLC's reach;
  what steers control is a free choice in the models.
* **The thrust window** (`controller.cpp:117`): a thrust is used if it is 35 to 45 ms old. What comes
  of it is a number that decides nothing in the state machine.
* **human_follow_rknn**: detector and follower are vision and control. In the loop around them,
  one failed reacquisition clears the target for good (`human_tracker_node.cpp:177`), and the
  first message after a gap moves the reference by the whole gap
  (`human_follow_px4ctrl_node.cpp:61`). Both nodes name their topic in private namespaces that no
  launch file remaps, so they are not connected.
* **drone_detect**, **depth fusion**, **global fusion**: image processing and numbers in one
  callback each; no launch file of the flight starts the last.
* **Vendored and generated code**: `camera_models` (calibration), DBoW2 and DVision in
  `loop_fusion`, `lbfgs.hpp` (its results are the outcomes `ReboundOptimize` chooses from), message
  encoding of another autopilot, rviz plugins, build macros, most of the repository's lines; launch
  files and scripts.
* **Parts of modelled components**: the map's publishers for rviz; optical flow
  and masks of the tracker; the odometry over UDP of the bridge, which only moves markers;
  `getManhHeu`, `getEuclHeu` and the gradient-descent optimiser, which have no caller; the published
  odometry of loop fusion.

What could come next: the composition of `TrajServer` with `PX4Ctrl` (a trajectory that ends
silences the commands, and px4ctrl falls back to AUTO_HOVER), and the planner's liveness when
planning succeeds again and again.
