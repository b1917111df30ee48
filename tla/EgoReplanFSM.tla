----------------------------- MODULE EgoReplanFSM -----------------------------
(***************************************************************************)
(* The planner node: EGOReplanFSM and the part of EGOPlannerManager and of *)
(* GridMap it decides by.  Where a trajectory goes is abstracted to the    *)
(* goal it was planned for and the local target it ends at; whether a plan *)
(* is found, and whether the map shows a collision, is a free choice.      *)
(*                                                                         *)
(* The node is one thread, and a callback is one step.  planNextWaypoint() *)
(* is the exception: unless it may change the state at once, it runs the   *)
(* callbacks itself until exec_state is EXEC_TRAJ.  waits counts the calls *)
(* that wait so; another goal that arrives meanwhile nests one more.       *)
(***************************************************************************)
EXTENDS Integers, Sequences

CONSTANTS
  Points,            \* the places a goal can be
  TargetTypes,       \* what fsm/flight_type may be: MANUAL_TARGET, PRESET_TARGET
  Waypoints,         \* fsm/waypoint<i>, as a function on 0 .. waypoint_num - 1
  WaypointNum,       \* fsm/waypoint_num
  Realworld,         \* fsm/realworld_experiment
  FailSafe,          \* fsm/fail_safe
  FirstDrone,        \* manager/drone_id <= 0
  NoReplanThresh,    \* fsm/thresh_no_replan_meter is positive (the default is -1.0)
  QueueSize,         \* queue of the planning/bspline topic (10 in the code)
  MaxWaits           \* bound: calls of planNextWaypoint that wait at a time

Horizon == "horizon"   \* a local target on the way to the goal
Nowhere == "nowhere"   \* end_pt before the first goal

ASSUME PointsAssumption == Points # {} /\ Horizon \notin Points /\ Nowhere \notin Points
ASSUME TargetAssumption ==
  /\ TargetTypes # {} /\ TargetTypes \subseteq {"MANUAL_TARGET", "PRESET_TARGET"}
  /\ WaypointNum \in Nat \ {0}
  /\ Waypoints \in [0 .. WaypointNum - 1 -> Points]
ASSUME NodeAssumption ==
  /\ Realworld \in BOOLEAN /\ FailSafe \in BOOLEAN /\ FirstDrone \in BOOLEAN
  /\ NoReplanThresh \in BOOLEAN
  /\ QueueSize \in Nat \ {0} /\ MaxWaits \in Nat

VARIABLES
  target_type,            \* target_type_, read once by init()
  exec_state,             \* exec_state_
  pc,                     \* "init" while init() waits for the trigger, then "spin"
  waits,                  \* calls of planNextWaypoint that wait for EXEC_TRAJ
  have_odom, have_target, have_trigger, have_recv_pre_agent,
  flag_escape_emergency,  \* not initialised by the code
  enable_fail_safe,
  end_pt,                 \* end_pt_, the goal
  wp_id,                  \* wp_id_
  local_target,           \* local_target_pt_
  local_data,             \* the local trajectory
  age,                    \* how long it has been flown
  told,                   \* the trajectory broadcast to the other drones last
  started,                \* the next drone has been sent its start message
  bspline,                \* the planning/bspline topic, oldest first
  depth_timeout           \* GridMap's flag_depth_odom_timeout_

flags   == <<have_odom, have_trigger, have_recv_pre_agent>>
safety  == <<flag_escape_emergency, enable_fail_safe>>
target  == <<end_pt, have_target, wp_id>>
thread  == <<pc, waits>>
given   == <<target_type, depth_timeout>>
trajs   == <<local_data, age, bspline>>
swarm   == <<told, started>>
egoVars == <<exec_state, thread, flags, safety, target, local_target, trajs, swarm, given>>

FSM_EXEC_STATE ==
  {"INIT", "WAIT_TARGET", "GEN_NEW_TRAJ", "REPLAN_TRAJ", "EXEC_TRAJ",
   "EMERGENCY_STOP", "SEQUENTIAL_START"}

LocalTrajData ==
  [kind : {"none", "plan", "stop"}, goal : Points \cup {Nowhere}, target : Points \cup {Horizon}]

NoTraj == [kind |-> "none", goal |-> Nowhere, target |-> Horizon]
Stop   == [kind |-> "stop", goal |-> Nowhere, target |-> Horizon]
Plan(goal, to) == [kind |-> "plan", goal |-> goal, target |-> to]

(* "aged": flown for longer than thresh_replan_time; "over": less than     *)
(* 10 ms of it are left.                                                   *)
Age == {"young", "aged", "over"}

TypeOK ==
  /\ target_type \in TargetTypes
  /\ exec_state \in FSM_EXEC_STATE
  /\ pc \in {"init", "spin"}
  /\ waits \in 0 .. MaxWaits
  /\ have_odom \in BOOLEAN /\ have_target \in BOOLEAN /\ have_trigger \in BOOLEAN
  /\ have_recv_pre_agent \in BOOLEAN
  /\ flag_escape_emergency \in BOOLEAN /\ enable_fail_safe \in BOOLEAN
  /\ end_pt \in Points \cup {Nowhere}
  /\ wp_id \in 0 .. WaypointNum - 1
  /\ local_target \in Points \cup {Horizon}
  /\ local_data \in LocalTrajData
  /\ age \in Age
  /\ told \in LocalTrajData /\ started \in BOOLEAN
  /\ bspline \in Seq(LocalTrajData) /\ Len(bspline) <= QueueSize
  /\ depth_timeout \in BOOLEAN

EgoInit ==
  /\ target_type \in TargetTypes
  /\ exec_state = "INIT"
  /\ pc = (IF target_type = "PRESET_TARGET" THEN "init" ELSE "spin")
  /\ waits = 0
  /\ have_odom = FALSE /\ have_target = FALSE /\ have_recv_pre_agent = FALSE
  /\ have_trigger = ~Realworld
  /\ flag_escape_emergency \in BOOLEAN
  /\ enable_fail_safe = FailSafe
  /\ end_pt = Nowhere /\ wp_id = 0
  /\ local_target = Horizon
  /\ local_data = NoTraj /\ age = "over"
  /\ told = NoTraj /\ started = FALSE
  /\ bspline = <<>>
  /\ depth_timeout = FALSE

-----------------------------------------------------------------------------
(* What the handlers are made of.                                          *)

(* bspline_pub_.publish: a full queue loses its oldest message.            *)
Publish(t) ==
  bspline' = Append(IF Len(bspline) < QueueSize THEN bspline ELSE Tail(bspline), t)

(* getLocalTarget: the end point, a point at the horizon, or, when the     *)
(* search stops at the very end of the global trajectory, the old one.     *)
LocalTargets == {end_pt, Horizon, local_target}

(* planFromGlobalTraj or planFromCurrentTraj finds a plan: it is the local *)
(* trajectory from now on, and is published to traj_server.                *)
PlanFound ==
  \E to \in LocalTargets :
    /\ local_target' = to
    /\ local_data' = Plan(end_pt, to)
    /\ age' = "young"
    /\ Publish(Plan(end_pt, to))

(* All attempts fail.  The local target was chosen all the same.           *)
NoPlanFound ==
  /\ local_target' \in LocalTargets
  /\ UNCHANGED trajs

(* publishSwarmTrajs, after a plan: the broadcast, and at a sequential     *)
(* start the message for the next drone.                                   *)
TellSwarm(startup) ==
  /\ told' = local_data'
  /\ started' = (startup \/ started)

(* Mutant: a goal that arrives during a flight does not replan.            *)
PlanNextWaypointInFlight(p) ==
  /\ end_pt' = p
  /\ have_target' = TRUE
  /\ \/ /\ exec_state = "WAIT_TARGET"
        /\ exec_state' = "GEN_NEW_TRAJ"
        /\ UNCHANGED waits
     \/ /\ exec_state # "WAIT_TARGET"
        /\ UNCHANGED <<exec_state, waits>>

(* planNextWaypoint(p), whose global plan never fails: it starts at once,  *)
(* replans at once, or waits until the trajectory in planning is flown.    *)
PlanNextWaypoint(p) ==
  /\ end_pt' = p
  /\ have_target' = TRUE
  /\ \/ /\ exec_state = "WAIT_TARGET"
        /\ exec_state' = "GEN_NEW_TRAJ"
        /\ UNCHANGED waits
     \/ /\ exec_state = "EXEC_TRAJ"
        /\ exec_state' = "REPLAN_TRAJ"
        /\ UNCHANGED waits
     \/ /\ exec_state \notin {"WAIT_TARGET", "EXEC_TRAJ"}
        /\ waits < MaxWaits
        /\ waits' = waits + 1
        /\ UNCHANGED exec_state

(* The loop in planNextWaypoint sees EXEC_TRAJ: the innermost call goes on *)
(* and returns; the next one outwards waits for EXEC_TRAJ again.           *)
WaitEnds ==
  /\ waits > 0
  /\ exec_state = "EXEC_TRAJ"
  /\ waits' = waits - 1
  /\ exec_state' = "REPLAN_TRAJ"
  /\ UNCHANGED <<pc, flags, safety, target, local_target, trajs, swarm, given>>

-----------------------------------------------------------------------------
(* execFSMCallback, one action per case and outcome.                       *)

(* While a call waits, the loop sees EXEC_TRAJ after one round of          *)
(* callbacks: the exec timer cannot fire twice in it, so it finds          *)
(* EXEC_TRAJ only when the safety timer has just planned.                  *)
ExecRuns == waits > 0 /\ exec_state = "EXEC_TRAJ" => age = "young"

ExecInit ==
  /\ exec_state = "INIT"
  /\ have_odom
  /\ exec_state' = "WAIT_TARGET"
  /\ UNCHANGED <<thread, flags, safety, target, local_target, trajs, swarm, given>>

ExecWaitTarget ==
  /\ exec_state = "WAIT_TARGET"
  /\ have_target /\ have_trigger
  /\ exec_state' = "SEQUENTIAL_START"
  /\ UNCHANGED <<thread, flags, safety, target, local_target, trajs, swarm, given>>

ExecSequentialStart ==
  /\ exec_state = "SEQUENTIAL_START"
  /\ FirstDrone \/ have_recv_pre_agent
  /\ have_odom /\ have_target /\ have_trigger
  /\ \/ PlanFound /\ exec_state' = "EXEC_TRAJ" /\ TellSwarm(TRUE)
     \/ NoPlanFound /\ UNCHANGED <<exec_state, swarm>>
  /\ UNCHANGED <<thread, flags, safety, target, given>>

ExecGenNewTraj ==
  /\ exec_state = "GEN_NEW_TRAJ"
  /\ \/ /\ PlanFound
        /\ exec_state' = "EXEC_TRAJ"
        /\ flag_escape_emergency' = TRUE
        /\ TellSwarm(FALSE)
     \/ NoPlanFound /\ UNCHANGED <<exec_state, flag_escape_emergency, swarm>>
  /\ UNCHANGED <<thread, flags, enable_fail_safe, target, given>>

ExecReplanTraj ==
  /\ exec_state = "REPLAN_TRAJ"
  /\ \/ PlanFound /\ exec_state' = "EXEC_TRAJ" /\ TellSwarm(FALSE)
     \/ NoPlanFound /\ UNCHANGED <<exec_state, swarm>>
  /\ UNCHANGED <<thread, flags, safety, target, given>>

(* Mutant: the last waypoint but one ends the tour.                        *)
LastWaypointOffByOne == target_type = "PRESET_TARGET" => wp_id >= WaypointNum - 2

LastWaypoint == target_type = "PRESET_TARGET" => wp_id >= WaypointNum - 1

(* EXEC_TRAJ near the waypoint of a tour, closer than no_replan_thresh: on  *)
(* to the next one.                                                        *)
ExecNextWaypoint ==
  /\ exec_state = "EXEC_TRAJ"
  /\ ~LastWaypoint /\ NoReplanThresh
  /\ wp_id' = wp_id + 1
  /\ PlanNextWaypoint(Waypoints[wp_id'])
  /\ UNCHANGED <<pc, flags, safety, local_target, trajs, swarm, given>>

(* EXEC_TRAJ at the end of a trajectory to the goal, the waypoint being    *)
(* the last or none being near enough ever.  A tour is planned again from  *)
(* its first waypoint, and waits for the next trigger.                     *)
ExecArrives ==
  /\ exec_state = "EXEC_TRAJ"
  /\ NoReplanThresh => LastWaypoint
  /\ local_target = end_pt /\ age = "over"
  /\ have_trigger' = FALSE
  /\ exec_state' = "WAIT_TARGET"
  /\ IF target_type = "PRESET_TARGET"
       THEN wp_id' = 0 /\ end_pt' = Waypoints[0] /\ have_target' = TRUE
       ELSE have_target' = FALSE /\ UNCHANGED <<wp_id, end_pt>>
  /\ UNCHANGED <<thread, have_odom, have_recv_pre_agent, safety, local_target, trajs, swarm, given>>

(* EXEC_TRAJ on the way.  The last trajectory is left alone when the goal  *)
(* is near, and when it is over.                                           *)
ExecReplans ==
  /\ exec_state = "EXEC_TRAJ"
  /\ age # "young"
  /\ local_target = end_pt => age = "aged"
  /\ exec_state' = "REPLAN_TRAJ"
  /\ UNCHANGED <<thread, flags, safety, target, local_target, trajs, swarm, given>>

(* Mutant: an emergency trajectory is made and not published.              *)
ExecEmergencyStopSilent ==
  /\ exec_state = "EMERGENCY_STOP"
  /\ flag_escape_emergency
  /\ local_data' = Stop /\ age' = "young" /\ UNCHANGED bspline
  /\ flag_escape_emergency' = FALSE
  /\ UNCHANGED <<exec_state, thread, flags, enable_fail_safe, target, local_target, swarm, given>>

(* Mutant: the escape flag is not reset.                                   *)
ExecEmergencyStopAgain ==
  /\ exec_state = "EMERGENCY_STOP"
  /\ flag_escape_emergency
  /\ local_data' = Stop /\ age' = "young" /\ Publish(Stop)
  /\ UNCHANGED <<exec_state, thread, flags, safety, target, local_target, swarm, given>>

(* EMERGENCY_STOP, the first time: callEmergencyStop.                      *)
ExecEmergencyStop ==
  /\ exec_state = "EMERGENCY_STOP"
  /\ flag_escape_emergency
  /\ local_data' = Stop /\ age' = "young" /\ Publish(Stop)
  /\ flag_escape_emergency' = FALSE
  /\ UNCHANGED <<exec_state, thread, flags, enable_fail_safe, target, local_target, swarm, given>>

(* EMERGENCY_STOP after that: once the vehicle is slow, plan anew.         *)
ExecEscapes ==
  /\ exec_state = "EMERGENCY_STOP"
  /\ ~flag_escape_emergency
  /\ enable_fail_safe
  /\ exec_state' = "GEN_NEW_TRAJ"
  /\ UNCHANGED <<thread, flags, safety, target, local_target, trajs, swarm, given>>

ExecFSM ==
  /\ ExecRuns
  /\ \/ ExecInit \/ ExecWaitTarget \/ ExecSequentialStart \/ ExecGenNewTraj \/ ExecReplanTraj
     \/ ExecNextWaypoint \/ ExecArrives \/ ExecReplans
     \/ ExecEmergencyStop \/ ExecEscapes

-----------------------------------------------------------------------------
(* checkCollisionCallback                                                  *)

(* Not while waiting for a goal, and not before the first trajectory.      *)
SafetyRuns == exec_state # "WAIT_TARGET" /\ local_data.kind # "none"

(* The exec_state and fail-safe flag it goes on with, after the depth test.*)
AfterDepthCheck == IF depth_timeout THEN "EMERGENCY_STOP" ELSE exec_state

DepthCheck == enable_fail_safe' = (enable_fail_safe /\ ~depth_timeout)

(* The trajectory is free.                                                 *)
SafetyClear ==
  /\ SafetyRuns /\ DepthCheck
  /\ exec_state' = AfterDepthCheck
  /\ UNCHANGED <<thread, flags, flag_escape_emergency, target, local_target, trajs, swarm, given>>

(* Mutant: the plan made here is not sent to the other drones.             *)
SafetyReplansSilently ==
  /\ SafetyRuns /\ DepthCheck
  /\ PlanFound
  /\ exec_state' = "EXEC_TRAJ"
  /\ UNCHANGED <<thread, flags, flag_escape_emergency, target, swarm, given>>

(* It is not (the last 10 ms of a trajectory count, so age is no guard),    *)
(* and a new plan is found: fly on, whatever the state was.                *)
SafetyReplans ==
  /\ SafetyRuns /\ DepthCheck
  /\ PlanFound
  /\ exec_state' = "EXEC_TRAJ"
  /\ TellSwarm(FALSE)
  /\ UNCHANGED <<thread, flags, flag_escape_emergency, target, given>>

(* No plan is found: stop if the collision is less than emergency_time     *)
(* away, else leave it to the exec timer.                                  *)
SafetyStops ==
  /\ SafetyRuns /\ DepthCheck
  /\ NoPlanFound
  /\ exec_state' \in {"EMERGENCY_STOP", "REPLAN_TRAJ"}
  /\ UNCHANGED <<thread, flags, flag_escape_emergency, target, swarm, given>>

CheckCollision == SafetyClear \/ SafetyReplans \/ SafetyStops

-----------------------------------------------------------------------------
(* The other callbacks, time and the map.                                  *)

OdometryCallback ==
  /\ have_odom' = TRUE
  /\ UNCHANGED <<exec_state, thread, have_trigger, have_recv_pre_agent, safety, target,
                 local_target, trajs, swarm, given>>

TriggerCallback ==
  /\ target_type = "PRESET_TARGET"
  /\ have_trigger' = TRUE
  /\ UNCHANGED <<exec_state, thread, have_odom, have_recv_pre_agent, safety, target,
                 local_target, trajs, swarm, given>>

WaypointCallback ==
  /\ target_type = "MANUAL_TARGET"
  /\ \E p \in Points : PlanNextWaypoint(p)
  /\ UNCHANGED <<pc, wp_id, flags, safety, local_target, trajs, swarm, given>>

(* init() has its odometry and its trigger and calls readGivenWps.         *)
ReadGivenWps ==
  /\ pc = "init"
  /\ have_odom /\ have_trigger
  /\ pc' = "spin"
  /\ wp_id' = 0
  /\ PlanNextWaypoint(Waypoints[0])
  /\ UNCHANGED <<flags, safety, local_target, trajs, swarm, given>>

(* The drone before this one has started.                                  *)
SwarmTrajsCallback ==
  /\ ~FirstDrone
  /\ have_odom
  /\ have_recv_pre_agent' = TRUE
  /\ UNCHANGED <<exec_state, thread, have_odom, have_trigger, safety, target,
                 local_target, trajs, swarm, given>>

(* Mutant: checkCollision of the manager without its first guard.          *)
BroadcastCollidesUnplanned ==
  /\ exec_state' = "REPLAN_TRAJ"
  /\ UNCHANGED <<thread, flags, safety, target, local_target, trajs, swarm, given>>

(* BroadcastBsplineCallback, when another drone's trajectory crosses the   *)
(* local one: replan, from any state.                                      *)
BroadcastCollides ==
  /\ local_data.kind # "none"
  /\ exec_state' = "REPLAN_TRAJ"
  /\ UNCHANGED <<thread, flags, safety, target, local_target, trajs, swarm, given>>

(* Time passes.  None does between the exec timer's EXEC_TRAJ and the      *)
(* waiting loop that sees it.                                              *)
TrajAges ==
  /\ local_data.kind # "none"
  /\ ~(waits > 0 /\ exec_state = "EXEC_TRAJ")
  /\ \/ age = "young" /\ age' \in {"aged", "over"}
     \/ age = "aged" /\ age' = "over"
  /\ UNCHANGED <<exec_state, thread, flags, safety, target, local_target, local_data, bspline,
                 swarm, given>>

(* GridMap::updateOccupancyCallback misses its depth images.  The flag is  *)
(* never reset.                                                            *)
DepthLost ==
  /\ depth_timeout' = TRUE
  /\ UNCHANGED <<target_type, exec_state, thread, flags, safety, target, local_target, trajs, swarm>>

Callbacks ==
  \/ OdometryCallback \/ TriggerCallback \/ WaypointCallback
  \/ SwarmTrajsCallback \/ BroadcastCollides

EgoNext ==
  \/ ExecFSM \/ CheckCollision \/ Callbacks
  \/ WaitEnds \/ ReadGivenWps \/ TrajAges \/ DepthLost

EgoSpec == EgoInit /\ [][EgoNext]_egoVars

-----------------------------------------------------------------------------
(* Properties                                                              *)

(* Nothing is planned or flown from data that is not there: a plan has a   *)
(* goal, and planFromCurrentTraj, EXEC_TRAJ and the emergency stop start   *)
(* from a trajectory (the code evaluates an empty B-spline otherwise).     *)
PlanInputsExist ==
  /\ exec_state \in {"GEN_NEW_TRAJ", "REPLAN_TRAJ", "EXEC_TRAJ", "EMERGENCY_STOP"} => end_pt # Nowhere
  /\ exec_state \in {"REPLAN_TRAJ", "EXEC_TRAJ", "EMERGENCY_STOP"} => local_data.kind # "none"

(* The trajectory flown in EXEC_TRAJ is a plan, not the emergency stop,    *)
(* and was made for the newest goal, whatever goals arrived while another  *)
(* one was being planned, waited for or flown.                             *)
FliesNewestGoal ==
  exec_state = "EXEC_TRAJ" =>
    /\ local_data.kind = "plan"
    /\ local_data.goal = end_pt
    /\ local_data.target = local_target

(* What the other drones believe this one flies is what it flies: both     *)
(* timers plan, and both must tell them.                                   *)
SwarmKnowsPlan == exec_state = "EXEC_TRAJ" => told = local_data

(* A vehicle that stops is not told to stop again somewhere else: the      *)
(* stop trajectory is not remade from a drifting position every 10 ms.     *)
StopsOnce == local_data.kind = "stop" => ~flag_escape_emergency

(* A goal, or a tour, is given up only when the vehicle has flown to its   *)
(* end: the planner starts waiting for the next one only after a           *)
(* trajectory for the newest goal that ends there, at the last waypoint    *)
(* (of a tour with a positive no_replan_thresh, as every launch file has). *)
GivesUpOnlyOnArrival ==
  [][exec_state \notin {"INIT", "WAIT_TARGET"} /\ exec_state' = "WAIT_TARGET" =>
       /\ age = "over"
       /\ local_data.kind = "plan" /\ local_data.target = end_pt
       /\ target_type = "PRESET_TARGET" /\ NoReplanThresh => end_pt = Waypoints[WaypointNum - 1]]_egoVars

(* "emergency stop!" (ego_replan_fsm.cpp:740): the exec timer's call in    *)
(* EMERGENCY_STOP leaves the vehicle with a stop trajectory.               *)
EmergencyStops ==
  [][exec_state = "EMERGENCY_STOP" /\ ExecFSM => local_data'.kind = "stop" \/ local_data.kind = "stop"]_egoVars

=============================================================================
