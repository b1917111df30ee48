---------------------------- MODULE PlannerProofs ----------------------------
(***************************************************************************)
(* Proofs about the planner.  First EgoPlanning, for every set of goals,   *)
(* every tour, every size of the topic's queue and every depth of nested   *)
(* waits.  Then SwarmStart, for every number of drones and every way their *)
(* streams are cut: the layout of a message, what server_fun reads in each *)
(* piece of it, and from that the invariant of a swarm that takes off.     *)
(***************************************************************************)
EXTENDS EgoPlanning, SwarmStart, SequenceTheorems, WellFoundedInduction, TLAPS

(* A goal that is wanted, or planned for, is there; on a tour it is the    *)
(* waypoint counted by wp_id.                                              *)
GoalKnown ==
  /\ have_target => end_pt # Nowhere
  /\ local_data.kind # "none" => end_pt # Nowhere
  /\ target_type = "PRESET_TARGET" /\ end_pt # Nowhere => end_pt = Waypoints[wp_id]

(* The inductive invariant of the planner.                                 *)
EgoInv ==
  /\ TypeOK
  /\ PlanInputsExist
  /\ FliesNewestGoal
  /\ SwarmKnowsPlan
  /\ StopsOnce
  /\ GoalKnown

(* The inductive invariant of the two nodes.                               *)
IInv == EgoInv /\ PlanningTypeOK /\ ServerFollowsPlanner

-----------------------------------------------------------------------------
(* The topic.                                                              *)

(* What is published is in the topic, last.                                *)
LEMMA PublishLast ==
  ASSUME TypeOK, NEW t \in LocalTrajData, Publish(t)
  PROVE  /\ bspline' \in Seq(LocalTrajData) /\ Len(bspline') <= QueueSize
         /\ bspline' # <<>> /\ bspline'[Len(bspline')] = t
<1> DEFINE q == IF Len(bspline) < QueueSize THEN bspline ELSE Tail(bspline)
<1>1. q \in Seq(LocalTrajData) /\ Len(q) < QueueSize
  BY NodeAssumption DEF TypeOK
<1>2. bspline' = Append(q, t)
  BY DEF Publish
<1>3. bspline' \in Seq(LocalTrajData) /\ Len(bspline') = Len(q) + 1
  BY <1>1, <1>2
<1>4. bspline'[Len(bspline')] = t
  BY <1>1, <1>2
<1>5. Len(bspline') # 0 /\ Len(bspline') <= QueueSize
  BY <1>1, <1>3, NodeAssumption
<1>6. bspline' # <<>>
  BY <1>5, EmptySeq
<1>7. QED
  BY <1>3, <1>4, <1>5, <1>6

(* Taking the oldest message leaves the newest where it is, or takes it.   *)
LEMMA TakeOldest ==
  ASSUME TypeOK, bspline # <<>>, bspline' = Tail(bspline)
  PROVE  /\ bspline' \in Seq(LocalTrajData) /\ Len(bspline') <= QueueSize
         /\ Head(bspline) \in LocalTrajData
         /\ bspline[Len(bspline)] =
              (IF bspline' = <<>> THEN Head(bspline) ELSE bspline'[Len(bspline')])
<1>1. bspline \in Seq(LocalTrajData) /\ Len(bspline) <= QueueSize /\ Len(bspline) \in Nat \ {0}
  BY EmptySeq DEF TypeOK
<1>2. /\ bspline' \in Seq(LocalTrajData) /\ Len(bspline') = Len(bspline) - 1
      /\ Head(bspline) \in LocalTrajData
      /\ \A i \in 1 .. Len(bspline') : bspline'[i] = bspline[i + 1]
  BY <1>1, HeadTailProperties
<1>3. Head(bspline) = bspline[1]
  BY <1>1
<1>4. Len(bspline') <= QueueSize
  BY <1>1, <1>2, NodeAssumption
<1>5. CASE bspline' = <<>>
  <2>1. Len(bspline) = 1
    BY <1>1, <1>2, <1>5, EmptySeq
  <2>2. QED
    BY <1>2, <1>3, <1>4, <1>5, <2>1
<1>6. CASE bspline' # <<>>
  <2>1. Len(bspline') \in Nat \ {0}
    BY <1>2, <1>6, EmptySeq
  <2>2. bspline'[Len(bspline')] = bspline[Len(bspline)]
    BY <1>1, <1>2, <2>1
  <2>3. QED
    BY <1>2, <1>4, <1>6, <2>2
<1>7. QED
  BY <1>5, <1>6

-----------------------------------------------------------------------------
(* Planning.                                                               *)

(* A plan that is found is for the goal, ends at the local target, and is  *)
(* the newest message of the topic.                                        *)
LEMMA FoundPlan ==
  ASSUME TypeOK, end_pt # Nowhere, PlanFound
  PROVE  /\ local_target' \in Points \cup {Horizon}
         /\ local_data' \in LocalTrajData
         /\ local_data'.kind = "plan" /\ local_data'.goal = end_pt
         /\ local_data'.target = local_target'
         /\ age' = "young"
         /\ bspline' \in Seq(LocalTrajData) /\ Len(bspline') <= QueueSize
         /\ bspline' # <<>> /\ bspline'[Len(bspline')] = local_data'
<1>1. PICK to \in LocalTargets :
        /\ local_target' = to
        /\ local_data' = Plan(end_pt, to)
        /\ age' = "young"
        /\ Publish(Plan(end_pt, to))
  BY DEF PlanFound
<1>2. to \in Points \cup {Horizon}
  BY DEF LocalTargets, TypeOK
<1>3. Plan(end_pt, to) \in LocalTrajData
  BY <1>2 DEF TypeOK, Plan, LocalTrajData
<1>4. /\ Plan(end_pt, to).kind = "plan" /\ Plan(end_pt, to).goal = end_pt
      /\ Plan(end_pt, to).target = to
  BY DEF Plan
<1>5. /\ bspline' \in Seq(LocalTrajData) /\ Len(bspline') <= QueueSize
      /\ bspline' # <<>> /\ bspline'[Len(bspline')] = Plan(end_pt, to)
  BY <1>1, <1>3, PublishLast
<1>6. QED
  BY <1>1, <1>2, <1>3, <1>4, <1>5

(* When none is found, only the local target may have changed.             *)
LEMMA FoundNone ==
  ASSUME TypeOK, end_pt # Nowhere, NoPlanFound
  PROVE  local_target' \in Points \cup {Horizon} /\ UNCHANGED trajs
BY DEF NoPlanFound, LocalTargets, TypeOK

(* A new plan, adopted and told to the swarm, keeps the invariant.         *)
LEMMA PlanAdopted ==
  ASSUME EgoInv, end_pt # Nowhere, PlanFound,
         exec_state' = "EXEC_TRAJ", told' = local_data', started' \in BOOLEAN,
         flag_escape_emergency' \in BOOLEAN, enable_fail_safe' \in BOOLEAN,
         UNCHANGED <<thread, flags, target, given>>
  PROVE  EgoInv'
<1>1. /\ local_target' \in Points \cup {Horizon}
      /\ local_data' \in LocalTrajData
      /\ local_data'.kind = "plan" /\ local_data'.goal = end_pt
      /\ local_data'.target = local_target'
      /\ age' = "young"
      /\ bspline' \in Seq(LocalTrajData) /\ Len(bspline') <= QueueSize
  BY FoundPlan DEF EgoInv
<1>2. TypeOK'
  BY <1>1 DEF EgoInv, TypeOK, thread, given, flags, target, FSM_EXEC_STATE, Age
<1>3. PlanInputsExist' /\ FliesNewestGoal' /\ SwarmKnowsPlan' /\ StopsOnce'
  BY <1>1 DEF PlanInputsExist, FliesNewestGoal, SwarmKnowsPlan, StopsOnce, target
<1>4. GoalKnown'
  BY <1>1 DEF EgoInv, GoalKnown, target, given
<1>5. QED
  BY <1>2, <1>3, <1>4 DEF EgoInv

(* So does a failure that does not lead to EXEC_TRAJ.                      *)
LEMMA PlanningFailed ==
  ASSUME EgoInv, end_pt # Nowhere, NoPlanFound,
         exec_state' \in FSM_EXEC_STATE \ {"EXEC_TRAJ"},
         exec_state' \in {"REPLAN_TRAJ", "EMERGENCY_STOP"} => local_data.kind # "none",
         enable_fail_safe' \in BOOLEAN,
         UNCHANGED <<thread, flags, flag_escape_emergency, target, swarm, given>>
  PROVE  EgoInv'
<1>1. local_target' \in Points \cup {Horizon} /\ UNCHANGED trajs
  BY FoundNone DEF EgoInv
<1>2. TypeOK'
  BY <1>1 DEF EgoInv, TypeOK, thread, given, flags, target, swarm, trajs
<1>3. PlanInputsExist' /\ FliesNewestGoal' /\ SwarmKnowsPlan'
  BY <1>1 DEF EgoInv, PlanInputsExist, FliesNewestGoal, SwarmKnowsPlan, target, trajs
<1>4. StopsOnce' /\ GoalKnown'
  BY <1>1 DEF EgoInv, StopsOnce, GoalKnown, target, trajs, given
<1>5. QED
  BY <1>2, <1>3, <1>4 DEF EgoInv

(* So does a change of state alone, to one that finds what it needs.       *)
LEMMA StateChanges ==
  ASSUME EgoInv,
         exec_state' \in FSM_EXEC_STATE,
         exec_state' \in {"GEN_NEW_TRAJ", "REPLAN_TRAJ", "EMERGENCY_STOP"} => end_pt # Nowhere,
         exec_state' \in {"REPLAN_TRAJ", "EMERGENCY_STOP"} => local_data.kind # "none",
         exec_state' = "EXEC_TRAJ" => exec_state = "EXEC_TRAJ",
         enable_fail_safe' \in BOOLEAN, waits' \in 0 .. MaxWaits,
         UNCHANGED <<pc, flags, flag_escape_emergency, target, local_target, trajs, swarm,
                     given>>
  PROVE  EgoInv'
<1>1. TypeOK'
  BY DEF EgoInv, TypeOK, flags, target, swarm, trajs, given
<1>2. PlanInputsExist' /\ FliesNewestGoal' /\ SwarmKnowsPlan'
  BY DEF EgoInv, PlanInputsExist, FliesNewestGoal, SwarmKnowsPlan, target, trajs, swarm
<1>3. StopsOnce' /\ GoalKnown'
  BY DEF EgoInv, StopsOnce, GoalKnown, target, trajs, given
<1>4. QED
  BY <1>1, <1>2, <1>3 DEF EgoInv

(* A new goal never meets EXEC_TRAJ: it changes the state, or waits.       *)
LEMMA GoalSet ==
  ASSUME EgoInv, NEW p \in Points, PlanNextWaypoint(p),
         wp_id' \in 0 .. WaypointNum - 1,
         target_type = "PRESET_TARGET" => p = Waypoints[wp_id'],
         pc' \in {"init", "spin"},
         UNCHANGED <<flags, safety, local_target, trajs, swarm, given>>
  PROVE  EgoInv'
<1>1. /\ end_pt' = p /\ have_target' = TRUE /\ p # Nowhere
      /\ exec_state' \in FSM_EXEC_STATE /\ exec_state' # "EXEC_TRAJ"
      /\ waits' \in 0 .. MaxWaits
  BY NodeAssumption, PointsAssumption DEF PlanNextWaypoint, EgoInv, TypeOK, FSM_EXEC_STATE
<1>2. exec_state' \in {"REPLAN_TRAJ", "EMERGENCY_STOP"} => local_data.kind # "none"
  BY DEF PlanNextWaypoint, EgoInv, PlanInputsExist
<1>3. TypeOK'
  BY <1>1 DEF EgoInv, TypeOK, flags, safety, swarm, trajs, given
<1>4. PlanInputsExist' /\ FliesNewestGoal' /\ SwarmKnowsPlan'
  BY <1>1, <1>2 DEF PlanInputsExist, FliesNewestGoal, SwarmKnowsPlan, trajs
<1>5. StopsOnce' /\ GoalKnown'
  BY <1>1 DEF EgoInv, StopsOnce, GoalKnown, trajs, safety, given
<1>6. QED
  BY <1>3, <1>4, <1>5 DEF EgoInv

-----------------------------------------------------------------------------
(* The steps of the planner.                                               *)

(* The exec timer.                                                         *)
LEMMA ExecKeepsInv == EgoInv /\ ExecFSM => EgoInv'
<1> SUFFICES ASSUME EgoInv, ExecFSM PROVE EgoInv'
  OBVIOUS
<1>1. ASSUME ExecInit PROVE EgoInv'
  BY <1>1, StateChanges DEF ExecInit, EgoInv, TypeOK, FSM_EXEC_STATE, thread, given, safety
<1>2. ASSUME ExecWaitTarget PROVE EgoInv'
  BY <1>2, StateChanges DEF ExecWaitTarget, EgoInv, TypeOK, FSM_EXEC_STATE, thread, given, safety
<1>3. ASSUME ExecSequentialStart PROVE EgoInv'
  <2>1. end_pt # Nowhere
    BY <1>3 DEF ExecSequentialStart, EgoInv, GoalKnown
  <2>2. ASSUME PlanFound, exec_state' = "EXEC_TRAJ", TellSwarm(TRUE) PROVE EgoInv'
    BY <1>3, <2>1, <2>2, PlanAdopted DEF ExecSequentialStart, TellSwarm, EgoInv, TypeOK, safety
  <2>3. ASSUME NoPlanFound, UNCHANGED <<exec_state, swarm>> PROVE EgoInv'
    BY <1>3, <2>1, <2>3, PlanningFailed DEF ExecSequentialStart, EgoInv, TypeOK, safety, FSM_EXEC_STATE
  <2>4. QED
    BY <1>3, <2>2, <2>3 DEF ExecSequentialStart
<1>4. ASSUME ExecGenNewTraj PROVE EgoInv'
  <2>1. end_pt # Nowhere
    BY <1>4 DEF ExecGenNewTraj, EgoInv, PlanInputsExist
  <2>2. ASSUME PlanFound, exec_state' = "EXEC_TRAJ", flag_escape_emergency' = TRUE, TellSwarm(FALSE)
        PROVE  EgoInv'
    BY <1>4, <2>1, <2>2, PlanAdopted DEF ExecGenNewTraj, TellSwarm, EgoInv, TypeOK
  <2>3. ASSUME NoPlanFound, UNCHANGED <<exec_state, flag_escape_emergency, swarm>> PROVE EgoInv'
    BY <1>4, <2>1, <2>3, PlanningFailed DEF ExecGenNewTraj, EgoInv, TypeOK, FSM_EXEC_STATE
  <2>4. QED
    BY <1>4, <2>2, <2>3 DEF ExecGenNewTraj
<1>5. ASSUME ExecReplanTraj PROVE EgoInv'
  <2>1. end_pt # Nowhere /\ local_data.kind # "none"
    BY <1>5 DEF ExecReplanTraj, EgoInv, PlanInputsExist
  <2>2. ASSUME PlanFound, exec_state' = "EXEC_TRAJ", TellSwarm(FALSE) PROVE EgoInv'
    BY <1>5, <2>1, <2>2, PlanAdopted DEF ExecReplanTraj, TellSwarm, EgoInv, TypeOK, safety
  <2>3. ASSUME NoPlanFound, UNCHANGED <<exec_state, swarm>> PROVE EgoInv'
    BY <1>5, <2>1, <2>3, PlanningFailed DEF ExecReplanTraj, EgoInv, TypeOK, safety, FSM_EXEC_STATE
  <2>4. QED
    BY <1>5, <2>2, <2>3 DEF ExecReplanTraj
<1>6. ASSUME ExecNextWaypoint PROVE EgoInv'
  <2>1. wp_id' = wp_id + 1 /\ wp_id' \in 0 .. WaypointNum - 1
    BY <1>6, TargetAssumption DEF ExecNextWaypoint, LastWaypoint, EgoInv, TypeOK
  <2>2. Waypoints[wp_id'] \in Points
    BY <2>1, TargetAssumption
  <2>3. QED
    BY <1>6, <2>1, <2>2, GoalSet DEF ExecNextWaypoint, EgoInv, TypeOK
<1>7. ASSUME ExecArrives PROVE EgoInv'
  <2>1. Waypoints[0] \in Points /\ 0 \in 0 .. WaypointNum - 1 /\ Waypoints[0] # Nowhere
    BY TargetAssumption, PointsAssumption
  <2>2. /\ exec_state' = "WAIT_TARGET"
        /\ UNCHANGED <<thread, have_odom, have_recv_pre_agent, safety, local_target, trajs, swarm, given>>
    BY <1>7 DEF ExecArrives
  <2>3. /\ have_trigger' = FALSE /\ have_target' \in BOOLEAN
        /\ wp_id' \in 0 .. WaypointNum - 1 /\ end_pt' \in Points \cup {Nowhere}
    BY <1>7, <2>1 DEF ExecArrives, EgoInv, TypeOK
  <2>4. TypeOK'
    BY <2>2, <2>3 DEF EgoInv, TypeOK, FSM_EXEC_STATE, thread, given, safety, trajs, swarm
  <2>5. end_pt # Nowhere
    BY <1>7 DEF ExecArrives, EgoInv, PlanInputsExist
  <2>6. GoalKnown'
    BY <1>7, <2>1, <2>2, <2>5, TargetAssumption DEF ExecArrives, EgoInv, GoalKnown, trajs, given
  <2>7. PlanInputsExist' /\ FliesNewestGoal' /\ SwarmKnowsPlan' /\ StopsOnce'
    BY <2>2 DEF EgoInv, PlanInputsExist, FliesNewestGoal, SwarmKnowsPlan, StopsOnce, trajs, safety
  <2>8. QED
    BY <2>4, <2>6, <2>7 DEF EgoInv
<1>8. ASSUME ExecReplans PROVE EgoInv'
  BY <1>8, StateChanges DEF ExecReplans, EgoInv, TypeOK, PlanInputsExist, FSM_EXEC_STATE, thread, given, safety
<1>9. ASSUME ExecEmergencyStop PROVE EgoInv'
  <2>1. /\ exec_state = "EMERGENCY_STOP" /\ local_data' = Stop /\ age' = "young" /\ Publish(Stop)
        /\ flag_escape_emergency' = FALSE
        /\ UNCHANGED <<exec_state, thread, flags, enable_fail_safe, target, local_target, swarm, given>>
    BY <1>9 DEF ExecEmergencyStop
  <2>2. Stop \in LocalTrajData /\ Stop.kind = "stop"
    BY DEF Stop, LocalTrajData
  <2>3. bspline' \in Seq(LocalTrajData) /\ Len(bspline') <= QueueSize
    BY <2>1, <2>2, PublishLast DEF EgoInv
  <2>4. TypeOK'
    BY <2>1, <2>2, <2>3 DEF EgoInv, TypeOK, thread, given, flags, target, swarm, Age
  <2>5. PlanInputsExist' /\ FliesNewestGoal' /\ SwarmKnowsPlan' /\ StopsOnce'
    BY <2>1, <2>2 DEF EgoInv, PlanInputsExist, FliesNewestGoal, SwarmKnowsPlan, StopsOnce, target
  <2>6. GoalKnown'
    BY <2>1, <2>2 DEF EgoInv, PlanInputsExist, GoalKnown, target, given
  <2>7. QED
    BY <2>4, <2>5, <2>6 DEF EgoInv
<1>10. ASSUME ExecEscapes PROVE EgoInv'
  BY <1>10, StateChanges DEF ExecEscapes, EgoInv, TypeOK, PlanInputsExist, FSM_EXEC_STATE, thread, given, safety
<1>11. QED
  BY <1>1, <1>2, <1>3, <1>4, <1>5, <1>6, <1>7, <1>8, <1>9, <1>10 DEF ExecFSM

(* The safety timer.                                                       *)
LEMMA SafetyKeepsInv == EgoInv /\ CheckCollision => EgoInv'
<1> SUFFICES ASSUME EgoInv, CheckCollision PROVE EgoInv'
  OBVIOUS
<1>1. local_data.kind # "none" /\ end_pt # Nowhere /\ enable_fail_safe' \in BOOLEAN
  BY DEF CheckCollision, SafetyClear, SafetyReplans, SafetyStops, SafetyRuns, DepthCheck,
         EgoInv, TypeOK, GoalKnown
<1>2. ASSUME SafetyClear PROVE EgoInv'
  BY <1>1, <1>2, StateChanges DEF SafetyClear, AfterDepthCheck, EgoInv, TypeOK, FSM_EXEC_STATE, thread, given
<1>3. ASSUME SafetyReplans PROVE EgoInv'
  BY <1>1, <1>3, PlanAdopted DEF SafetyReplans, TellSwarm, EgoInv, TypeOK
<1>4. ASSUME SafetyStops PROVE EgoInv'
  BY <1>1, <1>4, PlanningFailed DEF SafetyStops, FSM_EXEC_STATE
<1>5. QED
  BY <1>2, <1>3, <1>4 DEF CheckCollision

(* The flags that callbacks raise are in no part of the invariant but the  *)
(* types.                                                                  *)
LEMMA FlagsKeepInv ==
  ASSUME EgoInv, have_odom' \in BOOLEAN, have_trigger' \in BOOLEAN,
         have_recv_pre_agent' \in BOOLEAN, depth_timeout' \in BOOLEAN, target_type' = target_type, age' \in Age,
         UNCHANGED <<exec_state, thread, safety, target, local_target, local_data, bspline, swarm>>
  PROVE  EgoInv'
<1>1. TypeOK'
  BY DEF EgoInv, TypeOK, thread, given, safety, target, swarm
<1>2. PlanInputsExist' /\ FliesNewestGoal' /\ SwarmKnowsPlan'
  BY DEF EgoInv, PlanInputsExist, FliesNewestGoal, SwarmKnowsPlan, target, swarm
<1>3. StopsOnce' /\ GoalKnown'
  BY DEF EgoInv, StopsOnce, GoalKnown, target, safety
<1>4. QED
  BY <1>1, <1>2, <1>3 DEF EgoInv

(* Every step of the planner.                                              *)
LEMMA EgoKeepsInv == EgoInv /\ EgoNext => EgoInv'
<1> SUFFICES ASSUME EgoInv, EgoNext PROVE EgoInv'
  OBVIOUS
<1>1. ASSUME OdometryCallback PROVE EgoInv'
  BY <1>1, FlagsKeepInv DEF OdometryCallback, EgoInv, TypeOK, trajs, given
<1>2. ASSUME TriggerCallback PROVE EgoInv'
  BY <1>2, FlagsKeepInv DEF TriggerCallback, EgoInv, TypeOK, trajs, given
<1>3. ASSUME WaypointCallback PROVE EgoInv'
  <2>1. PICK p \in Points : PlanNextWaypoint(p)
    BY <1>3 DEF WaypointCallback
  <2>2. QED
    BY <1>3, <2>1, GoalSet DEF WaypointCallback, EgoInv, TypeOK
<1>4. ASSUME SwarmTrajsCallback PROVE EgoInv'
  BY <1>4, FlagsKeepInv DEF SwarmTrajsCallback, EgoInv, TypeOK, trajs, given
<1>5. ASSUME BroadcastCollides PROVE EgoInv'
  BY <1>5, StateChanges DEF BroadcastCollides, EgoInv, TypeOK, GoalKnown, FSM_EXEC_STATE, thread, given, safety
<1>6. ASSUME WaitEnds PROVE EgoInv'
  <2>1. waits' \in 0 .. MaxWaits
    BY <1>6, NodeAssumption DEF WaitEnds, EgoInv, TypeOK
  <2>2. QED
    BY <1>6, <2>1, StateChanges DEF WaitEnds, EgoInv, TypeOK, PlanInputsExist, FSM_EXEC_STATE, safety
<1>7. ASSUME ReadGivenWps PROVE EgoInv'
  <2>1. Waypoints[0] \in Points /\ 0 \in 0 .. WaypointNum - 1
    BY TargetAssumption
  <2>2. QED
    BY <1>7, <2>1, GoalSet DEF ReadGivenWps
<1>8. ASSUME TrajAges PROVE EgoInv'
  BY <1>8, FlagsKeepInv DEF TrajAges, EgoInv, TypeOK, Age, flags, given
<1>9. ASSUME DepthLost PROVE EgoInv'
  BY <1>9, FlagsKeepInv DEF DepthLost, EgoInv, TypeOK, flags, trajs
<1>10. QED
  BY <1>1, <1>2, <1>3, <1>4, <1>5, <1>6, <1>7, <1>8, <1>9, ExecKeepsInv, SafetyKeepsInv
     DEF EgoNext, Callbacks

-----------------------------------------------------------------------------
(* The two nodes.                                                          *)

(* The planner adopts no trajectory that it does not publish: either both  *)
(* stay, or the new one is the newest message.                             *)
LEMMA AdoptedIsPublished ==
  ASSUME EgoInv, EgoNext
  PROVE  \/ UNCHANGED <<local_data, bspline>>
         \/ bspline' # <<>> /\ bspline'[Len(bspline')] = local_data'
<1>1. ASSUME PlanFound, end_pt # Nowhere
      PROVE  bspline' # <<>> /\ bspline'[Len(bspline')] = local_data'
  BY <1>1, FoundPlan DEF EgoInv
<1>2. ASSUME NoPlanFound PROVE UNCHANGED <<local_data, bspline>>
  BY <1>2 DEF NoPlanFound, trajs
<1>3. ASSUME ExecFSM
      PROVE  \/ UNCHANGED <<local_data, bspline>>
             \/ bspline' # <<>> /\ bspline'[Len(bspline')] = local_data'
  <2>1. ASSUME ExecSequentialStart \/ ExecGenNewTraj \/ ExecReplanTraj
        PROVE  end_pt # Nowhere /\ (PlanFound \/ NoPlanFound)
    BY <2>1 DEF ExecSequentialStart, ExecGenNewTraj, ExecReplanTraj, EgoInv, GoalKnown, PlanInputsExist
  <2>2. ASSUME ExecEmergencyStop
        PROVE  bspline' # <<>> /\ bspline'[Len(bspline')] = local_data'
    <3>1. Stop \in LocalTrajData
      BY DEF Stop, LocalTrajData
    <3>2. QED
      BY <2>2, <3>1, PublishLast DEF ExecEmergencyStop, EgoInv
  <2>3. ASSUME \/ ExecInit \/ ExecWaitTarget \/ ExecNextWaypoint \/ ExecArrives
               \/ ExecReplans \/ ExecEscapes
        PROVE  UNCHANGED <<local_data, bspline>>
    BY <2>3 DEF ExecInit, ExecWaitTarget, ExecNextWaypoint, ExecArrives, ExecReplans, ExecEscapes, trajs
  <2>4. QED
    BY <1>1, <1>2, <1>3, <2>1, <2>2, <2>3 DEF ExecFSM
<1>4. ASSUME CheckCollision
      PROVE  \/ UNCHANGED <<local_data, bspline>>
             \/ bspline' # <<>> /\ bspline'[Len(bspline')] = local_data'
  <2>1. end_pt # Nowhere
    BY <1>4 DEF CheckCollision, SafetyClear, SafetyReplans, SafetyStops, SafetyRuns, EgoInv, GoalKnown
  <2>2. QED
    BY <1>1, <1>2, <1>4, <2>1 DEF CheckCollision, SafetyClear, SafetyReplans, SafetyStops, trajs
<1>5. ASSUME Callbacks \/ WaitEnds \/ ReadGivenWps \/ TrajAges \/ DepthLost
      PROVE  UNCHANGED <<local_data, bspline>>
  BY <1>5 DEF Callbacks, OdometryCallback, TriggerCallback, WaypointCallback, SwarmTrajsCallback,
     BroadcastCollides, WaitEnds, ReadGivenWps, TrajAges, DepthLost, trajs
<1>6. QED
  BY <1>3, <1>4, <1>5 DEF EgoNext

LEMMA InitInv == Init => IInv
<1> SUFFICES ASSUME Init PROVE IInv
  OBVIOUS
<1>1. NoTraj \in LocalTrajData /\ NoTraj.kind = "none"
  BY DEF NoTraj, LocalTrajData
<1>2. TypeOK
  <2>1. bspline \in Seq(LocalTrajData) /\ Len(bspline) <= QueueSize
    BY EmptySeq, NodeAssumption DEF Init, EgoInit
  <2>2. have_trigger \in BOOLEAN /\ pc \in {"init", "spin"}
    BY DEF Init, EgoInit
  <2>3. waits \in 0 .. MaxWaits /\ wp_id \in 0 .. WaypointNum - 1
    BY TargetAssumption, NodeAssumption DEF Init, EgoInit
  <2>4. QED
    BY <1>1, <2>1, <2>2, <2>3, NodeAssumption DEF Init, EgoInit, TypeOK, FSM_EXEC_STATE, Age
<1>3. PlanInputsExist /\ FliesNewestGoal /\ SwarmKnowsPlan /\ StopsOnce /\ GoalKnown
  BY <1>1 DEF Init, EgoInit, PlanInputsExist, FliesNewestGoal, SwarmKnowsPlan, StopsOnce, GoalKnown
<1>4. PlanningTypeOK /\ ServerFollowsPlanner
  BY <1>1, <1>2 DEF Init, EgoInit, PlanningTypeOK, ServerFollowsPlanner, TS!ServerInit
<1>5. QED
  BY <1>2, <1>3, <1>4 DEF IInv, EgoInv

LEMMA NextKeepsInv == IInv /\ [Next]_vars => IInv'
<1> SUFFICES ASSUME IInv, [Next]_vars PROVE IInv'
  OBVIOUS
<1>1. ASSUME PlannerStep PROVE IInv'
  <2>1. EgoInv'
    BY <1>1, EgoKeepsInv DEF PlannerStep, IInv
  <2>2. PlanningTypeOK'
    BY <1>1, <2>1 DEF PlannerStep, IInv, EgoInv, PlanningTypeOK
  <2>3. ServerFollowsPlanner'
    BY <1>1, AdoptedIsPublished DEF PlannerStep, IInv, ServerFollowsPlanner
  <2>4. QED
    BY <2>1, <2>2, <2>3 DEF IInv
<1>2. ASSUME ServerStep PROVE IInv'
  <2>1. ASSUME bspline' \in Seq(LocalTrajData), Len(bspline') <= QueueSize PROVE EgoInv'
    <3>1. TypeOK'
      BY <1>2, <2>1 DEF ServerStep, IInv, EgoInv, TypeOK, thread, given, flags, safety, target, swarm
    <3>2. PlanInputsExist' /\ FliesNewestGoal' /\ SwarmKnowsPlan'
      BY <1>2 DEF ServerStep, IInv, EgoInv, PlanInputsExist, FliesNewestGoal, SwarmKnowsPlan, target, swarm
    <3>3. StopsOnce' /\ GoalKnown'
      BY <1>2 DEF ServerStep, IInv, EgoInv, StopsOnce, GoalKnown, target, safety, given
    <3>4. QED
      BY <3>1, <3>2, <3>3 DEF EgoInv
  <2>2. ASSUME TS!BsplineCallback PROVE IInv'
    <3>1. /\ bspline' \in Seq(LocalTrajData) /\ Len(bspline') <= QueueSize
          /\ Head(bspline) \in LocalTrajData
          /\ bspline[Len(bspline)] =
               (IF bspline' = <<>> THEN Head(bspline) ELSE bspline'[Len(bspline')])
      BY <2>2, TakeOldest DEF TS!BsplineCallback, IInv, EgoInv
    <3>2. PlanningTypeOK'
      BY <2>1, <2>2, <3>1 DEF TS!BsplineCallback, IInv, EgoInv, PlanningTypeOK
    <3>3. ServerFollowsPlanner'
      BY <1>2, <2>2, <3>1 DEF ServerStep, TS!BsplineCallback, IInv, ServerFollowsPlanner
    <3>4. QED
      BY <2>1, <3>1, <3>2, <3>3 DEF IInv
  <2>3. ASSUME TS!Finishes \/ TS!CmdCallback PROVE IInv'
    <3>1. UNCHANGED <<bspline, served>> /\ finished' \in BOOLEAN
      BY <2>3 DEF TS!Finishes, TS!CmdCallback, IInv, PlanningTypeOK
    <3>2. position_cmd' \in {"none", "plan", "stop"}
      BY <2>3 DEF TS!Finishes, TS!CmdCallback, IInv, PlanningTypeOK, LocalTrajData
    <3>3. EgoInv'
      BY <2>1, <3>1 DEF IInv, EgoInv, TypeOK
    <3>4. QED
      BY <1>2, <3>1, <3>2, <3>3 DEF ServerStep, IInv, EgoInv, PlanningTypeOK, ServerFollowsPlanner
  <2>4. QED
    BY <1>2, <2>2, <2>3 DEF ServerStep, TS!ServerNext
<1>3. ASSUME UNCHANGED vars PROVE IInv'
  <2>1. TypeOK' /\ PlanInputsExist' /\ FliesNewestGoal'
    BY <1>3 DEF vars, egoVars, thread, given, flags, safety, target, trajs, swarm, IInv, EgoInv, TypeOK,
       PlanInputsExist, FliesNewestGoal
  <2>2. SwarmKnowsPlan' /\ StopsOnce' /\ GoalKnown'
    BY <1>3 DEF given, vars, egoVars, safety, target, trajs, swarm, IInv, EgoInv,
       SwarmKnowsPlan, StopsOnce, GoalKnown
  <2>3. PlanningTypeOK' /\ ServerFollowsPlanner'
    BY <1>3, <2>1 DEF vars, egoVars, trajs, IInv, PlanningTypeOK, ServerFollowsPlanner
  <2>4. QED
    BY <2>1, <2>2, <2>3 DEF IInv, EgoInv
<1>4. QED
  BY <1>1, <1>2, <1>3 DEF Next

LEMMA Invariance == Spec => []IInv
BY InitInv, NextKeepsInv, PTL DEF Spec

-----------------------------------------------------------------------------
(* The theorems.                                                           *)

(* The variables of both nodes keep their types.                           *)
THEOREM PlanningTypeCorrect == Spec => []PlanningTypeOK
<1>1. IInv => PlanningTypeOK
  BY DEF IInv
<1>2. QED
  BY <1>1, Invariance, PTL

(* No plan starts from data that is not there.                             *)
THEOREM PlansFromWhatIsThere == Spec => []PlanInputsExist
<1>1. IInv => PlanInputsExist
  BY DEF IInv, EgoInv
<1>2. QED
  BY <1>1, Invariance, PTL

(* The trajectory flown in EXEC_TRAJ is for the newest goal.               *)
THEOREM AlwaysFliesNewestGoal == Spec => []FliesNewestGoal
<1>1. IInv => FliesNewestGoal
  BY DEF IInv, EgoInv
<1>2. QED
  BY <1>1, Invariance, PTL

(* The other drones know the plan this one flies.                          *)
THEOREM SwarmAlwaysKnowsPlan == Spec => []SwarmKnowsPlan
<1>1. IInv => SwarmKnowsPlan
  BY DEF IInv, EgoInv
<1>2. QED
  BY <1>1, Invariance, PTL

(* A stop trajectory is not remade while it is flown.                      *)
THEOREM StopsOnlyOnce == Spec => []StopsOnce
<1>1. IInv => StopsOnce
  BY DEF IInv, EgoInv
<1>2. QED
  BY <1>1, Invariance, PTL

(* traj_server follows the planner, whatever the topic delays or loses.    *)
THEOREM ServerAlwaysFollows == Spec => []ServerFollowsPlanner
<1>1. IInv => ServerFollowsPlanner
  BY DEF IInv
<1>2. QED
  BY <1>1, Invariance, PTL

(* A goal or a tour is given up only on arrival.                           *)
THEOREM GoalsAreKept == Spec => GivesUpOnlyOnArrival
<1> DEFINE Kept ==
      exec_state \notin {"INIT", "WAIT_TARGET"} /\ exec_state' = "WAIT_TARGET" =>
        /\ age = "over"
        /\ local_data.kind = "plan" /\ local_data.target = end_pt
        /\ target_type = "PRESET_TARGET" /\ NoReplanThresh => end_pt = Waypoints[WaypointNum - 1]
<1>1. ASSUME IInv, [Next]_vars PROVE [Kept]_egoVars
  <2> SUFFICES ASSUME exec_state \notin {"INIT", "WAIT_TARGET"}, exec_state' = "WAIT_TARGET"
               PROVE  /\ age = "over"
                      /\ local_data.kind = "plan" /\ local_data.target = end_pt
                      /\ target_type = "PRESET_TARGET" /\ NoReplanThresh => end_pt = Waypoints[WaypointNum - 1]
    OBVIOUS
  <2>1. EgoNext
    BY <1>1 DEF Next, PlannerStep, ServerStep, vars, egoVars
  <2>2. ~(Callbacks \/ WaitEnds \/ ReadGivenWps \/ TrajAges \/ DepthLost)
    BY DEF Callbacks, OdometryCallback, TriggerCallback, WaypointCallback, SwarmTrajsCallback,
       BroadcastCollides, WaitEnds, ReadGivenWps, TrajAges, DepthLost, PlanNextWaypoint
  <2>3. ~CheckCollision
    BY DEF CheckCollision, SafetyClear, SafetyReplans, SafetyStops, AfterDepthCheck
  <2>4. ExecArrives
    BY <2>1, <2>2, <2>3 DEF EgoNext, ExecFSM, ExecInit, ExecWaitTarget, ExecSequentialStart,
       ExecGenNewTraj, ExecReplanTraj, ExecNextWaypoint, PlanNextWaypoint, ExecReplans,
       ExecEmergencyStop, ExecEscapes
  <2>5. age = "over" /\ local_data.kind = "plan" /\ local_data.target = end_pt /\ end_pt # Nowhere
    BY <1>1, <2>4 DEF ExecArrives, IInv, EgoInv, FliesNewestGoal, PlanInputsExist
  <2>6. ASSUME target_type = "PRESET_TARGET", NoReplanThresh PROVE end_pt = Waypoints[WaypointNum - 1]
    <3>1. wp_id = WaypointNum - 1
      BY <1>1, <2>4, <2>6, TargetAssumption DEF ExecArrives, LastWaypoint, IInv, EgoInv, TypeOK
    <3>2. QED
      BY <1>1, <2>5, <2>6, <3>1 DEF IInv, EgoInv, GoalKnown
  <2>7. QED
    BY <2>5, <2>6
<1>2. QED
  BY <1>1, Invariance, PTL DEF Spec, GivesUpOnlyOnArrival

-----------------------------------------------------------------------------
(* The start of the swarm: the inductive invariant.                        *)

(* What server_fun can make of a stream: trajectories whose fields are     *)
(* whatever cells they were read from.                                     *)
Bsplines == [drone_id : Int, order : Int, traj_id : Int, knots : Int, pos_pts : Int, yaw_pts : Int]
Messages == [drone_id_from : Int, traj : Seq(Bsplines)]
SlotType == [drone_id : Int, of : Int, traj_id : Int]

(* The one message drone s sends on in its life.                           *)
StartMessage(s) == Message(s, Chain(s + 1))

(* What a read that cuts the message makes of it: the end of the process,  *)
(* or a message swarmTrajsCallback refuses.                                *)
Unfit(m) ==
  \/ m = Abort
  \/ /\ m \in Messages /\ m.drone_id_from >= 0
     /\ Len(m.traj) <= 1
     /\ Len(m.traj) = 1 => m.traj[1].order # 3

AllUnfit(r) == \A i \in 1 .. Len(r) : Unfit(r[i])

(* The parts of SwarmTypeOK.                                               *)
PlannersTyped ==
  /\ start \in [Drones -> {"none", "SEQUENTIAL_START", "GEN_NEW_TRAJ"}]
  /\ odom \in [Drones -> BOOLEAN] /\ flying \in [Drones -> BOOLEAN]
  /\ \A d \in Drones : flying[d] => start[d] # "none"
  /\ recv_pre \in [Drones -> BOOLEAN] /\ version \in [Drones -> 0 .. MaxVersion]

SocketsTyped ==
  /\ bridge \in [Drones -> {"off", "listening", "up", "dead"}]
  /\ link \in [Drones -> {"none", "failed", "open", "unread", "broken"}]
  /\ server \in [Drones -> {"down", "accepting", "reading", "closed"}]
  /\ source \in [Drones -> Drones \cup {Nobody}] /\ ended \in [Drones -> BOOLEAN]

NetworkTyped ==
  /\ air \subseteq [to : Drones, of : Drones, traj_id : 1 .. MaxVersion]
  /\ lost \subseteq Drones /\ crashes \in 0 .. MaxCrashes

Lengths ==
  \A d \in Drones :
    /\ Len(multi[d].traj) <= N /\ Len(slots[d]) <= N /\ Len(backlog[d]) <= Backlog + 1
    /\ Len(outbox[d]) <= 1 /\ Len(wire[d]) <= 1 /\ Len(parsed[d]) <= MaxReads

(* What is queued, sent and made, and what a planner keeps.               *)
BuffersOK ==
  /\ multi \in [Drones -> Messages] /\ slots \in [Drones -> Seq(SlotType)]
  /\ outbox \in [Drones -> Seq(Messages)] /\ wire \in [Drones -> Seq(Messages)]
  /\ parsed \in [Drones -> Seq(Messages)] /\ backlog \in [Drones -> Seq(Drones \cup {Nobody})]

(* A server reads only while its bridge lives, and only from the bridge    *)
(* whose next drone it is.                                                 *)
ServersRead ==
  \A d \in Drones :
    /\ server[d] \in {"accepting", "reading"} => bridge[d] \in {"listening", "up"}
    /\ parsed[d] # <<>> => server[d] = "reading" /\ source[d] # Nobody
    /\ source[d] # Nobody => NextDrone(source[d]) = d
    /\ \A i \in DOMAIN backlog[d] : backlog[d][i] # Nobody => NextDrone(backlog[d][i]) = d

(* A drone sends its start message once, in its turn, and it is in one     *)
(* place at a time.                                                        *)
SentOnce ==
  \A s \in Drones :
    /\ outbox[s] # <<>> => in_turn[s] /\ outbox[s] = <<StartMessage(s)>>
    /\ wire[s] # <<>> => in_turn[s] /\ wire[s] = <<StartMessage(s)>>
    /\ outbox[s] = <<>> \/ wire[s] = <<>>

(* What is made of it is the message, or nothing a planner accepts.        *)
MadeOfIt ==
  \A d \in Drones : parsed[d] # <<>> =>
    /\ in_turn[source[d]] /\ outbox[source[d]] = <<>> /\ wire[source[d]] = <<>>
    /\ parsed[d] = <<StartMessage(source[d])>> \/ AllUnfit(parsed[d])

(* A drone that has not taken its turn, and may, holds the message of the *)
(* drone before it, and no other is on its way.                            *)
HoldsTheChain ==
  \A d \in Drones : ~in_turn[d] =>
    /\ d = 0 => multi[d] = Message(0, <<>>)
    /\ d > 0 /\ recv_pre[d] => /\ multi[d] = StartMessage(d - 1)
                               /\ in_turn[d - 1] /\ outbox[d - 1] = <<>> /\ wire[d - 1] = <<>>
                               /\ parsed[d] = <<>>

(* A drone has planned when it flies; a datagram carries what was planned. *)
Planned ==
  /\ \A d \in Drones : IF flying[d] THEN version[d] >= 1 ELSE version[d] = 0
  /\ \A p \in air : p.traj_id <= version[p.of]

(* What slots hold, the part of SlotHoldsItsDrone besides the types.       *)
SlotsHeld ==
  \A d \in Drones : \A i \in DOMAIN slots[d] :
    slots[d][i].drone_id # Nobody =>
      /\ slots[d][i].drone_id = i - 1 /\ slots[d][i].of = i - 1
      /\ slots[d][i].traj_id \in 1 .. version[i - 1]

SwarmInv ==
  /\ PlannersTyped /\ SocketsTyped /\ NetworkTyped /\ BuffersOK /\ Lengths
  /\ ServersRead /\ SentOnce /\ MadeOfIt /\ HoldsTheChain /\ Planned
  /\ StartsInOrder /\ SlotsHeld
-----------------------------------------------------------------------------
(* Numbers and sequences.                                                  *)

(* A set of naturals that is not empty has a least element.                *)
LEMMA Least ==
  ASSUME NEW T, T \subseteq Nat, T # {}
  PROVE  \E n \in T : \A m \in T : n <= m
<1>1. \E n \in T : \A m \in T : ~(<<m, n>> \in OpToRel(<, Nat))
  BY NatLessThanWellFounded, WFMin
<1>2. PICK n \in T : \A m \in T : ~(<<m, n>> \in OpToRel(<, Nat))
  BY <1>1
<1>3. ASSUME NEW m \in T PROVE n <= m
  <2>1. <<m, n>> \in Nat \X Nat
    BY <1>2
  <2>2. ~(m < n)
    BY <1>2, <2>1 DEF OpToRel
  <2>3. n \in Nat /\ m \in Nat
    OBVIOUS
  <2> QED
    BY <2>2, <2>3
<1> QED
  BY <1>3

(* What is defined one step after another exists.                          *)
Runs(f, k, S, s0, step) ==
  /\ f \in [0 .. k -> S]
  /\ f[0] = s0 /\ \A n \in 1 .. k : f[n] = step[<<f[n - 1], n>>]

LEMMA StepByStep ==
  ASSUME NEW top \in Nat, NEW S, NEW s0 \in S, NEW step \in [S \X (1 .. top) -> S]
  PROVE  \E f : Runs(f, top, S, s0, step)
<1> DEFINE T == {k \in 0 .. top : ~\E f : Runs(f, k, S, s0, step)}
<1>1. T \subseteq Nat
  OBVIOUS
<1>2. ASSUME T # {} PROVE FALSE
  <2>1. PICK k \in T : \A m \in T : k <= m
    BY <1>1, <1>2, Least
  <2>2. k # 0
    <3>1. Runs([n \in 0 .. 0 |-> s0], 0, S, s0, step)
      BY DEF Runs
    <3> QED
      BY <2>1, <3>1
  <2>3. k - 1 \in 0 .. top /\ k \in Nat /\ k \in 1 .. top /\ ~(k <= k - 1)
    BY <1>1, <2>1, <2>2
  <2>4. PICK f : Runs(f, k - 1, S, s0, step)
    BY <2>1, <2>3
  <2> DEFINE g == [n \in 0 .. k |-> IF n = k THEN step[<<f[k - 1], k>>] ELSE f[n]]
  <2>5. f[k - 1] \in S
    BY <2>3, <2>4 DEF Runs
  <2>6. step[<<f[k - 1], k>>] \in S
    BY <2>3, <2>5
  <2>7. \A n \in 0 .. k - 1 : n \in 0 .. k /\ n # k /\ f[n] \in S
    BY <2>3, <2>4 DEF Runs
  <2>8. g \in [0 .. k -> S]
    <3>1. \A n \in 0 .. k : n # k => n \in 0 .. k - 1
      BY <2>3
    <3> QED
      BY <2>6, <2>7, <3>1
  <2>9. \A n \in 0 .. k - 1 : g[n] = f[n]
    BY <2>7
  <2>10. g[k] = step[<<f[k - 1], k>>]
    <3>1. k \in 0 .. k
      BY <2>3
    <3> QED
      BY <3>1
  <2> HIDE DEF g
  <2>11. g[0] = s0
    <3>1. 0 \in 0 .. k - 1
      BY <2>3
    <3> QED
      BY <2>4, <2>9, <3>1 DEF Runs
  <2>12. ASSUME NEW n \in 1 .. k PROVE g[n] = step[<<g[n - 1], n>>]
    <3>1. n - 1 \in 0 .. k - 1
      BY <2>3
    <3>2. g[n - 1] = f[n - 1]
      BY <2>9, <3>1
    <3>3. CASE n = k
      BY <2>10, <3>2, <3>3
    <3>4. CASE n # k
      <4>1. n \in 1 .. k - 1 /\ n \in 0 .. k - 1
        BY <2>3, <3>4
      <4> QED
        BY <2>4, <2>9, <3>2, <4>1 DEF Runs
    <3> QED
      BY <3>3, <3>4
  <2>13. Runs(g, k, S, s0, step)
    BY <2>8, <2>11, <2>12 DEF Runs
  <2> QED
    BY <2>1, <2>13
<1>3. \E f : Runs(f, top, S, s0, step)
  <2>1. top \in 0 .. top
    OBVIOUS
  <2> QED
    BY <1>2, <2>1
<1> QED
  BY <1>3

(* What holds of every element of such a sequence.                         *)
LEMMA Stays ==
  ASSUME NEW top \in Nat, NEW S, NEW h, h[0] \in S,
         \A i \in 1 .. top : h[i - 1] \in S => h[i] \in S
  PROVE  \A i \in 0 .. top : h[i] \in S
<1> DEFINE T == {i \in 0 .. top : h[i] \notin S}
<1>1. T \subseteq Nat
  OBVIOUS
<1>2. ASSUME T # {} PROVE FALSE
  <2>1. PICK i \in T : \A k \in T : i <= k
    BY <1>1, <1>2, Least
  <2>2. i \in 0 .. top /\ h[i] \notin S
    BY <2>1
  <2>3. i # 0
    BY <2>2
  <2>4. i \in 1 .. top /\ i - 1 \in 0 .. top /\ ~(i <= i - 1)
    BY <2>2, <2>3
  <2>5. h[i - 1] \in S
    BY <2>1, <2>4
  <2> QED
    BY <2>2, <2>4, <2>5
<1> QED
  BY <1>2

(* Two cells at the end of a buffer.                                       *)
LEMMA Pair ==
  ASSUME NEW s \in Seq(Int), NEW t \in Seq(Int), Len(t) = 2
  PROVE  /\ s \o t \in Seq(Int) /\ Len(s \o t) = Len(s) + 2
         /\ \A i \in 1 .. Len(s) : (s \o t)[i] = s[i]
         /\ (s \o t)[Len(s) + 1] = t[1] /\ (s \o t)[Len(s) + 2] = t[2]
<1>1. Len(s) \in Nat
  BY LenProperties
<1>2. /\ s \o t \in Seq(Int) /\ Len(s \o t) = Len(s) + Len(t)
      /\ \A i \in 1 .. Len(s) + Len(t) : (s \o t)[i] = IF i <= Len(s) THEN s[i] ELSE t[i - Len(s)]
  BY ConcatProperties, Zenon
<1>3. \A i \in 1 .. Len(s) : (s \o t)[i] = s[i]
  BY <1>1, <1>2
<1>4. (s \o t)[Len(s) + 1] = t[1]
  <2>1. Len(s) + 1 \in 1 .. Len(s) + Len(t) /\ ~(Len(s) + 1 <= Len(s)) /\ Len(s) + 1 - Len(s) = 1
    BY <1>1
  <2> QED
    BY <1>2, <2>1
<1>5. (s \o t)[Len(s) + 2] = t[2]
  <2>1. Len(s) + 2 \in 1 .. Len(s) + Len(t) /\ ~(Len(s) + 2 <= Len(s)) /\ Len(s) + 2 - Len(s) = 2
    BY <1>1
  <2> QED
    BY <1>2, <2>1
<1> QED
  BY <1>2, <1>3, <1>4, <1>5

(* The pieces of a buffer, one after another.                              *)
Joined(f, n, S, ss) ==
  /\ f \in [1 .. n -> Seq(S)]
  /\ f[1] = ss[1] /\ \A i \in 2 .. n : f[i] = f[i - 1] \o ss[i]

LEMMA FlattenJoins ==
  ASSUME NEW S, NEW n \in Nat \ {0}, NEW ss \in [1 .. n -> Seq(S)]
  PROVE  \E f : Joined(f, n, S, ss) /\ FlattenSeq(ss) = f[n]
<1> DEFINE Q == Seq(S)
           top == n - 1
           step == [p \in Q \X (1 .. top) |-> p[1] \o ss[p[2] + 1]]
           Body(h, i) == IF i = 1 THEN ss[i] ELSE h[i - 1] \o ss[i]
           flat == CHOOSE h : h = [i \in 1 .. Len(ss) |-> IF i = 1 THEN ss[i] ELSE h[i - 1] \o ss[i]]
<1>1. top \in Nat /\ 1 \in 1 .. n
  OBVIOUS
<1>2. ss \in Seq(Q) /\ Len(ss) = n /\ Len(ss) # 0
  OBVIOUS
<1>3. \A i \in 1 .. n : ss[i] \in Q
  OBVIOUS
<1>4. ASSUME NEW b \in Q, NEW c \in Q PROVE b \o c \in Q
  BY ConcatProperties
<1>5. step \in [Q \X (1 .. top) -> Q]
  <2>1. ASSUME NEW p \in Q \X (1 .. top) PROVE p[1] \o ss[p[2] + 1] \in Q
    <3>1. p[1] \in Q /\ p[2] \in 1 .. top
      BY <2>1
    <3>2. p[2] + 1 \in 1 .. n
      BY <3>1
    <3>3. ss[p[2] + 1] \in Q
      BY <1>3, <3>2
    <3> HIDE DEF Q
    <3> QED
      BY <1>4, <3>1, <3>3
  <2> HIDE DEF Q, top
  <2> QED
    BY <2>1
<1> HIDE DEF Q
<1>6. \A b \in Q, k \in 1 .. top : step[<<b, k>>] = b \o ss[k + 1]
  OBVIOUS
<1> HIDE DEF step
<1>7. ss[1] \in Q
  BY <1>1, <1>3
<1>8. PICK g : Runs(g, top, Q, ss[1], step)
  BY <1>1, <1>5, <1>7, StepByStep
<1> DEFINE f == [i \in 1 .. n |-> g[i - 1]]
<1>9. \A i \in 1 .. n : f[i] = g[i - 1]
  OBVIOUS
<1>10. ASSUME NEW i \in 1 .. n PROVE f[i] = Body(f, i)
  <2>1. CASE i = 1
    <3>1. f[1] = g[0]
      BY <1>1, <1>9
    <3> QED
      BY <1>8, <2>1, <3>1 DEF Runs
  <2>2. CASE i # 1
    <3>1. i - 1 \in 1 .. n /\ i - 1 \in 1 .. top /\ (i - 1) - 1 \in 0 .. top /\ (i - 1) + 1 = i
      BY <2>2
    <3>2. g[(i - 1) - 1] \in Q
      BY <1>8, <3>1 DEF Runs
    <3>3. g[i - 1] = g[(i - 1) - 1] \o ss[i]
      BY <1>6, <1>8, <3>1, <3>2 DEF Runs
    <3>4. f[i] = g[i - 1] /\ f[i - 1] = g[(i - 1) - 1]
      BY <1>9, <3>1
    <3> QED
      BY <2>2, <3>3, <3>4
  <2> QED
    BY <2>1, <2>2
<1>11. f = [i \in 1 .. n |-> Body(f, i)]
  <2>1. \A i \in 1 .. n : f[i] = Body(f, i)
    BY <1>10
  <2>2. DOMAIN f = 1 .. n /\ f = [i \in DOMAIN f |-> f[i]]
    OBVIOUS
  <2> HIDE DEF f, Body
  <2> QED
    BY <2>1, <2>2
<1>12. flat = [i \in 1 .. Len(ss) |-> Body(flat, i)]
  <2>1. \E h : h = [i \in 1 .. Len(ss) |-> IF i = 1 THEN ss[i] ELSE h[i - 1] \o ss[i]]
    BY <1>2, <1>11, Zenon
  <2> QED
    BY <2>1, Zenon
<1>13. FlattenSeq(ss) = flat[Len(ss)]
  BY <1>2, Zenon DEF FlattenSeq
<1> HIDE DEF flat, f
<1>14. ASSUME NEW i \in 1 .. n PROVE flat[i] = Body(flat, i)
  <2> HIDE DEF Body
  <2> QED
    BY <1>2, <1>12
<1>15. \A i \in 1 .. n : flat[i] \in Q
  <2> DEFINE T == {i \in 1 .. n : flat[i] \notin Q}
  <2>1. T \subseteq Nat
    OBVIOUS
  <2>2. ASSUME T # {} PROVE FALSE
    <3>1. PICK i \in T : \A k \in T : i <= k
      BY <2>1, <2>2, Least
    <3>2. CASE i = 1
      BY <1>7, <1>14, <3>1, <3>2
    <3>3. CASE i # 1
      <4>1. i - 1 \in 1 .. n /\ ~(i <= i - 1)
        BY <3>3
      <4>2. flat[i - 1] \in Q
        BY <3>1, <4>1
      <4> QED
        BY <1>3, <1>4, <1>14, <3>1, <3>3, <4>2
    <3> QED
      BY <3>2, <3>3
  <2> QED
    BY <2>2
<1>16. flat \in [1 .. n -> Q]
  <2>1. DOMAIN flat = 1 .. n /\ flat = [i \in DOMAIN flat |-> flat[i]]
    BY <1>2, <1>12
  <2> QED
    BY <1>15, <2>1
<1>17. Joined(flat, n, S, ss)
  <2>1. flat[1] = ss[1]
    BY <1>1, <1>14
  <2>2. ASSUME NEW i \in 2 .. n PROVE flat[i] = flat[i - 1] \o ss[i]
    <3>1. i \in 1 .. n /\ i # 1
      OBVIOUS
    <3> QED
      BY <1>14, <3>1
  <2> QED
    BY <1>16, <2>1, <2>2 DEF Joined, Q
<1> QED
  BY <1>2, <1>13, <1>17

LEMMA FlattenNone == FlattenSeq(<<>>) = <<>>
  BY Zenon, EmptySeq DEF FlattenSeq

LEMMA RepeatNone == \A s : Repeat(s, 0) = <<>>
<1> SUFFICES ASSUME NEW s PROVE Repeat(s, 0) = <<>>
  OBVIOUS
<1>1. [i \in 1 .. 0 |-> s] = <<>>
  OBVIOUS
<1> QED
  BY <1>1, FlattenNone DEF Repeat

LEMMA RepeatOnce == \A s \in Seq(Int) : Repeat(s, 1) = s
<1> SUFFICES ASSUME NEW s \in Seq(Int) PROVE Repeat(s, 1) = s
  OBVIOUS
<1> DEFINE ss == [i \in 1 .. 1 |-> s]
<1>1. ss \in [1 .. 1 -> Seq(Int)] /\ ss[1] = s
  OBVIOUS
<1>2. 1 \in Nat \ {0}
  OBVIOUS
<1>3. Repeat(s, 1) = FlattenSeq(ss)
  BY DEF Repeat
<1> HIDE DEF ss
<1>4. \E f : Joined(f, 1, Int, ss) /\ FlattenSeq(ss) = f[1]
  BY <1>1, <1>2, FlattenJoins
<1> QED
  BY <1>1, <1>3, <1>4 DEF Joined

-----------------------------------------------------------------------------
(* The stream of a start message.                                          *)

(* The 24 cells of the first trajectory of a drone.                        *)
BlockCell(id, q) ==
  IF q = 1 THEN id
  ELSE IF q = 2 THEN 3
  ELSE IF q \in {3, 4, 11, 12, 17, 18, 22} THEN Large
  ELSE IF q \in {5, 15} THEN 1
  ELSE IF q = 9 THEN 2
  ELSE 0

Begins(s, k, id) == s \in Seq(Int) /\ Len(s) = k /\ \A q \in 1 .. k : s[q] = BlockCell(id, q)

LEMMA BeginsOn ==
  ASSUME NEW id \in Nat, NEW k \in Nat, NEW s, Begins(s, k, id), NEW a \in Int, NEW b \in Int,
         a = BlockCell(id, k + 1), b = BlockCell(id, k + 2)
  PROVE  Begins(s \o <<a, b>>, k + 2, id)
<1> DEFINE p == <<a, b>>
           t == s \o p
<1>1. s \in Seq(Int) /\ Len(s) = k
  BY DEF Begins
<1>2. p \in Seq(Int) /\ Len(p) = 2 /\ p[1] = a /\ p[2] = b
  OBVIOUS
<1> HIDE DEF p
<1>3. /\ t \in Seq(Int) /\ Len(t) = k + 2 /\ \A i \in 1 .. k : t[i] = s[i]
      /\ t[k + 1] = a /\ t[k + 2] = b
  BY <1>1, <1>2, Pair
<1> HIDE DEF t
<1>4. ASSUME NEW q \in 1 .. k + 2 PROVE t[q] = BlockCell(id, q)
  <2>1. q \in 1 .. k \/ q = k + 1 \/ q = k + 2
    OBVIOUS
  <2> QED
    BY <1>3, <2>1 DEF Begins
<1>5. Begins(t, k + 2, id)
  BY <1>3, <1>4 DEF Begins
<1> QED
  BY <1>5 DEF t, p

LEMMA Associates ==
  ASSUME NEW s \in Seq(Int), NEW t \in Seq(Int), NEW u \in Seq(Int)
  PROVE  (s \o t) \o u = s \o (t \o u)
  BY ConcatAssociative

LEMMA Reassociate ==
  ASSUME NEW s \in Seq(Int), NEW a \in Seq(Int), NEW b \in Seq(Int), NEW c \in Seq(Int)
  PROVE  s \o ((a \o b) \o c) = ((s \o a) \o b) \o c /\ (a \o b) \o c \in Seq(Int)
<1> DEFINE ab == a \o b
<1>1. ab \in Seq(Int)
  BY ConcatProperties
<1>2. s \o ab = (s \o a) \o b
  BY Associates
<1> HIDE DEF ab
<1>3. (s \o ab) \o c = s \o (ab \o c)
  BY <1>1, Associates
<1>4. ab \o c \in Seq(Int)
  BY <1>1, ConcatProperties
<1> QED
  BY <1>2, <1>3, <1>4 DEF ab

LEMMA BlockCells ==
  ASSUME NEW id \in Nat PROVE Begins(SerializeBspline(Bspline(id, 1)), 24, id)
<1> DEFINE s1 == <<id, 3>>
           s2 == s1 \o <<Large, Large>>
           s3 == s2 \o <<1, 0>>
           s4 == s3 \o <<0, 0>>
           s5 == s4 \o <<2, 0>>
           s6 == s5 \o <<Large, Large>>
           s7 == s6 \o <<0, 0>>
           s8 == s7 \o <<1, 0>>
           six == <<Large, Large>> \o <<0, 0>> \o <<0, Large>>
           s9 == s8 \o <<Large, Large>>
           s10 == s9 \o <<0, 0>>
           s11 == s10 \o <<0, Large>>
           s12 == s11 \o <<0, 0>>
<1>1. Begins(s1, 2, id)
  <2>1. s1 \in Seq(Int) /\ Len(s1) = 2 /\ s1[1] = id /\ s1[2] = 3
    OBVIOUS
  <2> HIDE DEF s1
  <2> QED
    BY <2>1 DEF Begins, BlockCell
<1>2. Begins(s2, 4, id)
  <2>1. Large \in Int /\ 2 \in Nat /\ Large = BlockCell(id, 2 + 1) /\ Large = BlockCell(id, 2 + 2) /\ 2 + 2 = 4
    BY DEF BlockCell, Large
  <2> HIDE DEF s1
  <2> QED
    BY <1>1, <2>1, BeginsOn
<1>3. Begins(s3, 6, id)
  <2>1. 4 \in Nat /\ 1 = BlockCell(id, 4 + 1) /\ 0 = BlockCell(id, 4 + 2) /\ 4 + 2 = 6 /\ 1 \in Int /\ 0 \in Int
    BY DEF BlockCell, Large
  <2> HIDE DEF s2
  <2> QED
    BY <1>2, <2>1, BeginsOn
<1>4. Begins(s4, 8, id)
  <2>1. 6 \in Nat /\ 0 = BlockCell(id, 6 + 1) /\ 0 = BlockCell(id, 6 + 2) /\ 6 + 2 = 8 /\ 0 \in Int
    BY DEF BlockCell, Large
  <2> HIDE DEF s3
  <2> QED
    BY <1>3, <2>1, BeginsOn
<1>5. Begins(s5, 10, id)
  <2>1. 8 \in Nat /\ 2 = BlockCell(id, 8 + 1) /\ 0 = BlockCell(id, 8 + 2) /\ 8 + 2 = 10 /\ 2 \in Int /\ 0 \in Int
    BY DEF BlockCell, Large
  <2> HIDE DEF s4
  <2> QED
    BY <1>4, <2>1, BeginsOn
<1>6. Begins(s6, 12, id)
  <2>1. Large \in Int /\ 10 \in Nat /\ Large = BlockCell(id, 10 + 1) /\ Large = BlockCell(id, 10 + 2) /\ 10 + 2 = 12
    BY DEF BlockCell, Large
  <2> HIDE DEF s5
  <2> QED
    BY <1>5, <2>1, BeginsOn
<1>7. Begins(s7, 14, id)
  <2>1. 12 \in Nat /\ 0 = BlockCell(id, 12 + 1) /\ 0 = BlockCell(id, 12 + 2) /\ 12 + 2 = 14 /\ 0 \in Int
    BY DEF BlockCell, Large
  <2> HIDE DEF s6
  <2> QED
    BY <1>6, <2>1, BeginsOn
<1>8. Begins(s8, 16, id)
  <2>1. 14 \in Nat /\ 1 = BlockCell(id, 14 + 1) /\ 0 = BlockCell(id, 14 + 2) /\ 14 + 2 = 16 /\ 1 \in Int /\ 0 \in Int
    BY DEF BlockCell, Large
  <2> HIDE DEF s7
  <2> QED
    BY <1>7, <2>1, BeginsOn
<1>9. Begins(s9, 18, id)
  <2>1. Large \in Int /\ 16 \in Nat /\ Large = BlockCell(id, 16 + 1) /\ Large = BlockCell(id, 16 + 2) /\ 16 + 2 = 18
    BY DEF BlockCell, Large
  <2> HIDE DEF s8
  <2> QED
    BY <1>8, <2>1, BeginsOn
<1>10. Begins(s10, 20, id)
  <2>1. 18 \in Nat /\ 0 = BlockCell(id, 18 + 1) /\ 0 = BlockCell(id, 18 + 2) /\ 18 + 2 = 20 /\ 0 \in Int
    BY DEF BlockCell, Large
  <2> HIDE DEF s9
  <2> QED
    BY <1>9, <2>1, BeginsOn
<1>11. Begins(s11, 22, id)
  <2>1. Large \in Int /\ 20 \in Nat /\ 0 = BlockCell(id, 20 + 1) /\ Large = BlockCell(id, 20 + 2) /\ 20 + 2 = 22 /\ 0 \in Int
    BY DEF BlockCell, Large
  <2> HIDE DEF s10
  <2> QED
    BY <1>10, <2>1, BeginsOn
<1>12. Begins(s12, 24, id)
  <2>1. 22 \in Nat /\ 0 = BlockCell(id, 22 + 1) /\ 0 = BlockCell(id, 22 + 2) /\ 22 + 2 = 24 /\ 0 \in Int
    BY DEF BlockCell, Large
  <2> HIDE DEF s11
  <2> QED
    BY <1>11, <2>1, BeginsOn
<1>13. /\ <<Large, Large>> \in Seq(Int) /\ <<0, 0>> \in Seq(Int) /\ <<0, Large>> \in Seq(Int)
  BY DEF Large
<1>14. s8 \in Seq(Int) /\ s12 \in Seq(Int)
  BY <1>8, <1>12 DEF Begins
<1>15. s8 \o six = s11 /\ six \in Seq(Int)
  <2> DEFINE a == <<Large, Large>>
             b == <<0, 0>>
             c == <<0, Large>>
  <2>1. a \in Seq(Int) /\ b \in Seq(Int) /\ c \in Seq(Int)
    BY <1>13
  <2>2. s8 \o six = s8 \o ((a \o b) \o c) /\ s11 = ((s8 \o a) \o b) \o c /\ six = (a \o b) \o c
    OBVIOUS
  <2>3. s8 \in Seq(Int)
    BY <1>8 DEF Begins
  <2> HIDE DEF s8, a, b, c, six, s11
  <2>4. s8 \o ((a \o b) \o c) = ((s8 \o a) \o b) \o c /\ (a \o b) \o c \in Seq(Int)
    BY <2>1, <2>3, Reassociate
  <2> QED
    BY <2>2, <2>4
<1>16. Repeat(six, 1) = six /\ Repeat(<<Large, Large>>, 1) = <<Large, Large>> /\ Repeat(<<Large, Large>>, 0) = <<>>
  <2> HIDE DEF six
  <2> QED
    BY <1>13, <1>15, RepeatOnce, RepeatNone
<1>17. SerializeBspline(Bspline(id, 1)) =
         <<id, 3>> \o <<Large, Large>> \o <<1, 0>> \o <<0, 0>>
           \o <<2, 0>> \o Repeat(<<Large, Large>>, 1) \o <<0, 0>>
           \o <<1, 0>> \o Repeat(six, 1) \o <<0, 0>> \o Repeat(<<Large, Large>>, 0)
  <2>1. 2 - 1 = 1
    OBVIOUS
  <2> QED
    BY <2>1, Zenon DEF SerializeBspline, Bspline, Double, Zero, Round, Size
<1>18. SerializeBspline(Bspline(id, 1)) = s12 \o <<>>
  <2>1. SerializeBspline(Bspline(id, 1)) = s8 \o six \o <<0, 0>> \o <<>>
    BY <1>16, <1>17, Zenon
  <2> QED
    BY <1>15, <2>1, Zenon
<1>19. s12 \o <<>> = s12
  <2> HIDE DEF s12
  <2> QED
    BY <1>14, ConcatEmptySeq
<1> QED
  BY <1>12, <1>18, <1>19, Zenon

(* The trajectories of drones 0 .. i-1.                                    *)
Blocks(s, i) ==
  /\ s \in Seq(Int) /\ Len(s) = 24 * i
  /\ \A j \in 1 .. i, q \in 1 .. 24 : s[24 * (j - 1) + q] = BlockCell(j - 1, q)

(* The stream of the message in which drone d sends n trajectories on.     *)
Carries(cells, d, n) ==
  /\ cells \in Seq(Int) /\ Len(cells) = 4 + 24 * n
  /\ cells[1] = MULTI_TRAJ /\ cells[2] = d /\ cells[3] = n /\ cells[4] = 0
  /\ \A j \in 1 .. n, q \in 1 .. 24 : cells[4 + 24 * (j - 1) + q] = BlockCell(j - 1, q)

LEMMA BlocksOn ==
  ASSUME NEW i \in Nat \ {0}, NEW s, NEW t, Blocks(s, i - 1), Begins(t, 24, i - 1)
  PROVE  Blocks(s \o t, i)
<1>1. /\ s \in Seq(Int) /\ t \in Seq(Int) /\ Len(s) = 24 * (i - 1) /\ Len(t) = 24
  BY DEF Blocks, Begins
<1>2. /\ s \o t \in Seq(Int) /\ Len(s \o t) = Len(s) + Len(t)
      /\ \A k \in 1 .. Len(s) + Len(t) : (s \o t)[k] = IF k <= Len(s) THEN s[k] ELSE t[k - Len(s)]
  BY <1>1, ConcatProperties, Zenon
<1>3. Len(s \o t) = 24 * i
  BY <1>1, <1>2
<1>4. ASSUME NEW j \in 1 .. i, NEW q \in 1 .. 24
      PROVE  (s \o t)[24 * (j - 1) + q] = BlockCell(j - 1, q)
  <2>1. CASE j = i
    <3>1. /\ 24 * (j - 1) + q \in 1 .. Len(s) + Len(t) /\ ~(24 * (j - 1) + q <= Len(s))
          /\ 24 * (j - 1) + q - Len(s) = q
      BY <1>1, <2>1
    <3>2. (s \o t)[24 * (j - 1) + q] = t[q]
      BY <1>2, <3>1
    <3> QED
      BY <2>1, <3>2 DEF Begins
  <2>2. CASE j # i
    <3>1. j \in 1 .. i - 1 /\ 24 * (j - 1) + q \in 1 .. Len(s) + Len(t) /\ 24 * (j - 1) + q <= Len(s)
      BY <1>1, <2>2
    <3>2. (s \o t)[24 * (j - 1) + q] = s[24 * (j - 1) + q]
      BY <1>2, <3>1
    <3> QED
      BY <3>1, <3>2 DEF Blocks
  <2> QED
    BY <2>1, <2>2
<1> QED
  BY <1>2, <1>3, <1>4 DEF Blocks

LEMMA ChainLength == \A n \in Nat : Len(Chain(n)) = n /\ DOMAIN Chain(n) = 1 .. n
<1> SUFFICES ASSUME NEW n \in Nat PROVE Len(Chain(n)) = n /\ DOMAIN Chain(n) = 1 .. n
  OBVIOUS
<1>1. \A i \in 1 .. n : Bspline(i - 1, 1) \in {Bspline(k - 1, 1) : k \in 1 .. n}
  OBVIOUS
<1> QED
  BY DEF Chain

LEMMA BlocksOfChain ==
  ASSUME NEW n \in Nat
  PROVE  Blocks(FlattenSeq([i \in 1 .. n |-> SerializeBspline(Bspline(i - 1, 1))]), n)
<1> DEFINE ss == [i \in 1 .. n |-> SerializeBspline(Bspline(i - 1, 1))]
<1>1. ASSUME NEW i \in 1 .. n PROVE Begins(ss[i], 24, i - 1) /\ ss[i] \in Seq(Int)
  <2>1. i - 1 \in Nat /\ ss[i] = SerializeBspline(Bspline(i - 1, 1))
    OBVIOUS
  <2> QED
    BY <2>1, BlockCells DEF Begins
<1>2. ss \in [1 .. n -> Seq(Int)]
  <2>1. DOMAIN ss = 1 .. n /\ ss = [i \in DOMAIN ss |-> ss[i]]
    OBVIOUS
  <2> HIDE DEF ss
  <2> QED
    BY <1>1, <2>1
<1>3. CASE n = 0
  <2>1. ss = <<>>
    BY <1>3
  <2>2. FlattenSeq(ss) = <<>>
    BY <2>1, FlattenNone
  <2> HIDE DEF ss
  <2>3. <<>> \in Seq(Int) /\ Len(<<>>) = 24 * 0
    OBVIOUS
  <2>4. Blocks(<<>>, 0)
    BY <2>3 DEF Blocks
  <2> QED
    BY <1>3, <2>2, <2>4 DEF ss
<1>4. CASE n # 0
  <2> HIDE DEF ss
  <2>1. n \in Nat \ {0}
    BY <1>4
  <2>2. PICK f : Joined(f, n, Int, ss) /\ FlattenSeq(ss) = f[n]
    BY <1>2, <2>1, FlattenJoins
  <2> DEFINE T == {i \in 1 .. n : ~Blocks(f[i], i)}
  <2>3. T \subseteq Nat
    OBVIOUS
  <2>4. ASSUME T # {} PROVE FALSE
    <3>1. PICK i \in T : \A k \in T : i <= k
      BY <2>3, <2>4, Least
    <3>2. i \in 1 .. n /\ i \in Nat \ {0} /\ Begins(ss[i], 24, i - 1)
      BY <1>1, <3>1
    <3>3. CASE i = 1
      <4>1. f[i] = ss[i] /\ Begins(ss[i], 24, 0)
        BY <2>2, <3>2, <3>3 DEF Joined
      <4>2. ASSUME NEW j \in 1 .. 1, NEW q \in 1 .. 24
            PROVE  f[i][24 * (j - 1) + q] = BlockCell(j - 1, q)
        <5>1. j = 1 /\ 24 * (j - 1) + q = q /\ j - 1 = 0
          OBVIOUS
        <5> QED
          BY <4>1, <5>1 DEF Begins
      <4>3. Blocks(f[i], 1)
        <5>1. f[i] \in Seq(Int) /\ Len(f[i]) = 24 * 1
          BY <4>1 DEF Begins
        <5> QED
          BY <4>2, <5>1 DEF Blocks
      <4> QED
        BY <3>1, <3>3, <4>3
    <3>4. CASE i # 1
      <4>1. i - 1 \in 1 .. n /\ ~(i <= i - 1) /\ i \in 2 .. n
        BY <3>2, <3>4
      <4>2. Blocks(f[i - 1], i - 1)
        BY <3>1, <4>1
      <4>3. f[i] = f[i - 1] \o ss[i]
        BY <2>2, <4>1 DEF Joined
      <4>4. Blocks(f[i - 1] \o ss[i], i)
        BY <3>2, <4>2, BlocksOn
      <4> QED
        BY <3>1, <4>3, <4>4
    <3> QED
      BY <3>3, <3>4
  <2>5. n \in 1 .. n
    BY <2>1
  <2>6. Blocks(f[n], n)
    BY <2>4, <2>5
  <2> QED
    BY <2>2, <2>6 DEF ss
<1> QED
  BY <1>3, <1>4

LEMMA StreamCells ==
  ASSUME NEW d \in Nat, NEW n \in Nat
  PROVE  Carries(SerializeMultiBsplines(Message(d, Chain(n))), d, n)
<1> DEFINE a == <<MULTI_TRAJ, d>>
           b == <<n, 0>>
           body == FlattenSeq([i \in 1 .. n |-> SerializeBspline(Bspline(i - 1, 1))])
           m == Message(d, Chain(n))
           cells == (a \o b) \o body
<1>1. SerializeMultiBsplines(m) = cells
  <2>1. m.drone_id_from = d /\ m.traj = Chain(n)
    BY DEF Message
  <2>2. Len(Chain(n)) = n
    BY ChainLength
  <2>3. \A i \in 1 .. n : Chain(n)[i] = Bspline(i - 1, 1)
    BY DEF Chain
  <2>4. [i \in 1 .. n |-> SerializeBspline(Chain(n)[i])] = [i \in 1 .. n |-> SerializeBspline(Bspline(i - 1, 1))]
    BY <2>3
  <2>5. SerializeMultiBsplines(m) =
          (<<MULTI_TRAJ, m.drone_id_from>> \o Size(Len(m.traj)))
            \o FlattenSeq([i \in 1 .. Len(m.traj) |-> SerializeBspline(m.traj[i])])
    BY Zenon DEF SerializeMultiBsplines
  <2>6. Size(n) = b
    BY DEF Size
  <2> HIDE DEF m
  <2> QED
    BY <2>1, <2>2, <2>4, <2>5, <2>6, Zenon
<1>2. Blocks(body, n)
  BY BlocksOfChain
<1>3. a \in Seq(Int) /\ Len(a) = 2 /\ a[1] = MULTI_TRAJ /\ a[2] = d
  BY DEF MULTI_TRAJ
<1>4. b \in Seq(Int) /\ Len(b) = 2 /\ b[1] = n /\ b[2] = 0
  OBVIOUS
<1>5. body \in Seq(Int) /\ Len(body) = 24 * n
  BY <1>2 DEF Blocks
<1> HIDE DEF a, b, body
<1> DEFINE h == a \o b
<1>6. h \in Seq(Int) /\ Len(h) = 4 /\ h[1] = MULTI_TRAJ /\ h[2] = d /\ h[3] = n /\ h[4] = 0
  <2>1. /\ h \in Seq(Int) /\ Len(h) = 2 + 2 /\ \A i \in 1 .. 2 : h[i] = a[i]
        /\ h[2 + 1] = b[1] /\ h[2 + 2] = b[2]
    BY <1>3, <1>4, Pair
  <2> HIDE DEF h
  <2>2. 2 + 2 = 4 /\ 2 + 1 = 3 /\ 2 \in 1 .. 2 /\ 1 \in 1 .. 2
    OBVIOUS
  <2> QED
    BY <1>3, <1>4, <2>1, <2>2
<1> HIDE DEF h
<1>7. /\ h \o body \in Seq(Int) /\ Len(h \o body) = Len(h) + Len(body)
      /\ \A k \in 1 .. Len(h) + Len(body) : (h \o body)[k] = IF k <= Len(h) THEN h[k] ELSE body[k - Len(h)]
  BY <1>5, <1>6, ConcatProperties, Zenon
<1>8. cells = h \o body
  BY DEF h
<1> HIDE DEF cells
<1>9. Len(cells) = 4 + 24 * n /\ cells[1] = MULTI_TRAJ /\ cells[2] = d /\ cells[3] = n /\ cells[4] = 0
  <2>1. \A k \in 1 .. 4 : k \in 1 .. Len(h) + Len(body) /\ k <= Len(h)
    BY <1>5, <1>6
  <2>2. \A k \in 1 .. 4 : cells[k] = h[k]
    BY <1>7, <1>8, <2>1
  <2> QED
    BY <1>5, <1>6, <1>7, <1>8, <2>2
<1>10. ASSUME NEW j \in 1 .. n, NEW q \in 1 .. 24
       PROVE  cells[4 + 24 * (j - 1) + q] = BlockCell(j - 1, q)
  <2>1. /\ 4 + 24 * (j - 1) + q \in 1 .. Len(h) + Len(body) /\ ~(4 + 24 * (j - 1) + q <= Len(h))
        /\ 4 + 24 * (j - 1) + q - Len(h) = 24 * (j - 1) + q
    BY <1>5, <1>6
  <2>2. cells[4 + 24 * (j - 1) + q] = body[24 * (j - 1) + q]
    BY <1>7, <1>8, <2>1
  <2> QED
    BY <1>2, <2>2 DEF Blocks
<1>11. Carries(cells, d, n)
  BY <1>7, <1>8, <1>9, <1>10 DEF Carries
<1> QED
  BY <1>1, <1>11 DEF m

(* Every cell after the header is in a trajectory.                         *)
LEMMA InABlock ==
  ASSUME NEW n \in Nat, NEW k \in 1 .. 24 * n
  PROVE  \E j \in 1 .. n, q \in 1 .. 24 : k = 24 * (j - 1) + q
<1> DEFINE T == {j \in Nat : k <= 24 * j}
<1>1. T \subseteq Nat /\ n \in T
  OBVIOUS
<1>2. PICK j \in T : \A i \in T : j <= i
  BY <1>1, Least
<1>3. j \in Nat /\ k <= 24 * j /\ j <= n /\ j # 0
  BY <1>1, <1>2
<1>4. j - 1 \in Nat /\ ~(k <= 24 * (j - 1))
  <2>1. j - 1 \in Nat /\ ~(j <= j - 1)
    BY <1>3
  <2> QED
    BY <1>2, <2>1
<1> DEFINE q == k - 24 * (j - 1)
<1>5. j \in 1 .. n /\ q \in 1 .. 24 /\ k = 24 * (j - 1) + q
  BY <1>3, <1>4
<1> QED
  BY <1>5

LEMMA CellsNatural ==
  ASSUME NEW d \in Nat, NEW n \in Nat, NEW cells, Carries(cells, d, n)
  PROVE  cells \in Seq(Nat)
<1>1. cells \in Seq(Int) /\ Len(cells) = 4 + 24 * n
  BY DEF Carries
<1>2. ASSUME NEW i \in 1 .. Len(cells) PROVE cells[i] \in Nat
  <2>1. CASE i <= 4
    <3>1. i = 1 \/ i = 2 \/ i = 3 \/ i = 4
      BY <1>1, <2>1
    <3> QED
      BY <3>1 DEF Carries, MULTI_TRAJ
  <2>2. CASE ~(i <= 4)
    <3>1. i - 4 \in 1 .. 24 * n
      BY <1>1, <2>2
    <3>2. PICK j \in 1 .. n, q \in 1 .. 24 : i - 4 = 24 * (j - 1) + q
      BY <3>1, InABlock
    <3>3. i = 4 + 24 * (j - 1) + q
      BY <1>1, <3>2
    <3>4. cells[i] = BlockCell(j - 1, q)
      BY <3>3 DEF Carries
    <3>5. BlockCell(j - 1, q) \in Nat
      BY DEF BlockCell, Large
    <3> QED
      BY <3>4, <3>5
  <2> QED
    BY <2>1, <2>2
<1> QED
  BY <1>1, <1>2

-----------------------------------------------------------------------------
(* What a buffer is read as.                                               *)

LEMMA CellNatural ==
  ASSUME NEW buf \in Seq(Nat), NEW i \in Nat \ {0}
  PROVE  Cell(buf, i) \in Nat
<1>1. Len(buf) \in Nat /\ \A k \in 1 .. Len(buf) : buf[k] \in Nat
  OBVIOUS
<1> QED
  BY <1>1 DEF Cell

LEMMA SizeIsNatural ==
  ASSUME NEW buf \in Seq(Nat), NEW i \in Nat \ {0}
  PROVE  /\ SizeAt(buf, i) \in Nat \/ SizeAt(buf, i) = Huge
         /\ SizeAt(buf, i) # Huge =>
              Cell(buf, i + 1) = 0 /\ Cell(buf, i) < Large /\ SizeAt(buf, i) = Cell(buf, i)
         /\ Cell(buf, i + 1) = 0 /\ Cell(buf, i) < Large => SizeAt(buf, i) = Cell(buf, i)
<1>1. Cell(buf, i) \in Nat
  BY CellNatural
<1> QED
  BY <1>1 DEF SizeAt, Huge

(* One trajectory, read from the cells at at.                              *)
KnotsAt(buf, at) == SizeAt(buf, at + 8)
PointsAt(buf, at) == SizeAt(buf, at + 10 + 2 * KnotsAt(buf, at))
YawsAt(buf, at) == SizeAt(buf, at + 12 + 2 * KnotsAt(buf, at) + 6 * PointsAt(buf, at))

LEMMA BsplineRead ==
  ASSUME NEW buf, NEW at
  PROVE  DeserializeBspline(buf, at) =
           IF KnotsAt(buf, at) = Huge \/ PointsAt(buf, at) = Huge \/ YawsAt(buf, at) = Huge
             THEN [end |-> Huge]
             ELSE [end  |-> at + 14 + 2 * KnotsAt(buf, at) + 6 * PointsAt(buf, at) + 2 * YawsAt(buf, at),
                   traj |-> [drone_id |-> Cell(buf, at), order |-> Cell(buf, at + 1),
                             traj_id |-> Cell(buf, at + 4), knots |-> KnotsAt(buf, at),
                             pos_pts |-> PointsAt(buf, at), yaw_pts |-> YawsAt(buf, at)]]
  BY Zenon DEF DeserializeBspline, KnotsAt, PointsAt, YawsAt

Progress == [end : {Huge}] \cup [end : {k \in Nat : k >= 5}, traj : Seq(Bsplines)]

LEMMA BsplineReadTyped ==
  ASSUME NEW buf \in Seq(Nat), NEW at \in Nat, at >= 5
  PROVE  \/ DeserializeBspline(buf, at).end = Huge
         \/ /\ DeserializeBspline(buf, at).end \in Nat
            /\ DeserializeBspline(buf, at).end >= at + 14
            /\ DeserializeBspline(buf, at).traj \in Bsplines
            /\ DeserializeBspline(buf, at).traj.order = Cell(buf, at + 1)
<1> DEFINE K == KnotsAt(buf, at)
           P == PointsAt(buf, at)
           Y == YawsAt(buf, at)
           t == [drone_id |-> Cell(buf, at), order |-> Cell(buf, at + 1),
                 traj_id |-> Cell(buf, at + 4), knots |-> K, pos_pts |-> P, yaw_pts |-> Y]
<1>1. CASE K = Huge \/ P = Huge \/ Y = Huge
  <2>1. DeserializeBspline(buf, at) = [end |-> Huge]
    BY <1>1, BsplineRead, Zenon
  <2> QED
    BY <2>1
<1>2. CASE ~(K = Huge \/ P = Huge \/ Y = Huge)
  <2>1. DeserializeBspline(buf, at) = [end |-> at + 14 + 2 * K + 6 * P + 2 * Y, traj |-> t]
    BY <1>2, BsplineRead, Zenon
  <2>2. K \in Nat
    <3>1. at + 8 \in Nat \ {0}
      OBVIOUS
    <3> QED
      BY <1>2, <3>1, SizeIsNatural DEF KnotsAt
  <2> HIDE DEF K
  <2>3. P \in Nat
    <3>1. at + 10 + 2 * K \in Nat \ {0}
      BY <2>2
    <3> QED
      BY <1>2, <3>1, SizeIsNatural DEF PointsAt, K
  <2> HIDE DEF P
  <2>4. Y \in Nat
    <3>1. at + 12 + 2 * K + 6 * P \in Nat \ {0}
      BY <2>2, <2>3
    <3> QED
      BY <1>2, <3>1, SizeIsNatural DEF YawsAt, K, P
  <2> HIDE DEF Y
  <2>5. Cell(buf, at) \in Nat /\ Cell(buf, at + 1) \in Nat /\ Cell(buf, at + 4) \in Nat
    <3>1. at \in Nat \ {0} /\ at + 1 \in Nat \ {0} /\ at + 4 \in Nat \ {0}
      OBVIOUS
    <3> QED
      BY <3>1, CellNatural
  <2>6. t \in Bsplines /\ t.order = Cell(buf, at + 1)
    BY <2>2, <2>3, <2>4, <2>5 DEF Bsplines
  <2> HIDE DEF t
  <2> QED
    BY <2>1, <2>2, <2>3, <2>4, <2>6
<1> QED
  BY <1>1, <1>2

(* One trajectory after another.                                           *)
After(buf, done) ==
  IF done.end = Huge \/ DeserializeBspline(buf, done.end).end = Huge THEN [end |-> Huge]
  ELSE [end |-> DeserializeBspline(buf, done.end).end,
        traj |-> Append(done.traj, DeserializeBspline(buf, done.end).traj)]

LEMMA AfterTyped ==
  ASSUME NEW buf \in Seq(Nat), NEW done \in Progress
  PROVE  After(buf, done) \in Progress
<1> DEFINE next == DeserializeBspline(buf, done.end)
<1>1. CASE done.end = Huge \/ next.end = Huge
  <2>1. After(buf, done) = [end |-> Huge]
    BY <1>1 DEF After
  <2> QED
    BY <2>1 DEF Progress
<1>2. CASE ~(done.end = Huge \/ next.end = Huge)
  <2>1. After(buf, done) = [end |-> next.end, traj |-> Append(done.traj, next.traj)]
    BY <1>2, Zenon DEF After
  <2>2. done.end \in Nat /\ done.end >= 5 /\ done.traj \in Seq(Bsplines)
    BY <1>2 DEF Progress
  <2>3. next.end \in Nat /\ next.end >= done.end + 14 /\ next.traj \in Bsplines
    BY <1>2, <2>2, BsplineReadTyped
  <2> HIDE DEF next
  <2>4. Append(done.traj, next.traj) \in Seq(Bsplines)
    BY <2>2, <2>3, AppendProperties
  <2>5. next.end >= 5
    BY <2>2, <2>3
  <2> QED
    BY <2>1, <2>3, <2>4, <2>5 DEF Progress
<1> QED
  BY <1>1, <1>2

Reads(f, buf, size) ==
  /\ f \in [0 .. size -> Progress]
  /\ f[0] = [end |-> 5, traj |-> <<>>]
  /\ \A i \in 1 .. size : f[i] = After(buf, f[i - 1])

LEMMA MessageRead ==
  ASSUME NEW buf \in Seq(Nat)
  PROVE  \/ SizeAt(buf, 3) = Huge /\ DeserializeMultiBsplines(buf) = [len |-> Huge]
         \/ /\ SizeAt(buf, 3) \in Nat
            /\ \E f : /\ Reads(f, buf, SizeAt(buf, 3))
                      /\ DeserializeMultiBsplines(buf) =
                           IF f[SizeAt(buf, 3)].end = Huge THEN [len |-> Huge]
                           ELSE [len |-> f[SizeAt(buf, 3)].end - 1,
                                 msg |-> Message(Cell(buf, 2), f[SizeAt(buf, 3)].traj)]
<1> DEFINE size == SizeAt(buf, 3)
           First == [end |-> 5, traj |-> <<>>]
           Body(h, i) == IF i = 0 THEN [end |-> 5, traj |-> <<>>] ELSE After(buf, h[i - 1])
           steps == CHOOSE step : step = [i \in 0 .. size |->
                      IF i = 0 THEN [end |-> 5, traj |-> <<>>]
                      ELSE LET done == step[i - 1]
                               next == DeserializeBspline(buf, done.end)
                           IN  IF done.end = Huge \/ next.end = Huge THEN [end |-> Huge]
                               ELSE [end |-> next.end, traj |-> Append(done.traj, next.traj)]]
<1>1. size \in Nat \/ size = Huge
  BY SizeIsNatural
<1>2. CASE size = Huge
  <2>1. DeserializeMultiBsplines(buf) = [len |-> Huge]
    BY <1>2, Zenon DEF DeserializeMultiBsplines
  <2> QED
    BY <1>2, <2>1
<1>3. CASE size # Huge
  <2>1. size \in Nat
    BY <1>1, <1>3
  <2>2. DeserializeMultiBsplines(buf) =
          IF size = Huge \/ steps[size].end = Huge THEN [len |-> Huge]
          ELSE [len |-> steps[size].end - 1, msg |-> Message(Cell(buf, 2), steps[size].traj)]
    BY Zenon DEF DeserializeMultiBsplines
  <2>3. DeserializeMultiBsplines(buf) =
          IF steps[size].end = Huge THEN [len |-> Huge]
          ELSE [len |-> steps[size].end - 1, msg |-> Message(Cell(buf, 2), steps[size].traj)]
    BY <1>3, <2>2, Zenon
  <2>4. steps = CHOOSE step : step = [i \in 0 .. size |-> Body(step, i)]
    BY Zenon DEF After
  <2> HIDE DEF steps, size
  <2> DEFINE step == [p \in Progress \X (1 .. size) |-> After(buf, p[1])]
  <2>5. First \in Progress
    <3>1. <<>> \in Seq(Bsplines)
      OBVIOUS
    <3> QED
      BY <3>1 DEF Progress
  <2>6. step \in [Progress \X (1 .. size) -> Progress]
    <3>1. \A p \in Progress \X (1 .. size) : p[1] \in Progress
      OBVIOUS
    <3>2. \A p \in Progress \X (1 .. size) : After(buf, p[1]) \in Progress
      BY <3>1, AfterTyped
    <3> QED
      BY <3>2, Zenon
  <2>7. \A b \in Progress, k \in 1 .. size : step[<<b, k>>] = After(buf, b)
    OBVIOUS
  <2> HIDE DEF step, First
  <2>8. PICK f : Runs(f, size, Progress, First, step)
    BY <2>1, <2>5, <2>6, StepByStep
  <2>9. ASSUME NEW i \in 0 .. size PROVE f[i] = Body(f, i)
    <3>1. CASE i = 0
      BY <2>8, <3>1 DEF Runs, First
    <3>2. CASE i # 0
      <4>1. i \in 1 .. size /\ i - 1 \in 0 .. size
        BY <2>1, <3>2
      <4>2. f[i - 1] \in Progress
        BY <2>8, <4>1 DEF Runs
      <4>3. f[i] = After(buf, f[i - 1])
        BY <2>7, <2>8, <4>1, <4>2 DEF Runs
      <4> QED
        BY <3>2, <4>3
    <3> QED
      BY <3>1, <3>2
  <2>10. f = [i \in 0 .. size |-> Body(f, i)]
    <3> HIDE DEF Body
    <3> QED
      BY <2>8, <2>9 DEF Runs
  <2>11. steps = [i \in 0 .. size |-> Body(steps, i)]
    <3> HIDE DEF Body
    <3> QED
      BY <2>4, <2>10, Zenon
  <2>12. ASSUME NEW i \in 0 .. size PROVE steps[i] = Body(steps, i)
    <3> HIDE DEF Body
    <3> QED
      BY <2>11
  <2>13. \A i \in 0 .. size : steps[i] \in Progress
    <3> DEFINE T == {i \in 0 .. size : steps[i] \notin Progress}
    <3>1. T \subseteq Nat
      BY <2>1
    <3>2. ASSUME T # {} PROVE FALSE
      <4>1. PICK i \in T : \A k \in T : i <= k
        BY <3>1, <3>2, Least
      <4>2. CASE i = 0
        BY <2>5, <2>12, <4>1, <4>2 DEF First
      <4>3. CASE i # 0
        <5>1. i \in 0 .. size /\ i - 1 \in 0 .. size /\ ~(i <= i - 1)
          BY <2>1, <4>1, <4>3
        <5>2. steps[i - 1] \in Progress
          BY <4>1, <5>1
        <5>3. steps[i] = After(buf, steps[i - 1])
          BY <2>12, <4>3, <5>1
        <5> QED
          BY <4>1, <5>2, <5>3, AfterTyped
      <4> QED
        BY <4>2, <4>3
    <3> QED
      BY <3>2
  <2>14. Reads(steps, buf, size)
    <3>1. steps \in [0 .. size -> Progress]
      <4>1. DOMAIN steps = 0 .. size /\ steps = [i \in DOMAIN steps |-> steps[i]]
        <5> HIDE DEF Body
        <5> QED
          BY <2>11
      <4> QED
        BY <2>13, <4>1
    <3>2. steps[0] = [end |-> 5, traj |-> <<>>]
      <4>1. 0 \in 0 .. size
        BY <2>1
      <4> QED
        BY <2>12, <4>1
    <3>3. ASSUME NEW i \in 1 .. size PROVE steps[i] = After(buf, steps[i - 1])
      <4>1. i \in 0 .. size /\ i # 0
        BY <2>1
      <4> QED
        BY <2>12, <4>1
    <3> QED
      BY <3>1, <3>2, <3>3 DEF Reads
  <2> QED
    BY <2>1, <2>3, <2>14, Zenon DEF size
<1> QED
  BY <1>2, <1>3

(* While it can be read, a message grows by a trajectory of 14 cells or    *)
(* more at a time, and the order of the first is in the sixth cell.        *)
ReadSoFar(f, buf, i) ==
  f[i].end # Huge =>
    /\ f[i].end \in Nat /\ f[i].end >= 5 + 14 * i /\ f[i].traj \in Seq(Bsplines)
    /\ Len(f[i].traj) = i
    /\ i > 0 => f[1].end # Huge /\ f[i].traj[1].order = Cell(buf, 6)

LEMMA ReadsOn ==
  ASSUME NEW buf \in Seq(Nat), NEW size \in Nat, NEW f, Reads(f, buf, size)
  PROVE  \A i \in 0 .. size : ReadSoFar(f, buf, i)
<1> DEFINE T == {i \in 0 .. size : ~ReadSoFar(f, buf, i)}
<1>1. T \subseteq Nat
  OBVIOUS
<1>2. ASSUME T # {} PROVE FALSE
  <2>1. PICK i \in T : \A k \in T : i <= k
    BY <1>1, <1>2, Least
  <2>2. i \in 0 .. size /\ ~ReadSoFar(f, buf, i) /\ f[i] \in Progress
    BY <2>1 DEF Reads
  <2>3. CASE i = 0
    <3>1. f[0].end = 5 /\ f[0].traj = <<>>
      BY DEF Reads
    <3>2. <<>> \in Seq(Bsplines) /\ Len(<<>>) = 0
      OBVIOUS
    <3>3. ReadSoFar(f, buf, 0)
      BY <3>1, <3>2 DEF ReadSoFar
    <3> QED
      BY <2>2, <2>3, <3>3
  <2>4. CASE i # 0
    <3>1. i \in 1 .. size /\ i - 1 \in 0 .. size /\ ~(i <= i - 1)
      BY <2>2, <2>4
    <3>2. ReadSoFar(f, buf, i - 1) /\ f[i - 1] \in Progress
      BY <2>1, <3>1 DEF Reads
    <3>3. f[i] = After(buf, f[i - 1])
      BY <3>1 DEF Reads
    <3> DEFINE done == f[i - 1]
               next == DeserializeBspline(buf, done.end)
    <3>4. CASE done.end = Huge \/ next.end = Huge
      <4>1. f[i] = [end |-> Huge]
        BY <3>3, <3>4, Zenon DEF After
      <4> QED
        BY <2>2, <4>1 DEF ReadSoFar
    <3>5. CASE ~(done.end = Huge \/ next.end = Huge)
      <4>1. f[i] = [end |-> next.end, traj |-> Append(done.traj, next.traj)]
        BY <3>3, <3>5, Zenon DEF After
      <4>2. /\ done.end \in Nat /\ done.end >= 5 + 14 * (i - 1) /\ done.traj \in Seq(Bsplines)
            /\ Len(done.traj) = i - 1
            /\ i - 1 > 0 => f[1].end # Huge /\ done.traj[1].order = Cell(buf, 6)
        BY <3>2, <3>5 DEF ReadSoFar
      <4>3. /\ next.end \in Nat /\ next.end >= done.end + 14 /\ next.traj \in Bsplines
            /\ next.traj.order = Cell(buf, done.end + 1)
        <5>1. done.end >= 5
          BY <3>1, <4>2
        <5> QED
          BY <3>5, <4>2, <5>1, BsplineReadTyped
      <4> DEFINE t == Append(done.traj, next.traj)
      <4>4. f[i].end = next.end /\ f[i].traj = t
        BY <4>1
      <4>5. f[1].end # Huge
        <5>1. CASE i = 1
          BY <3>5, <4>4, <5>1
        <5>2. CASE i # 1
          BY <3>1, <4>2, <5>2
        <5> QED
          BY <5>1, <5>2
      <4>6. i = 1 => done.end = 5
        BY DEF Reads
      <4> HIDE DEF next, done
      <4>7. /\ t \in Seq(Bsplines) /\ Len(t) = Len(done.traj) + 1
            /\ \A k \in 1 .. Len(done.traj) : t[k] = done.traj[k]
            /\ t[Len(done.traj) + 1] = next.traj
        BY <4>2, <4>3, AppendProperties
      <4> HIDE DEF t
      <4>8. t[1].order = Cell(buf, 6)
        <5>1. CASE i = 1
          <6>1. Len(done.traj) + 1 = 1 /\ done.end + 1 = 6
            BY <4>2, <4>6, <5>1
          <6> QED
            BY <4>3, <4>7, <6>1
        <5>2. CASE i # 1
          <6>1. i - 1 > 0 /\ 1 \in 1 .. Len(done.traj)
            BY <3>1, <4>2, <5>2
          <6> QED
            BY <4>2, <4>7, <6>1
        <5> QED
          BY <5>1, <5>2
      <4>9. next.end >= 5 + 14 * i /\ Len(t) = i
        BY <3>1, <4>2, <4>3, <4>7
      <4> QED
        BY <2>2, <4>3, <4>4, <4>5, <4>7, <4>8, <4>9 DEF ReadSoFar
    <3> QED
      BY <3>4, <3>5
  <2> QED
    BY <2>3, <2>4
<1> QED
  BY <1>2

-----------------------------------------------------------------------------
(* What the pieces of a start message are taken for.                       *)

LEMMA UnfitMessage ==
  ASSUME NEW m \in Messages, m.drone_id_from >= 0, Len(m.traj) <= 1,
         Len(m.traj) = 1 => m.traj[1].order # 3
  PROVE  Unfit(m)
  BY Zenon DEF Unfit

(* Two sums that LaterPiece needs: the cells before the end of a reading,  *)
(* and a cell of the block that holds the third cell of a piece.           *)
LEMMA CellsBeforeEnd ==
  ASSUME NEW end \in Nat, NEW size \in Nat, end >= 5 + 14 * size
  PROVE  end - 1 >= 4 + 14 * size
  OBVIOUS

LEMMA SameBlock ==
  ASSUME NEW o \in Nat, NEW q \in Nat, NEW p \in Nat, NEW before \in Int, o + 3 = 4 + before + q
  PROVE  o + 3 - q + p = 4 + before + p
  OBVIOUS

Slice(buf, cells, o, len) == \A j \in 1 .. len : buf[j] = cells[o + j]

(* A piece that does not begin where the message begins.                   *)
LEMMA LaterPiece ==
  ASSUME NEW d \in Nat, NEW n \in Nat, NEW cells, Carries(cells, d, n),
         NEW o \in Nat \ {0}, NEW len \in Nat, o + len <= Len(cells),
         NEW buf \in Seq(Nat), len <= Len(buf), Slice(buf, cells, o, len),
         DeserializeMultiBsplines(buf).len = len
  PROVE  Unfit(DeserializeMultiBsplines(buf).msg)
<1> DEFINE size == SizeAt(buf, 3)
           found == DeserializeMultiBsplines(buf)
<1> SUFFICES Unfit(found.msg)
  OBVIOUS
<1> \A i \in 1 .. len : buf[i] = cells[o + i]
  BY DEF Slice
<1>1. Len(cells) = 4 + 24 * n /\ cells[4] = 0
  BY DEF Carries
<1>2. len # Huge
  BY DEF Huge
<1>3. size \in Nat /\ \E f : Reads(f, buf, size) /\ found = [len |-> f[size].end - 1, msg |-> Message(Cell(buf, 2), f[size].traj)]
                               /\ f[size].end # Huge
  <2>1. ~(found = [len |-> Huge])
    BY <1>2
  <2> HIDE DEF size, found
  <2>2. /\ size \in Nat
        /\ \E f : /\ Reads(f, buf, size)
                  /\ found = IF f[size].end = Huge THEN [len |-> Huge]
                             ELSE [len |-> f[size].end - 1, msg |-> Message(Cell(buf, 2), f[size].traj)]
    BY <2>1, MessageRead, Zenon DEF size, found
  <2>3. PICK f : /\ Reads(f, buf, size)
                 /\ found = IF f[size].end = Huge THEN [len |-> Huge]
                            ELSE [len |-> f[size].end - 1, msg |-> Message(Cell(buf, 2), f[size].traj)]
    BY <2>2
  <2>4. f[size].end # Huge
    BY <2>1, <2>3, Zenon
  <2> QED
    BY <2>2, <2>3, <2>4, Zenon
<1>4. PICK f : Reads(f, buf, size) /\ found = [len |-> f[size].end - 1, msg |-> Message(Cell(buf, 2), f[size].traj)]
                 /\ f[size].end # Huge
  BY <1>3
<1>5. len = f[size].end - 1 /\ found.msg = Message(Cell(buf, 2), f[size].traj)
  BY <1>4
<1>6. \A i \in 0 .. size : ReadSoFar(f, buf, i)
  <2> QED
    BY <1>3, <1>4, ReadsOn
<1> HIDE DEF found, size
<1>7. /\ f[size].end \in Nat /\ f[size].end >= 5 + 14 * size /\ f[size].traj \in Seq(Bsplines)
      /\ Len(f[size].traj) = size
      /\ size > 0 => f[1].end # Huge /\ f[size].traj[1].order = Cell(buf, 6)
  <2>1. size \in 0 .. size
    BY <1>3
  <2> QED
    BY <1>4, <1>6, <2>1 DEF ReadSoFar
<1>8. Cell(buf, 2) \in Nat
  BY CellNatural
<1>9. found.msg \in Messages /\ found.msg.drone_id_from >= 0 /\ found.msg.traj = f[size].traj
  <2> DEFINE msg == Message(Cell(buf, 2), f[size].traj)
  <2>1. msg \in Messages
    BY <1>7, <1>8 DEF Message, Messages
  <2>2. msg.drone_id_from = Cell(buf, 2) /\ msg.traj = f[size].traj
    BY DEF Message
  <2>3. msg.drone_id_from >= 0
    BY <1>8, <2>2
  <2> HIDE DEF msg
  <2> QED
    BY <1>5, <2>1, <2>2, <2>3 DEF msg
<1>10. len >= 4 + 14 * size
  <2>1. f[size].end - 1 >= 4 + 14 * size
    BY <1>3, <1>7, CellsBeforeEnd
  <2> QED
    BY <1>5, <2>1, Zenon
<1>11. ASSUME NEW i \in 1 .. len PROVE Cell(buf, i) = cells[o + i]
  <2>1. i <= Len(buf)
    BY LenProperties
  <2> QED
    BY <2>1 DEF Cell
<1>12. size # Huge /\ size = Cell(buf, 3) /\ Cell(buf, 4) = 0 /\ size < Large
  <2>1. size # Huge
    BY <1>3 DEF Huge
  <2>2. 3 \in Nat \ {0} /\ 3 + 1 = 4
    OBVIOUS
  <2> QED
    BY <2>1, <2>2, SizeIsNatural DEF size
<1>13. CASE size = 0
  <2>1. Len(found.msg.traj) = 0
    BY <1>7, <1>9, <1>13
  <2> QED
    BY <1>9, <2>1, UnfitMessage
<1>14. CASE size # 0
  <2>1. size >= 1 /\ len >= 18 /\ size > 0
    BY <1>3, <1>10, <1>14
  <2>2. cells[o + 3] = size /\ cells[o + 4] = 0 /\ Cell(buf, 6) = cells[o + 6]
    <3>1. 3 \in 1 .. len /\ 4 \in 1 .. len /\ 6 \in 1 .. len
      BY <2>1
    <3> QED
      BY <1>11, <1>12, <3>1
  <2>3. o # 1
    BY <1>1, <1>14, <2>2
  <2>4. o - 1 \in 1 .. 24 * n
    BY <1>1, <2>1, <2>3
  <2>5. PICK j \in 1 .. n, q \in 1 .. 24 : o - 1 = 24 * (j - 1) + q
    BY <2>4, InABlock
  <2>6. o + 3 = 4 + 24 * (j - 1) + q
    BY <2>5
  <2>7. size = BlockCell(j - 1, q)
    <3>1. cells[4 + 24 * (j - 1) + q] = BlockCell(j - 1, q)
      BY DEF Carries
    <3> QED
      BY <2>2, <2>6, <3>1, Zenon
  <2>8. ASSUME NEW p \in 1 .. 24 PROVE cells[o + 3 - q + p] = BlockCell(j - 1, p)
    <3>1. o + 3 - q + p = 4 + 24 * (j - 1) + p
      <4>1. q \in Nat /\ p \in Nat /\ o \in Nat
        OBVIOUS
      <4>2. PICK before \in Int : before = 24 * (j - 1)
        OBVIOUS
      <4>3. o + 3 = 4 + before + q
        BY <2>6, <4>2, Zenon
      <4>4. o + 3 - q + p = 4 + before + p
        BY <4>1, <4>3, SameBlock
      <4> QED
        BY <4>2, <4>4, Zenon
    <3> QED
      BY <3>1 DEF Carries
  <2>9. q \in {1, 2, 5, 9, 15}
    BY <1>12, <1>14, <2>7 DEF BlockCell, Large
  <2>10. CASE q = 1
    <3>1. cells[o + 3 - q + 2] = BlockCell(j - 1, 2) /\ o + 3 - q + 2 = o + 4
      <4>1. cells[o + 3 - q + 2] = BlockCell(j - 1, 2)
        <5>1. 2 \in 1 .. 24
          OBVIOUS
        <5> QED
          BY <2>8, <5>1, Zenon
      <4>2. o + 3 - q + 2 = o + 4
        BY <2>10
      <4> QED
        BY <4>1, <4>2
    <3> QED
      BY <2>2, <3>1 DEF BlockCell
  <2>11. CASE q = 2
    <3>1. cells[o + 3 - q + 3] = BlockCell(j - 1, 3) /\ o + 3 - q + 3 = o + 4
      <4>1. cells[o + 3 - q + 3] = BlockCell(j - 1, 3)
        <5>1. 3 \in 1 .. 24
          OBVIOUS
        <5> QED
          BY <2>8, <5>1, Zenon
      <4>2. o + 3 - q + 3 = o + 4
        BY <2>11
      <4> QED
        BY <4>1, <4>2
    <3> QED
      BY <2>2, <3>1 DEF BlockCell, Large
  <2>12. CASE q = 5
    <3>1. cells[o + 3 - q + 8] = BlockCell(j - 1, 8) /\ o + 3 - q + 8 = o + 6
      <4>1. cells[o + 3 - q + 8] = BlockCell(j - 1, 8)
        <5>1. 8 \in 1 .. 24
          OBVIOUS
        <5> QED
          BY <2>8, <5>1, Zenon
      <4>2. o + 3 - q + 8 = o + 6
        BY <2>12
      <4> QED
        BY <4>1, <4>2
    <3>2. size = 1 /\ BlockCell(j - 1, 8) = 0
      BY <2>7, <2>12 DEF BlockCell
    <3>4. found.msg.traj[1].order = 0
      BY <1>7, <1>9, <2>1, <2>2, <3>1, <3>2
    <3>5. Len(found.msg.traj) = 1
      BY <1>7, <1>9, <3>2
    <3>6. Len(found.msg.traj) <= 1 /\ found.msg.traj[1].order # 3
      BY <3>4, <3>5
    <3> QED
      BY <1>9, <3>6, UnfitMessage
  <2>13. CASE q = 9
    <3>1. size = 2
      BY <2>7, <2>13 DEF BlockCell
    <3>2. len >= 32
      BY <1>10, <3>1
    <3>3. cells[o + 13] = 0 /\ cells[o + 14] = 0 /\ cells[o + 15] = 0 /\ cells[o + 16] = Large
      <4>1. /\ cells[o + 3 - q + 19] = BlockCell(j - 1, 19) /\ cells[o + 3 - q + 20] = BlockCell(j - 1, 20)
            /\ cells[o + 3 - q + 21] = BlockCell(j - 1, 21) /\ cells[o + 3 - q + 22] = BlockCell(j - 1, 22)
        BY <2>8
      <4>2. o + 3 - q + 19 = o + 13 /\ o + 3 - q + 20 = o + 14 /\ o + 3 - q + 21 = o + 15 /\ o + 3 - q + 22 = o + 16
        BY <2>13
      <4> QED
        BY <4>1, <4>2 DEF BlockCell
    <3>4. Cell(buf, 13) = 0 /\ Cell(buf, 14) = 0 /\ Cell(buf, 15) = 0 /\ Cell(buf, 16) = Large
      <4>1. 13 \in 1 .. len /\ 14 \in 1 .. len /\ 15 \in 1 .. len /\ 16 \in 1 .. len
        BY <3>2
      <4> QED
        BY <1>11, <3>3, <4>1
    <3>5. KnotsAt(buf, 5) = 0 /\ PointsAt(buf, 5) = Huge
      <4>1. 5 + 8 = 13 /\ 13 + 1 = 14 /\ 5 + 10 + 2 * 0 = 15 /\ 15 + 1 = 16 /\ 0 < Large /\ Large # 0
        BY DEF Large
      <4>2. KnotsAt(buf, 5) = 0
        BY <3>4, <4>1 DEF KnotsAt, SizeAt
      <4>3. PointsAt(buf, 5) = SizeAt(buf, 15)
        BY <4>1, <4>2 DEF PointsAt
      <4> QED
        BY <3>4, <4>1, <4>2, <4>3 DEF SizeAt
    <3>6. DeserializeBspline(buf, 5).end = Huge
      <4>1. DeserializeBspline(buf, 5) = [end |-> Huge]
        BY <3>5, BsplineRead, Zenon
      <4> QED
        BY <4>1
    <3>7. f[1] = After(buf, f[0]) /\ f[0].end = 5
      <4>1. 1 \in 1 .. size /\ 1 - 1 = 0
        BY <3>1
      <4>2. f[0] = [end |-> 5, traj |-> <<>>] /\ f[1] = After(buf, f[1 - 1])
        BY <1>4, <4>1 DEF Reads
      <4> QED
        BY <4>1, <4>2
    <3>8. f[1] = [end |-> Huge]
      BY <3>6, <3>7, Zenon DEF After
    <3> QED
      BY <1>7, <2>1, <3>8
  <2>14. CASE q = 15
    <3>1. cells[o + 3 - q + 18] = BlockCell(j - 1, 18) /\ o + 3 - q + 18 = o + 6
      <4>1. cells[o + 3 - q + 18] = BlockCell(j - 1, 18)
        <5>1. 18 \in 1 .. 24
          OBVIOUS
        <5> QED
          BY <2>8, <5>1, Zenon
      <4>2. o + 3 - q + 18 = o + 6
        BY <2>14
      <4> QED
        BY <4>1, <4>2
    <3>2. size = 1 /\ BlockCell(j - 1, 18) = Large
      BY <2>7, <2>14 DEF BlockCell
    <3>4. found.msg.traj[1].order = Large
      BY <1>7, <1>9, <2>1, <2>2, <3>1, <3>2
    <3>5. Len(found.msg.traj) = 1
      BY <1>7, <1>9, <3>2
    <3>3. Large # 3
      BY DEF Large
    <3>6. Len(found.msg.traj) <= 1 /\ found.msg.traj[1].order # 3
      BY <3>3, <3>4, <3>5
    <3> QED
      BY <1>9, <3>6, UnfitMessage
  <2> QED
    BY <2>9, <2>10, <2>11, <2>12, <2>13, <2>14
<1> QED
  BY <1>13, <1>14

(* From at on, the buffer is the trajectory of drone id as far as its len  *)
(* cells go.                                                               *)
BlockAt(buf, at, len, id) ==
  \A q \in 1 .. 24 : Cell(buf, at - 1 + q) = IF at - 1 + q <= len THEN BlockCell(id, q) ELSE 0

(* A trajectory of the stream is read whole, or ends beyond what there is. *)
LEMMA BlockRead ==
  ASSUME NEW buf \in Seq(Nat), NEW id \in Nat, NEW at \in Nat, at >= 5, NEW len \in Nat, at <= len + 1,
         BlockAt(buf, at, len, id)
  PROVE  \/ /\ at + 24 > len + 1
            /\ DeserializeBspline(buf, at).end \in Nat /\ DeserializeBspline(buf, at).end > len + 1
         \/ /\ at + 24 <= len + 1
            /\ DeserializeBspline(buf, at) = [end |-> at + 24, traj |-> Bspline(id, 1)]
<1> DEFINE K == KnotsAt(buf, at)
           P == PointsAt(buf, at)
           Y == YawsAt(buf, at)
           r == DeserializeBspline(buf, at)
<1>13. \A q \in 1 .. 24 : Cell(buf, at - 1 + q) = IF at - 1 + q <= len THEN BlockCell(id, q) ELSE 0
  BY DEF BlockAt
<1>1. BlockCell(id, 1) = id /\ BlockCell(id, 2) = 3 /\ BlockCell(id, 5) = 1
  BY DEF BlockCell
<1>2. BlockCell(id, 9) = 2 /\ BlockCell(id, 10) = 0 /\ BlockCell(id, 15) = 1 /\ BlockCell(id, 16) = 0
  BY DEF BlockCell
<1>3. BlockCell(id, 23) = 0 /\ BlockCell(id, 24) = 0
  BY DEF BlockCell
<1>4. /\ at - 1 + 1 = at /\ at - 1 + 2 = at + 1 /\ at - 1 + 5 = at + 4 /\ at - 1 + 9 = at + 8
      /\ at - 1 + 10 = at + 9 /\ at - 1 + 15 = at + 14 /\ at - 1 + 16 = at + 15
      /\ at - 1 + 23 = at + 22 /\ at - 1 + 24 = at + 23
  OBVIOUS
<1>5. /\ Cell(buf, at) = IF at <= len THEN id ELSE 0
      /\ Cell(buf, at + 1) = IF at + 1 <= len THEN 3 ELSE 0
      /\ Cell(buf, at + 4) = IF at + 4 <= len THEN 1 ELSE 0
  BY <1>13, <1>1, <1>4
<1>6. /\ Cell(buf, at + 8) = IF at + 8 <= len THEN 2 ELSE 0
      /\ Cell(buf, at + 9) = 0
      /\ Cell(buf, at + 14) = IF at + 14 <= len THEN 1 ELSE 0
      /\ Cell(buf, at + 15) = 0
  BY <1>13, <1>2, <1>4
<1>7. Cell(buf, at + 22) = 0 /\ Cell(buf, at + 23) = 0
  BY <1>13, <1>3, <1>4
<1>8. ASSUME NEW i \in Nat PROVE i <= len \/ Cell(buf, i) = 0 \/ i < at \/ i > at + 23
  <2>1. CASE ~(i <= len) /\ ~(i < at) /\ ~(i > at + 23)
    <3>1. i - at + 1 \in 1 .. 24 /\ at - 1 + (i - at + 1) = i
      BY <2>1
    <3>2. Cell(buf, at - 1 + (i - at + 1)) = IF at - 1 + (i - at + 1) <= len THEN BlockCell(id, i - at + 1) ELSE 0
      BY <1>13, <3>1
    <3> QED
      BY <2>1, <3>1, <3>2
  <2> QED
    BY <2>1
<1>9. K = IF at + 8 <= len THEN 2 ELSE 0
  BY <1>6 DEF KnotsAt, SizeAt, Large
<1>10. ASSUME K # Huge, P # Huge, Y # Huge
       PROVE  r = [end  |-> at + 14 + 2 * K + 6 * P + 2 * Y,
                   traj |-> [drone_id |-> Cell(buf, at), order |-> Cell(buf, at + 1),
                             traj_id |-> Cell(buf, at + 4), knots |-> K, pos_pts |-> P, yaw_pts |-> Y]]
  BY <1>10, BsplineRead, Zenon
<1> HIDE DEF r, K
<1>11. CASE at + 14 <= len
  <2>1. K = 2
    BY <1>9, <1>11
  <2>2. P = 1
    <3>1. at + 10 + 2 * K = at + 14 /\ at + 14 + 1 = at + 15
      BY <2>1
    <3>2. P = SizeAt(buf, at + 14)
      BY <3>1 DEF PointsAt, K
    <3> QED
      BY <1>6, <1>11, <3>1, <3>2 DEF SizeAt, Large
  <2> HIDE DEF P
  <2>3. Y = 0
    <3>1. at + 12 + 2 * K + 6 * P = at + 22 /\ at + 22 + 1 = at + 23
      BY <2>1, <2>2
    <3>2. Y = SizeAt(buf, at + 22)
      BY <3>1 DEF YawsAt, K, P
    <3> QED
      BY <1>7, <3>1, <3>2 DEF SizeAt, Large
  <2> HIDE DEF Y
  <2>4. at + 14 + 2 * K + 6 * P + 2 * Y = at + 24
    BY <2>1, <2>2, <2>3
  <2>5. Cell(buf, at) = id /\ Cell(buf, at + 1) = 3 /\ Cell(buf, at + 4) = 1
    BY <1>5, <1>11
  <2>6. r = [end |-> at + 24, traj |-> [drone_id |-> id, order |-> 3, traj_id |-> 1, knots |-> 2, pos_pts |-> 1, yaw_pts |-> 0]]
    <3>1. K # Huge /\ P # Huge /\ Y # Huge
      BY <2>1, <2>2, <2>3 DEF Huge
    <3> QED
      BY <1>10, <2>1, <2>2, <2>3, <2>4, <2>5, <3>1
  <2>7. r = [end |-> at + 24, traj |-> Bspline(id, 1)]
    BY <2>6 DEF Bspline
  <2>8. CASE at + 24 <= len + 1
    BY <2>7, <2>8 DEF r
  <2>9. CASE ~(at + 24 <= len + 1)
    <3>1. r.end = at + 24
      BY <2>7
    <3>2. r.end \in Nat /\ r.end > len + 1
      BY <2>9, <3>1
    <3> QED
      BY <2>9, <3>2 DEF r
  <2> QED
    BY <2>8, <2>9
<1>12. CASE ~(at + 14 <= len)
  <2>1. (K = 0 /\ ~(at + 8 <= len)) \/ K = 2
    BY <1>9
  <2>2. P = 0
    <3>1. /\ at + 10 + 2 * K \in Nat /\ at + 10 + 2 * K + 1 \in Nat
          /\ ~(at + 10 + 2 * K < at) /\ ~(at + 10 + 2 * K > at + 23) /\ ~(at + 10 + 2 * K <= len)
          /\ ~(at + 10 + 2 * K + 1 < at) /\ ~(at + 10 + 2 * K + 1 > at + 23) /\ ~(at + 10 + 2 * K + 1 <= len)
      <4>1. CASE K = 0 /\ ~(at + 8 <= len)
        BY <4>1
      <4>2. CASE K = 2
        BY <1>12, <4>2
      <4> QED
        BY <2>1, <4>1, <4>2
    <3>2. Cell(buf, at + 10 + 2 * K) = 0 /\ Cell(buf, at + 10 + 2 * K + 1) = 0
      BY <1>8, <3>1
    <3> QED
      BY <3>2 DEF PointsAt, SizeAt, Large, K
  <2> HIDE DEF P
  <2>3. Y = 0
    <3>1. /\ at + 12 + 2 * K + 6 * P \in Nat /\ at + 12 + 2 * K + 6 * P + 1 \in Nat
          /\ ~(at + 12 + 2 * K + 6 * P < at) /\ ~(at + 12 + 2 * K + 6 * P > at + 23)
          /\ ~(at + 12 + 2 * K + 6 * P <= len)
          /\ ~(at + 12 + 2 * K + 6 * P + 1 < at) /\ ~(at + 12 + 2 * K + 6 * P + 1 > at + 23)
          /\ ~(at + 12 + 2 * K + 6 * P + 1 <= len)
      <4>1. CASE K = 0 /\ ~(at + 8 <= len)
        BY <2>2, <4>1
      <4>2. CASE K = 2
        BY <1>12, <2>2, <4>2
      <4> QED
        BY <2>1, <4>1, <4>2
    <3>2. Cell(buf, at + 12 + 2 * K + 6 * P) = 0 /\ Cell(buf, at + 12 + 2 * K + 6 * P + 1) = 0
      BY <1>8, <3>1
    <3> QED
      BY <3>2 DEF YawsAt, SizeAt, Large, K, P
  <2> HIDE DEF Y
  <2>4. r.end = at + 14 + 2 * K
    <3>1. K # Huge /\ P # Huge /\ Y # Huge
      BY <2>1, <2>2, <2>3 DEF Huge
    <3>2. r.end = at + 14 + 2 * K + 6 * P + 2 * Y
      BY <1>10, <3>1
    <3> QED
      BY <2>1, <2>2, <2>3, <3>2
  <2>5. r.end \in Nat /\ r.end > len + 1
    BY <1>9, <1>12, <2>1, <2>4
  <2> QED
    BY <1>12, <2>5 DEF r
<1> QED
  BY <1>11, <1>12

(* The end of trajectory i, or beyond the len cells there are.             *)
Short(p, i, len) ==
  \/ p.end = Huge
  \/ p.end = 5 + 24 * i /\ 5 + 24 * i <= len + 1
  \/ p.end \in Nat /\ p.end > len + 1

LEMMA ShortOn ==
  ASSUME NEW d \in Nat, NEW n \in Nat, NEW cells, Carries(cells, d, n),
         NEW len \in Nat, NEW buf \in Seq(Nat), Len(buf) = len, \A k \in 1 .. len : buf[k] = cells[k],
         NEW i \in 1 .. n, NEW done \in Progress, Short(done, i - 1, len)
  PROVE  Short(After(buf, done), i, len)
<1> DEFINE next == DeserializeBspline(buf, done.end)
<1>1. CASE done.end = Huge \/ next.end = Huge
  <2>1. After(buf, done) = [end |-> Huge]
    BY <1>1, Zenon DEF After
  <2> QED
    BY <2>1 DEF Short
<1>2. CASE ~(done.end = Huge \/ next.end = Huge)
  <2>1. After(buf, done).end = next.end
    <3>1. After(buf, done) = [end |-> next.end, traj |-> Append(done.traj, next.traj)]
      BY <1>2, Zenon DEF After
    <3> HIDE DEF next
    <3> QED
      BY <3>1
  <2>2. done.end \in Nat /\ done.end >= 5
    BY <1>2 DEF Progress
  <2>3. next.end \in Nat /\ next.end >= done.end + 14
    BY <1>2, <2>2, BsplineReadTyped
  <2>4. CASE done.end > len + 1
    <3>1. next.end > len + 1
      BY <2>2, <2>3, <2>4
    <3> HIDE DEF next
    <3> QED
      BY <2>1, <2>3, <3>1 DEF Short
  <2>5. CASE ~(done.end > len + 1)
    <3>7. PICK at \in Nat : at = done.end
      BY <2>2
    <3>8. PICK id \in Nat : id = i - 1
      OBVIOUS
    <3>1. id = i - 1 /\ at = done.end
      BY <3>7, <3>8
    <3>2. at >= 5 /\ at <= len + 1 /\ at = 5 + 24 * id /\ i = id + 1
      BY <1>2, <2>2, <2>5, <3>1 DEF Short
    <3>3. ASSUME NEW q \in 1 .. 24
          PROVE  Cell(buf, at - 1 + q) = IF at - 1 + q <= len THEN BlockCell(id, q) ELSE 0
      <4>1. at - 1 + q = 4 + 24 * (i - 1) + q /\ at - 1 + q \in Nat \ {0}
        BY <3>2
      <4>2. cells[at - 1 + q] = BlockCell(id, q)
        BY <3>1, <4>1 DEF Carries
      <4> QED
        BY <4>1, <4>2 DEF Cell
    <3>4. \/ next.end \in Nat /\ next.end > len + 1
          \/ at + 24 <= len + 1 /\ next = [end |-> at + 24, traj |-> Bspline(id, 1)]
      <4>1. next = DeserializeBspline(buf, at)
        BY <3>1
      <4>2. BlockAt(buf, at, len, id)
        BY <3>3 DEF BlockAt
      <4> HIDE DEF next
      <4> QED
        BY <3>2, <4>1, <4>2, BlockRead
    <3> HIDE DEF next
    <3>5. \/ next.end \in Nat /\ next.end > len + 1
          \/ at + 24 <= len + 1 /\ next.end = at + 24
      BY <3>4
    <3>6. at + 24 = 5 + 24 * i
      BY <3>2
    <3> QED
      BY <2>1, <3>5, <3>6 DEF Short
  <2> QED
    BY <2>4, <2>5
<1> QED
  BY <1>1, <1>2

(* The beginning of the message alone: what it lacks is read as zeros, and *)
(* the message is taken to be longer than what was read.                   *)
LEMMA FirstPiece ==
  ASSUME NEW d \in Nat, NEW n \in Nat, NEW cells, Carries(cells, d, n),
         NEW len \in Nat, len < Len(cells),
         NEW buf \in Seq(Nat), Len(buf) = len, \A i \in 1 .. len : buf[i] = cells[i]
  PROVE  DeserializeMultiBsplines(buf).len # len
<1> DEFINE size == SizeAt(buf, 3)
           found == DeserializeMultiBsplines(buf)
<1> SUFFICES found.len # len
  OBVIOUS
<1>1. Len(cells) = 4 + 24 * n /\ cells[3] = n /\ cells[4] = 0
  BY DEF Carries
<1>2. CASE size = Huge
  <2>1. found = [len |-> Huge]
    <3>1. ~(size \in Nat)
      BY <1>2 DEF Huge
    <3> HIDE DEF size, found
    <3> QED
      BY <3>1, MessageRead, Zenon DEF size, found
  <2> HIDE DEF found
  <2> QED
    BY <2>1 DEF Huge
<1>3. CASE size # Huge
  <2>1. /\ size \in Nat
        /\ \E f : /\ Reads(f, buf, size)
                  /\ found = IF f[size].end = Huge THEN [len |-> Huge]
                             ELSE [len |-> f[size].end - 1, msg |-> Message(Cell(buf, 2), f[size].traj)]
    <3>1. ~(size = Huge)
      BY <1>3
    <3> HIDE DEF size, found
    <3> QED
      BY <3>1, MessageRead, Zenon DEF size, found
  <2>2. PICK f : /\ Reads(f, buf, size)
                 /\ found = IF f[size].end = Huge THEN [len |-> Huge]
                            ELSE [len |-> f[size].end - 1, msg |-> Message(Cell(buf, 2), f[size].traj)]
    BY <2>1
  <2>3. \A i \in Nat \ {0} : Cell(buf, i) = IF i <= len THEN cells[i] ELSE 0
    BY DEF Cell
  <2>4. size = Cell(buf, 3)
    <3>1. 3 \in Nat \ {0}
      OBVIOUS
    <3> QED
      BY <1>3, <3>1, SizeIsNatural
  <2>5. size = IF 3 <= len THEN n ELSE 0
    BY <1>1, <2>3, <2>4
  <2>6. f[0].end = 5
    BY <2>2 DEF Reads
  <2> HIDE DEF found, size
  <2>7. found.len = IF f[size].end = Huge THEN Huge ELSE f[size].end - 1
    <3>1. CASE f[size].end = Huge
      <4>1. found = [len |-> Huge]
        BY <2>2, <3>1, Zenon
      <4> QED
        BY <3>1, <4>1
    <3>2. CASE f[size].end # Huge
      <4>1. found = [len |-> f[size].end - 1, msg |-> Message(Cell(buf, 2), f[size].traj)]
        BY <2>2, <3>2, Zenon
      <4> QED
        BY <3>2, <4>1
    <3> QED
      BY <3>1, <3>2
  <2>8. CASE size = 0
    <3>1. found.len = 4
      BY <2>6, <2>7, <2>8 DEF Huge
    <3>2. len # 4
      BY <1>1, <2>5, <2>8
    <3> QED
      BY <3>1, <3>2
  <2>9. CASE size # 0
    <3>1. size = n /\ 3 <= len /\ n \in Nat \ {0}
      BY <2>5, <2>9
    <3> DEFINE T == {i \in 0 .. n : ~Short(f[i], i, len)}
    <3>2. T \subseteq Nat
      OBVIOUS
    <3>3. ASSUME T # {} PROVE FALSE
      <4>1. PICK i \in T : \A k \in T : i <= k
        BY <3>2, <3>3, Least
      <4>2. i \in 0 .. n /\ ~Short(f[i], i, len)
        BY <4>1
      <4>3. i # 0
        BY <2>6, <3>1, <4>2 DEF Short
      <4>4. i \in 1 .. n /\ i - 1 \in 0 .. n /\ ~(i <= i - 1)
        BY <4>2, <4>3
      <4>5. Short(f[i - 1], i - 1, len)
        BY <4>1, <4>4
      <4>6. f[i - 1] \in Progress /\ f[i] = After(buf, f[i - 1])
        BY <2>2, <3>1, <4>4 DEF Reads
      <4> HIDE DEF T
      <4> QED
        BY <4>2, <4>4, <4>5, <4>6, ShortOn
    <3>4. Short(f[n], n, len)
      <4>1. n \in 0 .. n
        OBVIOUS
      <4> QED
        BY <3>3, <4>1
    <3>5. f[n].end = Huge \/ (f[n].end \in Nat /\ f[n].end > len + 1)
      BY <1>1, <3>4 DEF Short
    <3> QED
      BY <2>7, <3>1, <3>5 DEF Huge
  <2> QED
    BY <2>8, <2>9
<1> QED
  BY <1>2, <1>3

LEMMA ChainTyped == \A k \in Nat : Chain(k) \in Seq(Bsplines)
<1> SUFFICES ASSUME NEW k \in Nat PROVE Chain(k) \in Seq(Bsplines)
  OBVIOUS
<1>1. \A i \in 1 .. k : Bspline(i - 1, 1) \in Bsplines
  BY DEF Bspline, Bsplines
<1> QED
  BY <1>1 DEF Chain

LEMMA ChainOn ==
  ASSUME NEW k \in Nat PROVE Append(Chain(k), Bspline(k, 1)) = Chain(k + 1)
<1>1. Chain(k) \in Seq(Bsplines) /\ Chain(k + 1) \in Seq(Bsplines) /\ Len(Chain(k)) = k /\ Len(Chain(k + 1)) = k + 1
  BY ChainTyped, ChainLength
<1>2. Bspline(k, 1) \in Bsplines
  BY DEF Bspline, Bsplines
<1> DEFINE s == Append(Chain(k), Bspline(k, 1))
<1>3. /\ s \in Seq(Bsplines) /\ Len(s) = k + 1
      /\ \A i \in 1 .. k : s[i] = Chain(k)[i]
      /\ s[k + 1] = Bspline(k, 1)
  BY <1>1, <1>2, AppendProperties
<1> HIDE DEF s
<1>4. ASSUME NEW i \in 1 .. Len(s) PROVE s[i] = Chain(k + 1)[i]
  <2>1. Chain(k + 1)[i] = Bspline(i - 1, 1)
    BY <1>3 DEF Chain
  <2>2. CASE i = k + 1
    BY <1>3, <2>1, <2>2
  <2>3. CASE i # k + 1
    <3>1. i \in 1 .. k
      BY <1>3, <2>3
    <3>2. Chain(k)[i] = Bspline(i - 1, 1)
      BY <3>1 DEF Chain
    <3> QED
      BY <1>3, <2>1, <3>1, <3>2
  <2> QED
    BY <2>2, <2>3
<1>5. s = Chain(k + 1)
  BY <1>1, <1>3, <1>4, SeqEqual
<1> QED
  BY <1>5 DEF s

(* The whole message is read as it was sent, if its size is one that a     *)
(* vector can have.                                                        *)
LEMMA WholeMessage ==
  ASSUME NEW d \in Nat, NEW n \in Nat, NEW cells \in Seq(Nat), Carries(cells, d, n)
  PROVE  \/ DeserializeMultiBsplines(cells) = [len |-> Huge]
         \/ DeserializeMultiBsplines(cells) = [len |-> Len(cells), msg |-> Message(d, Chain(n))]
<1> DEFINE size == SizeAt(cells, 3)
           found == DeserializeMultiBsplines(cells)
<1> SUFFICES ASSUME ~(found = [len |-> Huge])
             PROVE  found = [len |-> Len(cells), msg |-> Message(d, Chain(n))]
  OBVIOUS
<1>1. Len(cells) = 4 + 24 * n /\ cells[2] = d /\ cells[3] = n /\ cells[4] = 0
  BY DEF Carries
<1>2. /\ size \in Nat
      /\ \E f : /\ Reads(f, cells, size)
                /\ found = IF f[size].end = Huge THEN [len |-> Huge]
                           ELSE [len |-> f[size].end - 1, msg |-> Message(Cell(cells, 2), f[size].traj)]
  <2> HIDE DEF size, found
  <2> QED
    BY MessageRead, Zenon DEF size, found
<1>3. PICK f : /\ Reads(f, cells, size)
               /\ found = IF f[size].end = Huge THEN [len |-> Huge]
                          ELSE [len |-> f[size].end - 1, msg |-> Message(Cell(cells, 2), f[size].traj)]
  BY <1>2
<1>4. found = [len |-> f[size].end - 1, msg |-> Message(Cell(cells, 2), f[size].traj)]
  <2> HIDE DEF found, size
  <2> QED
    BY <1>3, Zenon
<1>5. \A i \in 1 .. Len(cells) : Cell(cells, i) = cells[i]
  <2>1. Len(cells) \in Nat
    BY LenProperties
  <2> QED
    BY <2>1 DEF Cell
<1>6. Cell(cells, 2) = d /\ Cell(cells, 3) = n
  BY <1>1, <1>5
<1>7. size = n
  <2>1. size # Huge /\ 3 \in Nat \ {0}
    BY <1>2 DEF Huge
  <2> QED
    BY <1>6, <2>1, SizeIsNatural
<1> HIDE DEF found, size
<1> DEFINE Complete(i) == [end |-> 5 + 24 * i, traj |-> Chain(i)]
           T == {i \in 0 .. n : f[i] # Complete(i)}
<1>8. T \subseteq Nat
  OBVIOUS
<1>9. ASSUME T # {} PROVE FALSE
  <2>1. PICK i \in T : \A k \in T : i <= k
    BY <1>8, <1>9, Least
  <2>2. i \in 0 .. n /\ f[i] # Complete(i)
    BY <2>1
  <2>3. i # 0
    <3>1. f[0] = [end |-> 5, traj |-> <<>>]
      BY <1>3 DEF Reads
    <3>2. Chain(0) = <<>>
      BY DEF Chain
    <3>3. Complete(0) = [end |-> 5, traj |-> <<>>]
      BY <3>2
    <3> QED
      BY <2>2, <3>1, <3>3
  <2>4. i \in 1 .. n /\ i - 1 \in 0 .. n /\ ~(i <= i - 1)
    BY <2>2, <2>3
  <2>5. f[i - 1] = Complete(i - 1)
    BY <2>1, <2>4
  <2> HIDE DEF T
  <2>6. f[i] = After(cells, f[i - 1])
    BY <1>3, <1>7, <2>4 DEF Reads
  <2>7. PICK id \in Nat : id = i - 1
    BY <2>4
  <2> DEFINE at == 5 + 24 * id
             next == DeserializeBspline(cells, at)
  <2>8. i = id + 1 /\ id + 1 \in 1 .. n /\ at \in Nat /\ at >= 5 /\ at + 24 <= Len(cells) + 1 /\ at <= Len(cells) + 1
    BY <1>1, <2>4, <2>7
  <2>9. BlockAt(cells, at, Len(cells), id)
    <3>1. ASSUME NEW q \in 1 .. 24
          PROVE  at - 1 + q \in 1 .. Len(cells) /\ cells[at - 1 + q] = BlockCell(id, q)
      <4>1. at - 1 + q = 4 + 24 * (i - 1) + q /\ at - 1 + q \in 1 .. Len(cells)
        BY <1>1, <2>8
      <4> QED
        BY <2>4, <2>7, <4>1 DEF Carries
    <3>2. ASSUME NEW q \in 1 .. 24
          PROVE  Cell(cells, at - 1 + q) = IF at - 1 + q <= Len(cells) THEN BlockCell(id, q) ELSE 0
      <4>1. at - 1 + q \in 1 .. Len(cells) /\ cells[at - 1 + q] = BlockCell(id, q)
        BY <3>1
      <4>2. Len(cells) \in Nat
        BY LenProperties
      <4> DEFINE j == at - 1 + q
      <4>3. j <= Len(cells) /\ Cell(cells, j) = cells[j]
        BY <1>5, <4>1, <4>2
      <4> HIDE DEF j
      <4>4. (IF j <= Len(cells) THEN BlockCell(id, q) ELSE 0) = BlockCell(id, q)
        BY <4>3, Zenon
      <4> QED
        BY <4>1, <4>3, <4>4 DEF j
    <3> QED
      BY <3>2 DEF BlockAt
  <2>10. next = [end |-> at + 24, traj |-> Bspline(id, 1)]
    <3>1. Len(cells) \in Nat /\ ~(at + 24 > Len(cells) + 1)
      BY <1>1, <2>8
    <3> HIDE DEF at
    <3> QED
      BY <2>8, <2>9, <3>1, BlockRead
  <2>11. f[i - 1] = [end |-> at, traj |-> Chain(id)]
    BY <2>5, <2>7
  <2>12. f[i] = [end |-> at + 24, traj |-> Append(Chain(id), Bspline(id, 1))]
    <3>1. at # Huge /\ at + 24 # Huge
      BY <2>8 DEF Huge
    <3>2. f[i - 1].end = at /\ f[i - 1].traj = Chain(id)
      <4> HIDE DEF at
      <4> QED
        BY <2>11
    <3>3. next.end = at + 24 /\ next.traj = Bspline(id, 1)
      <4> HIDE DEF at, next
      <4> QED
        BY <2>10
    <3>4. f[i] = IF at = Huge \/ next.end = Huge THEN [end |-> Huge]
                 ELSE [end |-> next.end, traj |-> Append(Chain(id), next.traj)]
      <4> HIDE DEF at
      <4> QED
        BY <2>6, <3>2, Zenon DEF After
    <3> HIDE DEF at, next
    <3> QED
      BY <3>1, <3>3, <3>4, Zenon
  <2>13. Append(Chain(id), Bspline(id, 1)) = Chain(i)
    BY <2>8, ChainOn
  <2>14. at + 24 = 5 + 24 * i
    BY <2>4, <2>8
  <2> HIDE DEF at
  <2> QED
    BY <2>2, <2>12, <2>13, <2>14
<1>10. f[n] = Complete(n)
  <2>1. n \in 0 .. n
    OBVIOUS
  <2> QED
    BY <1>9, <2>1
<1>11. f[n].end - 1 = Len(cells) /\ f[n].traj = Chain(n)
  BY <1>1, <1>10
<1> QED
  BY <1>4, <1>6, <1>7, <1>11

-----------------------------------------------------------------------------
(* What server_fun makes of a message, into whatever pieces it is cut.     *)

LEMMA Alone ==
  ASSUME NEW S, NEW m \in S
  PROVE  <<m>> \in Seq(S) /\ Len(<<m>>) = 1 /\ <<m>>[1] = m /\ <<m>> # <<>>
  OBVIOUS

LEMMA AbortUnfit ==
  Abort \in Messages /\ AllUnfit(<<Abort>>)
<1>1. <<>> \in Seq(Bsplines)
  OBVIOUS
<1>2. Abort \in Messages
  BY <1>1 DEF Abort, Message, Messages, Nobody
<1>3. Unfit(Abort)
  BY Zenon DEF Unfit
<1>4. \A i \in 1 .. Len(<<Abort>>) : <<Abort>>[i] = Abort
  <2> HIDE DEF Abort
  <2>1. Len(<<Abort>>) = 1 /\ <<Abort>>[1] = Abort
    BY <1>2, Alone
  <2> DEFINE t == <<Abort>>
  <2> HIDE DEF t
  <2> QED
    BY <2>1 DEF t
<1> QED
  BY <1>2, <1>3, <1>4 DEF AllUnfit

CutInto(cut, k, len) ==
  /\ k \in Nat \ {0} /\ cut \in [1 .. k -> 1 .. len]
  /\ cut[k] = len /\ \A i \in 1 .. k - 1 : cut[i] < cut[i + 1]

(* The cells before piece i.                                               *)
Offset(cut, i) == IF i = 1 THEN 0 ELSE cut[i - 1]

LEMMA PieceCells ==
  ASSUME NEW cells \in Seq(Nat), NEW cut, NEW k, CutInto(cut, k, Len(cells)), NEW i \in 1 .. k
  PROVE  /\ Offset(cut, i) \in Nat /\ Offset(cut, i) < cut[i]
         /\ cut[i] \in Nat /\ cut[i] <= Len(cells)
         /\ i # 1 => Offset(cut, i) # 0
         /\ Piece(cells, cut, i) \in Seq(Nat) /\ Len(Piece(cells, cut, i)) = cut[i] - Offset(cut, i)
         /\ \A j \in 1 .. cut[i] - Offset(cut, i) : Piece(cells, cut, i)[j] = cells[Offset(cut, i) + j]
<1> DEFINE o == Offset(cut, i)
           e == cut[i]
<1>1. Len(cells) \in Nat /\ k \in Nat /\ \A j \in 1 .. k : cut[j] \in 1 .. Len(cells)
  BY LenProperties DEF CutInto
<1>2. e \in Nat /\ e >= 1 /\ e <= Len(cells)
  BY <1>1
<1>3. o \in Nat /\ o < e /\ (i # 1 => o # 0)
  <2>1. CASE i = 1
    BY <1>2, <2>1 DEF Offset
  <2>2. CASE i # 1
    <3>1. i - 1 \in 1 .. k - 1 /\ i - 1 \in 1 .. k /\ (i - 1) + 1 = i
      BY <1>1, <2>2
    <3>2. cut[i - 1] \in 1 .. Len(cells)
      BY <1>1, <3>1
    <3>3. cut[i - 1] < cut[i]
      BY <3>1 DEF CutInto
    <3>4. o = cut[i - 1]
      BY <2>2 DEF Offset
    <3> QED
      BY <1>1, <2>2, <3>2, <3>3, <3>4
  <2> QED
    BY <2>1, <2>2
<1>4. Piece(cells, cut, i) = SubSeq(cells, o + 1, e)
  <2>1. CASE i = 1
    <3>1. o + 1 = 1
      BY <2>1 DEF Offset
    <3> QED
      BY <2>1, <3>1 DEF Piece
  <2>2. CASE i # 1
    <3>1. o = cut[i - 1]
      BY <2>2 DEF Offset
    <3> QED
      BY <2>2, <3>1 DEF Piece
  <2> QED
    BY <2>1, <2>2
<1> HIDE DEF o, e
<1>5. \A j \in o + 1 .. e : cells[j] \in Nat
  <2>1. ASSUME NEW j \in o + 1 .. e PROVE cells[j] \in Nat
    <3>1. j \in 1 .. Len(cells)
      BY <1>1, <1>2, <1>3
    <3> QED
      BY <3>1, ElementOfSeq
  <2> QED
    BY <2>1
<1> DEFINE s == SubSeq(cells, o + 1, e)
<1>6. /\ s \in Seq(Nat) /\ Len(s) = IF o + 1 <= e THEN e - (o + 1) + 1 ELSE 0
      /\ \A j \in 1 .. e - (o + 1) + 1 : s[j] = cells[(o + 1) + j - 1]
  <2>1. o + 1 \in Int /\ e \in Int
    BY <1>2, <1>3
  <2> QED
    BY <1>5, <2>1, SubSeqProperties
<1> HIDE DEF s
<1>7. Len(s) = e - o
  BY <1>2, <1>3, <1>6
<1>8. ASSUME NEW j \in 1 .. e - o PROVE s[j] = cells[o + j]
  <2>1. j \in 1 .. e - (o + 1) + 1 /\ (o + 1) + j - 1 = o + j
    BY <1>2, <1>3
  <2> QED
    BY <1>6, <2>1
<1>9. /\ Piece(cells, cut, i) \in Seq(Nat) /\ Len(Piece(cells, cut, i)) = e - o
      /\ \A j \in 1 .. e - o : Piece(cells, cut, i)[j] = cells[o + j]
  BY <1>4, <1>6, <1>7, <1>8 DEF s
<1> QED
  BY <1>2, <1>3, <1>9 DEF o, e

(* A piece lies over the rest of the buffer.                               *)
Covers(buf, piece) ==
  /\ buf \in Seq(Nat) /\ Len(piece) <= Len(buf)
  /\ \A j \in 1 .. Len(piece) : buf[j] = piece[j]

LEMMA OverlayCovers ==
  ASSUME NEW piece \in Seq(Nat), NEW buf \in Seq(Nat)
  PROVE  /\ Covers(Overlay(piece, buf), piece)
         /\ buf = <<>> => Overlay(piece, buf) = piece
<1> DEFINE p == Len(piece)
           b == Len(buf)
           rest == SubSeq(buf, p + 1, b)
<1>1. p \in Nat /\ b \in Nat
  BY LenProperties
<1>2. Overlay(piece, buf) = piece \o rest
  BY DEF Overlay
<1>3. rest \in Seq(Nat)
  <2>1. ASSUME NEW j \in p + 1 .. b PROVE buf[j] \in Nat
    <3>1. j \in 1 .. Len(buf)
      BY <1>1
    <3> QED
      BY <3>1, ElementOfSeq
  <2>2. p + 1 \in Int /\ b \in Int
    BY <1>1
  <2> HIDE DEF p, b
  <2> QED
    BY <2>1, <2>2, SubSeqProperties
<1>4. buf = <<>> => rest = <<>>
  <2>1. ASSUME buf = <<>> PROVE rest = <<>>
    <3>1. b = 0
      BY <2>1, EmptySeq
    <3>2. b < p + 1 /\ p + 1 \in Int /\ b \in Int
      BY <1>1, <3>1
    <3> HIDE DEF p, b
    <3> QED
      BY <3>2, SubSeqEmpty
  <2> QED
    BY <2>1
<1> HIDE DEF rest
<1>5. /\ piece \o rest \in Seq(Nat) /\ Len(piece \o rest) = Len(piece) + Len(rest)
      /\ \A i \in 1 .. Len(piece) + Len(rest) : (piece \o rest)[i] =
           IF i <= Len(piece) THEN piece[i] ELSE rest[i - Len(piece)]
  BY <1>3, ConcatProperties, Zenon
<1>6. Len(rest) \in Nat
  BY <1>3, LenProperties
<1>7. Covers(piece \o rest, piece)
  BY <1>1, <1>5, <1>6 DEF Covers
<1>8. buf = <<>> => piece \o rest = piece
  BY <1>4, ConcatEmptySeq
<1> QED
  BY <1>2, <1>7, <1>8

(* What is taken from a piece: nothing, or what no planner accepts, unless *)
(* the piece is the whole message.                                         *)
FitPiece(t, k, m) ==
  /\ t \in Seq(Messages) /\ Len(t) <= 1
  /\ AllUnfit(t) \/ (k = 1 /\ t = <<m>>)

LEMMA PieceTaken ==
  ASSUME NEW d \in Nat, NEW n \in Nat, NEW cells \in Seq(Nat), Carries(cells, d, n),
         NEW cut, NEW k, CutInto(cut, k, Len(cells)), NEW i \in 1 .. k,
         NEW buf, Covers(buf, Piece(cells, cut, i)), i = 1 => buf = Piece(cells, cut, i)
  PROVE  FitPiece(TakenFor(DeserializeMultiBsplines(buf), Len(Piece(cells, cut, i))), k, Message(d, Chain(n)))
<1> DEFINE piece == Piece(cells, cut, i)
           len == Len(piece)
           o == Offset(cut, i)
           found == DeserializeMultiBsplines(buf)
           m == Message(d, Chain(n))
           t == TakenFor(found, len)
<1>1. /\ o \in Nat /\ o < cut[i] /\ cut[i] \in Nat /\ cut[i] <= Len(cells)
      /\ i # 1 => o # 0
      /\ piece \in Seq(Nat) /\ len = cut[i] - o /\ \A j \in 1 .. cut[i] - o : piece[j] = cells[o + j]
  <2>1. /\ Offset(cut, i) \in Nat /\ Offset(cut, i) < cut[i]
        /\ cut[i] \in Nat /\ cut[i] <= Len(cells)
        /\ i # 1 => Offset(cut, i) # 0
    BY PieceCells
  <2>2. /\ Piece(cells, cut, i) \in Seq(Nat) /\ Len(Piece(cells, cut, i)) = cut[i] - Offset(cut, i)
        /\ \A j \in 1 .. cut[i] - Offset(cut, i) : Piece(cells, cut, i)[j] = cells[Offset(cut, i) + j]
    BY PieceCells
  <2> QED
    BY <2>1, <2>2, Zenon
<1>2. buf \in Seq(Nat) /\ len <= Len(buf) /\ \A j \in 1 .. len : buf[j] = piece[j]
  BY DEF Covers
<1>3. m \in Messages
  BY ChainTyped DEF Message, Messages
<1>4. CASE found.len = Huge
  <2>1. t = <<Abort>>
    BY <1>4, Zenon DEF TakenFor
  <2>2. <<Abort>> \in Seq(Messages) /\ Len(<<Abort>>) = 1 /\ AllUnfit(<<Abort>>)
    BY AbortUnfit, Alone
  <2>3. t \in Seq(Messages) /\ Len(t) <= 1 /\ AllUnfit(t)
    <3> HIDE DEF t
    <3> QED
      BY <2>1, <2>2
  <2> QED
    BY <2>3, Zenon DEF FitPiece
<1>5. CASE found.len # Huge /\ ~Agrees(found.len, len)
  <2>1. t = <<>>
    BY <1>5, Zenon DEF TakenFor
  <2>2. <<>> \in Seq(Messages) /\ Len(<<>>) = 0
    OBVIOUS
  <2>3. AllUnfit(<<>>)
    BY <2>2 DEF AllUnfit
  <2>4. t \in Seq(Messages) /\ Len(t) <= 1 /\ AllUnfit(t)
    <3> HIDE DEF t
    <3> QED
      BY <2>1, <2>2, <2>3
  <2> QED
    BY <2>4, Zenon DEF FitPiece
<1>6. CASE found.len # Huge /\ Agrees(found.len, len)
  <2>1. t = <<found.msg>>
    BY <1>6, Zenon DEF TakenFor
  <2>2. found.len = len
    BY <1>6 DEF Agrees
  <2>3. CASE i # 1
    <3>1. o \in Nat \ {0} /\ len \in Nat /\ o + len <= Len(cells)
      <4>1. Len(cells) \in Nat
        BY LenProperties
      <4> QED
        BY <1>1, <2>3, <4>1
    <3>2. Slice(buf, cells, o, len)
      <4>1. \A j \in 1 .. len : buf[j] = cells[o + j]
        BY <1>1, <1>2
      <4> QED
        BY <4>1 DEF Slice
    <3>3. Unfit(found.msg)
      <4> HIDE DEF o, len
      <4> QED
        BY <1>2, <2>2, <3>1, <3>2, LaterPiece, Zenon DEF len
    <3>4. found.msg \in Messages
      BY <3>3, AbortUnfit DEF Unfit
    <3> HIDE DEF found
    <3> DEFINE msg == found.msg
    <3> HIDE DEF msg
    <3>5. <<msg>> \in Seq(Messages) /\ Len(<<msg>>) = 1 /\ <<msg>>[1] = msg
      BY <3>4, Alone DEF msg
    <3> DEFINE s == <<msg>>
    <3> HIDE DEF s
    <3>6. AllUnfit(s)
      <4>1. ASSUME NEW j \in 1 .. Len(s) PROVE Unfit(s[j])
        <5>1. j = 1 /\ s[j] = msg
          BY <3>5 DEF s
        <5> QED
          BY <3>3, <5>1, Zenon DEF msg
      <4> QED
        BY <4>1 DEF AllUnfit
    <3>7. t = s
      BY <2>1, Zenon DEF s, msg
    <3>8. t \in Seq(Messages) /\ Len(t) <= 1 /\ AllUnfit(t)
      <4> HIDE DEF t
      <4> QED
        BY <3>5, <3>6, <3>7 DEF s
    <3> QED
      BY <3>8, Zenon DEF FitPiece, found
  <2>4. CASE i = 1
    <3>1. o = 0 /\ len = cut[1] /\ buf = piece
      BY <1>1, <2>4 DEF Offset
    <3>2. Len(buf) = len /\ len \in Nat /\ \A j \in 1 .. len : buf[j] = cells[j]
      BY <1>1, <3>1
    <3>3. CASE len < Len(cells)
      <4>1. found.len # len
        <5> HIDE DEF len, o, t, piece, m
        <5>1. buf \in Seq(Nat)
          BY <1>2
        <5> QED
          BY <5>1, <3>2, <3>3, FirstPiece, SMTT(20)
      <4> QED
        BY <2>2, <4>1
    <3>4. CASE ~(len < Len(cells))
      <4>1. Len(cells) \in Nat
        BY LenProperties
      <4>2. Len(cells) = len
        BY <1>1, <3>1, <3>4, <4>1
      <4>3. buf = cells
        <5> HIDE DEF len
        <5> QED
          BY <1>2, <3>2, <4>2, SeqEqual
      <4>4. k = 1
        <5>1. SUFFICES ASSUME k # 1 PROVE FALSE
          OBVIOUS
        <5>2. k \in Nat /\ 1 \in 1 .. k - 1 /\ 2 \in 1 .. k /\ 1 + 1 = 2
          BY <5>1 DEF CutInto
        <5>3. cut[1] < cut[2] /\ cut[2] \in 1 .. Len(cells) /\ cut[1] \in 1 .. Len(cells)
          BY <2>4, <5>2 DEF CutInto
        <5> QED
          BY <3>1, <4>1, <4>2, <5>3
      <4>5. found = [len |-> Huge] \/ found = [len |-> Len(cells), msg |-> m]
        <5> HIDE DEF m
        <5> QED
          BY <4>3, WholeMessage DEF m
      <4>6. found.msg = m
        <5> HIDE DEF found, m
        <5> QED
          BY <1>6, <4>5
      <4>7. t = <<m>>
        <5> HIDE DEF t, m, found
        <5> QED
          BY <2>1, <4>6
      <4>8. <<m>> \in Seq(Messages) /\ Len(<<m>>) = 1
        <5> HIDE DEF m
        <5> QED
          BY <1>3, Alone
      <4>9. t \in Seq(Messages) /\ Len(t) <= 1
        <5> HIDE DEF t, m
        <5> QED
          BY <4>7, <4>8
      <4> QED
        BY <4>4, <4>7, <4>9, Zenon DEF FitPiece
    <3> QED
      BY <3>3, <3>4
  <2> QED
    BY <2>3, <2>4
<1> QED
  <2>1. FitPiece(t, k, m)
    BY <1>4, <1>5, <1>6, Zenon
  <2> QED
    BY <2>1

LEMMA UnfitJoined ==
  ASSUME NEW r \in Seq(Messages), NEW t \in Seq(Messages), AllUnfit(r), AllUnfit(t)
  PROVE  r \o t \in Seq(Messages) /\ Len(r \o t) = Len(r) + Len(t) /\ AllUnfit(r \o t)
<1>1. /\ r \o t \in Seq(Messages) /\ Len(r \o t) = Len(r) + Len(t)
      /\ \A i \in 1 .. Len(r) + Len(t) : (r \o t)[i] = IF i <= Len(r) THEN r[i] ELSE t[i - Len(r)]
  BY ConcatProperties, Zenon
<1>2. Len(r) \in Nat /\ Len(t) \in Nat
  BY LenProperties
<1> DEFINE s == r \o t
<1> HIDE DEF s
<1>3. ASSUME NEW i \in 1 .. Len(s) PROVE Unfit(s[i])
  <2>1. CASE i <= Len(r)
    <3>1. i \in 1 .. Len(r) /\ s[i] = r[i]
      BY <1>1, <1>2, <2>1 DEF s
    <3> QED
      BY <3>1 DEF AllUnfit
  <2>2. CASE ~(i <= Len(r))
    <3>1. i - Len(r) \in 1 .. Len(t) /\ s[i] = t[i - Len(r)]
      BY <1>1, <1>2, <2>2 DEF s
    <3> QED
      BY <3>1 DEF AllUnfit
  <2> QED
    BY <2>1, <2>2
<1> QED
  BY <1>1, <1>3 DEF s, AllUnfit

LEMMA BuffersOf ==
  ASSUME NEW cells \in Seq(Nat), NEW cut, NEW k, CutInto(cut, k, Len(cells)), NEW bufs,
         bufs = CHOOSE f : f = [i \in 0 .. k |-> IF i = 0 THEN <<>> ELSE Overlay(Piece(cells, cut, i), f[i - 1])]
  PROVE  \A i \in 1 .. k : /\ Covers(bufs[i], Piece(cells, cut, i))
                           /\ i = 1 => bufs[i] = Piece(cells, cut, i)
<1> DEFINE Q == Seq(Nat)
           None == <<>>
           Body(h, i) == IF i = 0 THEN <<>> ELSE Overlay(Piece(cells, cut, i), h[i - 1])
           step == [p \in Q \X (1 .. k) |-> Overlay(Piece(cells, cut, p[2]), p[1])]
<1>1. k \in Nat /\ 0 \in 0 .. k
  BY DEF CutInto
<1>2. \A i \in 1 .. k : Piece(cells, cut, i) \in Q
  BY PieceCells
<1>3. \A b \in Q, i \in 1 .. k : Overlay(Piece(cells, cut, i), b) \in Q
  BY <1>2, OverlayCovers DEF Covers
<1>4. None \in Q
  OBVIOUS
<1> HIDE DEF Q, None
<1>5. step \in [Q \X (1 .. k) -> Q]
  <2>1. \A p \in Q \X (1 .. k) : p[1] \in Q /\ p[2] \in 1 .. k
    OBVIOUS
  <2>2. \A p \in Q \X (1 .. k) : Overlay(Piece(cells, cut, p[2]), p[1]) \in Q
    BY <1>3, <2>1
  <2> QED
    BY <2>2, Zenon
<1>6. \A b \in Q, i \in 1 .. k : step[<<b, i>>] = Overlay(Piece(cells, cut, i), b)
  OBVIOUS
<1> HIDE DEF step
<1>7. PICK g : Runs(g, k, Q, None, step)
  BY <1>1, <1>4, <1>5, StepByStep
<1>8. ASSUME NEW i \in 0 .. k PROVE g[i] = Body(g, i)
  <2>1. CASE i = 0
    BY <1>7, <2>1 DEF Runs, None
  <2>2. CASE i # 0
    <3>1. i \in 1 .. k /\ i - 1 \in 0 .. k
      BY <1>1, <2>2
    <3>2. g[i - 1] \in Q /\ g[i] = step[<<g[i - 1], i>>]
      BY <1>7, <3>1 DEF Runs
    <3>3. g[i] = Overlay(Piece(cells, cut, i), g[i - 1])
      BY <1>6, <3>1, <3>2
    <3> QED
      BY <2>2, <3>3
  <2> QED
    BY <2>1, <2>2
<1> HIDE DEF Body
<1>9. g = [i \in 0 .. k |-> Body(g, i)]
  BY <1>7, <1>8 DEF Runs
<1>10. bufs = CHOOSE f : f = [i \in 0 .. k |-> Body(f, i)]
  BY Zenon DEF Body
<1>11. bufs = [i \in 0 .. k |-> Body(bufs, i)]
  BY <1>9, <1>10, Zenon
<1>12. \A i \in 0 .. k : bufs[i] = Body(bufs, i)
  BY <1>11
<1>13. bufs[0] = None
  BY <1>1, <1>12 DEF Body, None
<1>14. ASSUME NEW i \in 1 .. k
       PROVE  bufs[i] = Overlay(Piece(cells, cut, i), bufs[i - 1]) /\ i - 1 \in 0 .. k
  <2>1. i \in 0 .. k /\ i # 0 /\ i - 1 \in 0 .. k
    BY <1>1
  <2>2. bufs[i] = Body(bufs, i)
    BY <1>12, <2>1
  <2> QED
    BY <2>1, <2>2 DEF Body
<1>15. \A i \in 0 .. k : bufs[i] \in Q
  <2>1. bufs[0] \in Q
    BY <1>4, <1>13
  <2>2. \A i \in 1 .. k : bufs[i - 1] \in Q => bufs[i] \in Q
    BY <1>3, <1>14
  <2> QED
    BY <1>1, <2>1, <2>2, Stays
<1>16. ASSUME NEW i \in 1 .. k
       PROVE  /\ Covers(bufs[i], Piece(cells, cut, i))
              /\ i = 1 => bufs[i] = Piece(cells, cut, i)
  <2>1. bufs[i] = Overlay(Piece(cells, cut, i), bufs[i - 1]) /\ bufs[i - 1] \in Seq(Nat)
    BY <1>14, <1>15 DEF Q
  <2>2. Piece(cells, cut, i) \in Seq(Nat)
    BY <1>2 DEF Q
  <2>3. i = 1 => bufs[i - 1] = <<>>
    BY <1>13 DEF None
  <2> QED
    BY <2>1, <2>2, <2>3, OverlayCovers
<1> QED
  BY <1>16

(* After i pieces.                                                         *)
FitFor(r, i, k, m) ==
  /\ r \in Seq(Messages) /\ Len(r) <= i
  /\ AllUnfit(r) \/ (k = 1 /\ r = <<m>>)

LEMMA FitOn ==
  ASSUME NEW i \in Nat \ {0}, NEW k \in Nat, i <= k, NEW m \in Messages, NEW r, NEW t,
         FitFor(r, i - 1, k, m), i = 1 => r = <<>>, FitPiece(t, k, m)
  PROVE  FitFor(r, i, k, m) /\ FitFor(r \o t, i, k, m)
<1>1. r \in Seq(Messages) /\ Len(r) <= i - 1 /\ Len(r) \in Nat
  BY LenProperties DEF FitFor
<1>2. t \in Seq(Messages) /\ Len(t) <= 1 /\ Len(t) \in Nat
  BY LenProperties DEF FitPiece
<1>3. AllUnfit(<<>>)
  <2>1. Len(<<>>) = 0
    OBVIOUS
  <2> QED
    BY <2>1 DEF AllUnfit
<1>4. CASE i = 1
  <2>1. r = <<>> /\ r \o t = t
    BY <1>2, <1>4, ConcatEmptySeq
  <2>2. Len(r) <= i /\ Len(t) <= i
    BY <1>1, <1>2, <1>4
  <2>3. FitFor(r, i, k, m)
    BY <1>1, <1>3, <2>1, <2>2, Zenon DEF FitFor
  <2>4. FitFor(t, i, k, m)
    BY <1>2, <2>2, Zenon DEF FitFor, FitPiece
  <2> QED
    BY <2>1, <2>3, <2>4, Zenon
<1>5. CASE i # 1
  <2>1. k # 1 /\ Len(r) <= i
    BY <1>1, <1>5
  <2>2. AllUnfit(r) /\ AllUnfit(t)
    BY <2>1, Zenon DEF FitFor, FitPiece
  <2>3. r \o t \in Seq(Messages) /\ Len(r \o t) = Len(r) + Len(t) /\ AllUnfit(r \o t)
    BY <1>1, <1>2, <2>2, UnfitJoined
  <2>4. Len(r \o t) <= i
    BY <1>1, <1>2, <2>3
  <2>5. FitFor(r, i, k, m)
    BY <1>1, <2>1, <2>2, Zenon DEF FitFor
  <2>6. FitFor(r \o t, i, k, m)
    BY <2>2, <2>3, <2>4, Zenon DEF FitFor
  <2> QED
    BY <2>5, <2>6
<1> QED
  BY <1>4, <1>5

LEMMA MadeOfPieces ==
  ASSUME NEW d \in Nat, NEW n \in Nat, NEW cells \in Seq(Nat), Carries(cells, d, n),
         NEW cut, NEW k, k = Len(cut), CutInto(cut, k, Len(cells))
  PROVE  FitFor(Made(cells, cut), k, k, Message(d, Chain(n)))
<1> DEFINE m == Message(d, Chain(n))
           Q == Seq(Messages)
           None == <<>>
           bufs == CHOOSE f : f = [i \in 0 .. Len(cut) |-> IF i = 0 THEN <<>> ELSE Overlay(Piece(cells, cut, i), f[i - 1])]
           Taken(i) == TakenFor(DeserializeMultiBsplines(bufs[i]), Len(Piece(cells, cut, i)))
           Then(b, i) == IF b # <<>> /\ Last(b) = Abort THEN b ELSE b \o Taken(i)
           Body(h, i) == IF i = 0 THEN <<>> ELSE Then(h[i - 1], i)
           mades == CHOOSE f : f = [i \in 0 .. Len(cut) |->
                      IF i = 0 THEN <<>>
                      ELSE IF f[i - 1] # <<>> /\ Last(f[i - 1]) = Abort THEN f[i - 1]
                      ELSE f[i - 1] \o TakenFor(DeserializeMultiBsplines(bufs[i]), Len(Piece(cells, cut, i)))]
           step == [p \in Q \X (1 .. k) |-> Then(p[1], p[2])]
<1>1. Made(cells, cut) = mades[Len(cut)]
  BY Zenon DEF Made
<1>2. mades = CHOOSE f : f = [i \in 0 .. Len(cut) |-> Body(f, i)]
  BY Zenon
<1> HIDE DEF mades
<1>3. k \in Nat /\ k # 0 /\ 0 \in 0 .. k
  BY DEF CutInto
<1>4. \A i \in 1 .. k : Covers(bufs[i], Piece(cells, cut, i)) /\ (i = 1 => bufs[i] = Piece(cells, cut, i))
  <2>1. bufs = CHOOSE f : f = [i \in 0 .. k |-> IF i = 0 THEN <<>> ELSE Overlay(Piece(cells, cut, i), f[i - 1])]
    BY Zenon
  <2> HIDE DEF bufs
  <2> QED
    BY <2>1, BuffersOf
<1> HIDE DEF bufs
<1>5. m \in Messages
  BY ChainTyped DEF Message, Messages
<1>6. ASSUME NEW i \in 1 .. k PROVE FitPiece(Taken(i), k, m)
  <2>1. Covers(bufs[i], Piece(cells, cut, i)) /\ (i = 1 => bufs[i] = Piece(cells, cut, i))
    BY <1>4
  <2> QED
    BY <2>1, PieceTaken
<1> HIDE DEF m
<1> HIDE DEF Taken
<1>7. \A b \in Q, i \in 1 .. k : Then(b, i) \in Q /\ (Then(b, i) = b \/ Then(b, i) = b \o Taken(i))
  <2>1. ASSUME NEW b \in Q, NEW i \in 1 .. k
        PROVE  Then(b, i) \in Q /\ (Then(b, i) = b \/ Then(b, i) = b \o Taken(i))
    <3>1. Taken(i) \in Q
      BY <1>6 DEF FitPiece
    <3> DEFINE t == Taken(i)
    <3> HIDE DEF t
    <3>2. b \o t \in Q
      BY <3>1, ConcatProperties DEF t
    <3>3. Then(b, i) = b \/ Then(b, i) = b \o t
      BY Zenon DEF t
    <3> QED
      BY <3>2, <3>3, Zenon DEF t
  <2> QED
    BY <2>1
<1>8. None \in Q
  OBVIOUS
<1> HIDE DEF None, Then, Q
<1>9. step \in [Q \X (1 .. k) -> Q]
  <2>1. \A p \in Q \X (1 .. k) : p[1] \in Q /\ p[2] \in 1 .. k
    OBVIOUS
  <2>2. \A p \in Q \X (1 .. k) : Then(p[1], p[2]) \in Q
    BY <1>7, <2>1
  <2> QED
    BY <2>2, Zenon
<1>10. \A b \in Q, i \in 1 .. k : step[<<b, i>>] = Then(b, i)
  OBVIOUS
<1> HIDE DEF step
<1>11. PICK g : Runs(g, k, Q, None, step)
  BY <1>3, <1>8, <1>9, StepByStep
<1>12. ASSUME NEW i \in 0 .. k PROVE g[i] = Body(g, i)
  <2>1. CASE i = 0
    BY <1>11, <2>1 DEF Runs, None
  <2>2. CASE i # 0
    <3>1. i \in 1 .. k /\ i - 1 \in 0 .. k
      BY <1>3, <2>2
    <3>2. g[i - 1] \in Q /\ g[i] = step[<<g[i - 1], i>>]
      BY <1>11, <3>1 DEF Runs
    <3>3. g[i] = Then(g[i - 1], i)
      BY <1>10, <3>1, <3>2
    <3> QED
      BY <2>2, <3>3
  <2> QED
    BY <2>1, <2>2
<1> HIDE DEF Body
<1>13. g = [i \in 0 .. Len(cut) |-> Body(g, i)]
  BY <1>11, <1>12 DEF Runs
<1>14. mades = [i \in 0 .. Len(cut) |-> Body(mades, i)]
  BY <1>2, <1>13, Zenon
<1>15. \A i \in 0 .. k : mades[i] = Body(mades, i)
  BY <1>14
<1>16. mades[0] = None
  BY <1>3, <1>15 DEF Body, None
<1>17. ASSUME NEW i \in 1 .. k PROVE mades[i] = Then(mades[i - 1], i) /\ i - 1 \in 0 .. k
  <2>1. i \in 0 .. k /\ i # 0 /\ i - 1 \in 0 .. k
    BY <1>3
  <2>2. mades[i] = Body(mades, i)
    BY <1>15, <2>1
  <2> QED
    BY <2>1, <2>2 DEF Body
<1>18. \A i \in 0 .. k : FitFor(mades[i], i, k, m)
  <2> DEFINE T == {i \in 0 .. k : ~FitFor(mades[i], i, k, m)}
  <2>1. T \subseteq Nat
    BY <1>3
  <2>2. ASSUME T # {} PROVE FALSE
    <3>1. PICK i \in T : \A j \in T : i <= j
      BY <2>1, <2>2, Least
    <3>2. i \in 0 .. k /\ ~FitFor(mades[i], i, k, m)
      BY <3>1
    <3>3. CASE i = 0
      <4>1. None \in Seq(Messages) /\ Len(None) <= 0
        BY DEF None
      <4>2. AllUnfit(None)
        <5>1. Len(None) = 0
          BY DEF None
        <5> QED
          BY <5>1 DEF AllUnfit
      <4>3. FitFor(None, 0, k, m)
        BY <4>1, <4>2, Zenon DEF FitFor
      <4> QED
        BY <1>16, <3>2, <3>3, <4>3
    <3>4. CASE i # 0
      <4>1. i \in 1 .. k /\ i - 1 \in 0 .. k /\ ~(i <= i - 1)
        BY <1>3, <3>2, <3>4
      <4>2. FitFor(mades[i - 1], i - 1, k, m)
        BY <3>1, <4>1
      <4> HIDE DEF T
      <4>3. mades[i] = Then(mades[i - 1], i)
        BY <1>17, <4>1
      <4>4. i = 1 => mades[i - 1] = <<>>
        BY <1>16 DEF None
      <4>5. mades[i - 1] \in Q
        BY <4>2 DEF FitFor, Q
      <4>6. mades[i] = mades[i - 1] \/ mades[i] = mades[i - 1] \o Taken(i)
        BY <1>7, <4>1, <4>3, <4>5
      <4>7. FitPiece(Taken(i), k, m) /\ i \in Nat \ {0} /\ i <= k
        BY <1>6, <4>1
      <4> DEFINE r == mades[i - 1]
                 t == Taken(i)
      <4>8. FitFor(r, i, k, m) /\ FitFor(r \o t, i, k, m)
        <5>1. FitFor(r, i - 1, k, m) /\ (i = 1 => r = <<>>) /\ FitPiece(t, k, m)
          BY <4>2, <4>4, <4>7
        <5> HIDE DEF r, t
        <5> QED
          BY <1>3, <1>5, <4>7, <5>1, FitOn
      <4> QED
        BY <3>2, <4>6, <4>8, Zenon
    <3> QED
      BY <3>3, <3>4
  <2> QED
    BY <2>2
<1>19. k \in 0 .. k
  BY <1>3
<1> QED
  BY <1>1, <1>18, <1>19 DEF m

LEMMA CutsAre ==
  ASSUME NEW len \in Nat, NEW cut \in Cuts(len)
  PROVE  CutInto(cut, Len(cut), len) /\ Len(cut) <= MaxReads
<1>1. PICK k \in 1 .. MaxReads : cut \in {c \in [1 .. k -> 1 .. len] : c[k] = len /\ \A i \in 1 .. k - 1 : c[i] < c[i + 1]}
  BY DEF Cuts
<1>2. k \in Nat \ {0} /\ k <= MaxReads
  BY SwarmAssumption
<1>3. cut \in [1 .. k -> 1 .. len] /\ cut[k] = len /\ \A i \in 1 .. k - 1 : cut[i] < cut[i + 1]
  BY <1>1
<1>4. Len(cut) = k
  <2>1. cut \in Seq(1 .. len) /\ DOMAIN cut = 1 .. k
    BY <1>2, <1>3
  <2> QED
    BY <1>2, <2>1, LenProperties
<1> QED
  BY <1>2, <1>3, <1>4 DEF CutInto

(* A message is read whole, or nothing a planner accepts is made of it.    *)
LEMMA ReadsOfStart ==
  ASSUME NEW s \in Drones, NEW r \in ReadsOf[StartMessage(s)]
  PROVE  /\ r \in Seq(Messages) /\ Len(r) <= MaxReads
         /\ AllUnfit(r) \/ r = <<StartMessage(s)>>
<1> DEFINE m == StartMessage(s)
           cells == SerializeMultiBsplines(m)
<1>1. s \in Nat /\ s + 1 \in Nat /\ s + 1 \in 0 .. N
  BY SwarmAssumption DEF Drones
<1>2. m = Message(s, Chain(s + 1))
  BY DEF StartMessage
<1> HIDE DEF m
<1>3. m \in {Message(d, Chain(n)) : d \in Drones, n \in 0 .. N}
  BY <1>1, <1>2
<1>4. ReadsOf[m] = {Made(cells, c) : c \in Cuts(Len(cells))}
  <2> DEFINE Domain == {Message(d, Chain(n)) : d \in Drones, n \in 0 .. N}
             Makes(x) == {Made(SerializeMultiBsplines(x), c) : c \in Cuts(Len(SerializeMultiBsplines(x)))}
  <2>1. ReadsOf = [x \in Domain |-> Makes(x)]
    BY DEF ReadsOf
  <2>2. m \in Domain
    BY <1>3
  <2> HIDE DEF Domain
  <2>3. ReadsOf[m] = Makes(m)
    <3> HIDE DEF Makes
    <3> QED
      BY <2>1, <2>2
  <2> QED
    BY <2>3
<1>5. Carries(cells, s, s + 1)
  BY <1>1, <1>2, StreamCells
<1> HIDE DEF cells
<1>6. cells \in Seq(Nat) /\ Len(cells) \in Nat
  <2>1. cells \in Seq(Nat)
    BY <1>1, <1>5, CellsNatural
  <2> QED
    BY <2>1, LenProperties
<1>7. PICK cut \in Cuts(Len(cells)) : r = Made(cells, cut)
  BY <1>4 DEF m
<1>8. CutInto(cut, Len(cut), Len(cells)) /\ Len(cut) <= MaxReads
  BY <1>6, CutsAre
<1>9. FitFor(r, Len(cut), Len(cut), m)
  BY <1>1, <1>2, <1>5, <1>6, <1>7, <1>8, MadeOfPieces
<1>10. Len(cut) \in Nat /\ MaxReads \in Nat
  BY <1>8, SwarmAssumption DEF CutInto
<1>11. r \in Seq(Messages) /\ Len(r) <= Len(cut) /\ (AllUnfit(r) \/ r = <<m>>)
  BY <1>9, Zenon DEF FitFor
<1>12. Len(r) <= MaxReads
  <2>1. Len(r) \in Nat
    BY <1>11, LenProperties
  <2> QED
    BY <1>8, <1>10, <1>11, <2>1
<1> QED
  BY <1>11, <1>12, Zenon DEF m

-----------------------------------------------------------------------------
(* The invariant: what each step of a drone does to it.                    *)

LEMMA DroneNumbers ==
  /\ N \in Nat /\ N >= 1 /\ MaxVersion \in Nat /\ MaxVersion >= 1 /\ MaxReads \in Nat /\ MaxReads >= 1
  /\ MaxCrashes \in Nat /\ 0 \in Drones
  /\ \A d \in Drones : d \in Nat /\ d < N /\ d # Nobody
  BY SwarmAssumption DEF Drones, Nobody

LEMMA NextDrones ==
  ASSUME NEW s \in Drones
  PROVE  /\ NextDrone(s) \in Drones \cup {Nobody}
         /\ \A d \in Drones : NextDrone(s) = d => s = d \/ (d > 0 /\ s = d - 1)
  BY SwarmAssumption DEF Drones, Nobody, NextDrone

LEMMA StartMessages ==
  ASSUME NEW s \in Drones
  PROVE  /\ StartMessage(s) \in Messages /\ StartMessage(s).drone_id_from = s
         /\ StartMessage(s).traj = Chain(s + 1) /\ Len(StartMessage(s).traj) = s + 1
         /\ \A i \in 1 .. s + 1 : StartMessage(s).traj[i] = Bspline(i - 1, 1)
         /\ s + 1 \in Nat /\ s + 1 <= N
<1>1. s \in Nat /\ s + 1 \in Nat /\ s + 1 <= N
  BY DroneNumbers
<1>2. Chain(s + 1) \in Seq(Bsplines) /\ Len(Chain(s + 1)) = s + 1
  BY <1>1, ChainTyped, ChainLength
<1>3. \A i \in 1 .. s + 1 : Chain(s + 1)[i] = Bspline(i - 1, 1)
  BY DEF Chain
<1>4. StartMessage(s) = [drone_id_from |-> s, traj |-> Chain(s + 1)]
  BY DEF StartMessage, Message
<1> DEFINE c == Chain(s + 1)
<1> HIDE DEF c
<1>5. StartMessage(s) = [drone_id_from |-> s, traj |-> c] /\ c \in Seq(Bsplines)
  BY <1>2, <1>4 DEF c
<1>6. StartMessage(s) \in Messages /\ StartMessage(s).drone_id_from = s /\ StartMessage(s).traj = c
  <2>1. s \in Int
    BY <1>1
  <2> QED
    BY <1>5, <2>1 DEF Messages
<1> QED
  BY <1>1, <1>2, <1>3, <1>6 DEF c

(* A planner takes a message for what it waits for only if it is.          *)
LEMMA RefusesUnfit ==
  ASSUME NEW d \in Drones, NEW m, Unfit(m), m # Abort
  PROVE  ~Accepts(d, m) /\ m \in Messages /\ Len(m.traj) <= 1
<1>1. /\ m \in Messages /\ m.drone_id_from >= 0 /\ Len(m.traj) <= 1
      /\ Len(m.traj) = 1 => m.traj[1].order # 3
  BY DEF Unfit
<1>2. m.traj \in Seq(Bsplines) /\ m.drone_id_from \in Int
  BY <1>1 DEF Messages
<1>3. Len(m.traj) \in Nat
  BY <1>2, LenProperties
<1>4. ASSUME Accepts(d, m) PROVE FALSE
  <2>1. Len(m.traj) = m.drone_id_from + 1 /\ m.traj[1].order = 3
    BY <1>4 DEF Accepts
  <2>2. Len(m.traj) = 1
    BY <1>1, <1>2, <1>3, <2>1
  <2> QED
    BY <1>1, <2>1, <2>2
<1> QED
  BY <1>1, <1>4

LEMMA NoneUnfit == AllUnfit(<<>>)
<1>1. Len(<<>>) = 0
  OBVIOUS
<1> QED
  BY <1>1 DEF AllUnfit

(* Whose turn it was follows from two variables.                           *)
LEMMA SameStarted ==
  ASSUME flying' = flying, start' = start
  PROVE  in_turn' = in_turn
  BY Zenon DEF in_turn

LEMMA StartedDrones ==
  /\ \A d \in Drones : in_turn[d] = (flying[d] /\ start[d] = "SEQUENTIAL_START")
  /\ \A d \in Drones : in_turn'[d] = (flying'[d] /\ start'[d] = "SEQUENTIAL_START")
<1>1. ASSUME NEW d \in Drones PROVE in_turn[d] = (flying[d] /\ start[d] = "SEQUENTIAL_START")
  BY Zenon DEF in_turn
<1>2. ASSUME NEW d \in Drones PROVE in_turn'[d] = (flying'[d] /\ start'[d] = "SEQUENTIAL_START")
  BY Zenon DEF in_turn, Drones
<1> QED
  BY <1>1, <1>2

(* A drone whose turn it is adds itself to them.                           *)
LEMMA StartsInTurn ==
  ASSUME PlannersTyped, NEW d \in Drones, SequentialStart(d)
  PROVE  ~in_turn[d] /\ in_turn'[d] /\ \A e \in Drones : e # d => in_turn'[e] = in_turn[e]
<1>1. /\ start[d] = "SEQUENTIAL_START" /\ ~flying[d] /\ start' = start
      /\ flying' = [flying EXCEPT ![d] = TRUE] /\ flying \in [Drones -> BOOLEAN]
  BY DEF SequentialStart, PlannersTyped
<1>2. flying'[d] /\ \A e \in Drones : e # d => flying'[e] = flying[e]
  BY <1>1
<1>3. ~in_turn[d]
  BY <1>1, StartedDrones, Zenon
<1>4. in_turn'[d]
  BY <1>1, <1>2, StartedDrones, Zenon
<1>5. ASSUME NEW e \in Drones, e # d PROVE in_turn'[e] = in_turn[e]
  BY <1>1, <1>2, <1>5, StartedDrones, Zenon
<1> QED
  BY <1>3, <1>4, <1>5

(* A drone that leaves by itself does not.                                 *)
LEMMA StartsNobody ==
  ASSUME PlannersTyped, NEW d \in Drones, TriggerComes(d) \/ GenNewTraj(d)
  PROVE  in_turn' = in_turn
<1>1. flying \in [Drones -> BOOLEAN] /\ start \in [Drones -> {"none", "SEQUENTIAL_START", "GEN_NEW_TRAJ"}]
  BY DEF PlannersTyped
<1>2. ASSUME NEW e \in Drones
      PROVE  (flying'[e] /\ start'[e] = "SEQUENTIAL_START") = (flying[e] /\ start[e] = "SEQUENTIAL_START")
  <2>1. CASE TriggerComes(d)
    <3>1. flying' = flying /\ start[d] = "none" /\ (e # d => start'[e] = start[e])
      BY <1>1, <2>1 DEF TriggerComes
    <3>2. ~flying[d]
      BY <3>1 DEF PlannersTyped
    <3> QED
      BY <3>1, <3>2, Zenon
  <2>2. CASE GenNewTraj(d)
    <3>1. start' = start /\ start[d] = "GEN_NEW_TRAJ" /\ (e # d => flying'[e] = flying[e])
      BY <1>1, <2>2 DEF GenNewTraj
    <3>2. "GEN_NEW_TRAJ" # "SEQUENTIAL_START"
      OBVIOUS
    <3> QED
      BY <3>1, <3>2, Zenon
  <2> QED
    BY <1>2, <2>1, <2>2
<1> QED
  BY <1>2, Zenon DEF in_turn, Drones

LEMMA LeftAlone ==
  ASSUME SwarmInv
  PROVE  /\ UNCHANGED <<odom, start, flying, recv_pre, version>> => PlannersTyped'
         /\ UNCHANGED <<bridge, link, server, source, ended>> => SocketsTyped'
         /\ UNCHANGED <<air, lost, crashes>> => NetworkTyped'
         /\ UNCHANGED <<multi, slots, outbox, wire, parsed, backlog>> => BuffersOK' /\ Lengths'
         /\ UNCHANGED <<server, bridge, parsed, source, backlog>> => ServersRead'
         /\ UNCHANGED <<outbox, in_turn, wire>> => SentOnce'
         /\ UNCHANGED <<parsed, in_turn, source, outbox, wire>> => MadeOfIt'
         /\ UNCHANGED <<in_turn, multi, recv_pre, outbox, wire, parsed>> => HoldsTheChain'
         /\ UNCHANGED <<flying, version, air>> => Planned'
         /\ UNCHANGED in_turn => StartsInOrder'
         /\ UNCHANGED <<slots, version>> => SlotsHeld'
<1>1. UNCHANGED <<odom, start, flying, recv_pre, version>> => PlannersTyped'
  BY DEF SwarmInv, PlannersTyped
<1>2. UNCHANGED <<bridge, link, server, source, ended>> => SocketsTyped'
  BY DEF SwarmInv, SocketsTyped
<1>3. UNCHANGED <<air, lost, crashes>> => NetworkTyped'
  BY DEF SwarmInv, NetworkTyped
<1>4. UNCHANGED <<multi, slots, outbox, wire, parsed, backlog>> => BuffersOK' /\ Lengths'
  BY DEF SwarmInv, BuffersOK, Lengths
<1>5. UNCHANGED <<server, bridge, parsed, source, backlog>> => ServersRead'
  BY DEF SwarmInv, ServersRead
<1>6. UNCHANGED <<outbox, in_turn, wire>> => SentOnce'
  BY DEF SwarmInv, SentOnce
<1>7. UNCHANGED <<parsed, in_turn, source, outbox, wire>> => MadeOfIt'
  BY DEF SwarmInv, MadeOfIt
<1>8. UNCHANGED <<in_turn, multi, recv_pre, outbox, wire, parsed>> => HoldsTheChain'
  BY DEF SwarmInv, HoldsTheChain
<1>9. UNCHANGED <<flying, version, air>> => Planned'
  BY DEF SwarmInv, Planned
<1>10. UNCHANGED in_turn => StartsInOrder'
  BY DEF SwarmInv, StartsInOrder
<1>11. UNCHANGED <<slots, version>> => SlotsHeld'
  BY DEF SwarmInv, SlotsHeld
<1> QED
  BY <1>1, <1>2, <1>3, <1>4, <1>5, <1>6, <1>7, <1>8, <1>9, <1>10, <1>11

LEMMA SwarmInitInv ==
  ASSUME SwarmInit PROVE SwarmInv
<1>1. PlannersTyped /\ NetworkTyped
  BY DroneNumbers DEF SwarmInit, PlannersTyped, NetworkTyped
<1>2. SocketsTyped
  BY DEF SwarmInit, SocketsTyped
<1> DEFINE None == <<>>
<1>3. \A S : None \in Seq(S) /\ Len(None) = 0 /\ DOMAIN None = {}
  OBVIOUS
<1>4. Message(0, None) \in Messages /\ Message(0, None).traj = None
  BY <1>3 DEF Message, Messages
<1>5. /\ multi = [d \in Drones |-> Message(0, None)] /\ slots = [d \in Drones |-> None]
      /\ outbox = [d \in Drones |-> None] /\ wire = [d \in Drones |-> None]
      /\ parsed = [d \in Drones |-> None] /\ backlog = [d \in Drones |-> None]
  BY DEF SwarmInit
<1>6. BuffersOK
  <2> HIDE DEF None
  <2> QED
    BY <1>3, <1>4, <1>5 DEF BuffersOK
<1>7. \A d \in Drones : /\ multi[d] = Message(0, None) /\ slots[d] = None /\ outbox[d] = None
                        /\ wire[d] = None /\ parsed[d] = None /\ backlog[d] = None
  BY <1>5
<1>8. Lengths
  <2> HIDE DEF None
  <2> QED
    BY <1>3, <1>4, <1>7, DroneNumbers DEF Lengths, Backlog
<1>9. ServersRead
  <2>1. \A d \in Drones : source[d] = Nobody /\ server[d] = "down"
    BY DEF SwarmInit
  <2> QED
    BY <1>3, <1>7, <2>1 DEF ServersRead
<1>10. SentOnce /\ MadeOfIt
  BY <1>7 DEF SentOnce, MadeOfIt
<1>11. HoldsTheChain
  <2>1. \A d \in Drones : ~recv_pre[d]
    BY DEF SwarmInit
  <2> QED
    BY <1>7, <2>1 DEF HoldsTheChain
<1>12. Planned
  BY DEF SwarmInit, Planned
<1>13. StartsInOrder
  <2>1. \A d \in Drones : ~in_turn[d]
    BY StartedDrones DEF SwarmInit
  <2> QED
    BY <2>1 DEF StartsInOrder
<1>14. SlotsHeld
  BY <1>3, <1>7 DEF SlotsHeld
<1> QED
  BY <1>1, <1>2, <1>6, <1>8, <1>9, <1>10, <1>11, <1>12, <1>13, <1>14 DEF SwarmInv

LEMMA OdometryKeeps ==
  ASSUME SwarmInv, NEW d \in Drones, Odometry(d) PROVE SwarmInv'
<1>1. /\ UNCHANGED <<start, flying, in_turn, recv_pre, version, bridge, link, server, source, ended, air, lost, crashes>>
      /\ UNCHANGED <<multi, slots, outbox, wire, parsed, backlog>>
      /\ odom' = [odom EXCEPT ![d] = TRUE]
  BY SameStarted DEF Odometry, sockets, buffers
<1>2. PlannersTyped'
  BY <1>1 DEF SwarmInv, PlannersTyped
<1>3. /\ SocketsTyped' /\ NetworkTyped' /\ BuffersOK' /\ Lengths' /\ ServersRead' /\ SentOnce'
      /\ MadeOfIt' /\ HoldsTheChain' /\ Planned' /\ StartsInOrder' /\ SlotsHeld'
  BY <1>1, LeftAlone
<1> QED
  BY <1>2, <1>3 DEF SwarmInv

(* A datagram carries the trajectory its sender flies.                     *)
LEMMA BroadcastKeeps ==
  ASSUME NetworkTyped, \A p \in air : p.traj_id <= version[p.of], version \in [Drones -> 0 .. MaxVersion],
         NEW d \in Drones, Broadcast(d), UNCHANGED <<lost, crashes>> \/ (lost' = lost \cup {d} /\ UNCHANGED crashes),
         version' \in [Drones -> 0 .. MaxVersion], version'[d] >= 1,
         \A e \in Drones : version[e] <= version'[e]
  PROVE  NetworkTyped' /\ \A p \in air' : p.traj_id <= version'[p.of]
<1>1. version'[d] \in 1 .. MaxVersion
  BY DroneNumbers
<1>2. \E to \in SUBSET Drones : air' \subseteq air \cup {[to |-> o, of |-> d, traj_id |-> version'[d]] : o \in to}
  <2>1. CASE bridge[d] # "up"
    <3>1. air' = air
      BY <2>1 DEF Broadcast
    <3> QED
      BY <3>1
  <2>2. CASE ~(bridge[d] # "up")
    <3>1. PICK to \in SUBSET {o \in Drones : <<o, d>> \in Hears} :
            air' = air \cup {[to |-> o, of |-> d, traj_id |-> version'[d]] : o \in to}
      BY <2>2 DEF Broadcast
    <3>2. to \in SUBSET Drones
      OBVIOUS
    <3> QED
      BY <3>1, <3>2
  <2> QED
    BY <2>1, <2>2
<1>3. ASSUME NEW p \in air'
      PROVE  /\ p \in [to : Drones, of : Drones, traj_id : 1 .. MaxVersion]
             /\ p.traj_id <= version'[p.of]
  <2>1. CASE p \in air
    <3>1. p \in [to : Drones, of : Drones, traj_id : 1 .. MaxVersion] /\ p.traj_id <= version[p.of]
      BY <2>1 DEF NetworkTyped
    <3>2. p.of \in Drones /\ p.traj_id \in Nat
      BY <3>1
    <3>3. version[p.of] \in Nat /\ version'[p.of] \in Nat /\ version[p.of] <= version'[p.of]
      BY <3>2, DroneNumbers
    <3> QED
      BY <3>1, <3>2, <3>3
  <2>2. CASE p \notin air
    <3>1. PICK o \in Drones : p = [to |-> o, of |-> d, traj_id |-> version'[d]]
      BY <1>2, <2>2
    <3>2. p.of = d /\ p.traj_id = version'[d] /\ p.to = o
      BY <3>1
    <3>3. p \in [to : Drones, of : Drones, traj_id : 1 .. MaxVersion]
      BY <1>1, <3>1
    <3> QED
      BY <1>1, <3>2, <3>3
  <2> QED
    BY <2>1, <2>2
<1>4. lost' \subseteq Drones /\ crashes' \in 0 .. MaxCrashes
  BY DEF NetworkTyped
<1> QED
  BY <1>3, <1>4 DEF NetworkTyped

(* A slot stays good while versions only grow.                             *)
LEMMA SlotsStay ==
  ASSUME SwarmInv, UNCHANGED slots, \A e \in Drones : version[e] \in Nat /\ version'[e] \in Nat /\ version[e] <= version'[e]
  PROVE  SlotsHeld'
<1> SUFFICES ASSUME NEW d \in Drones, NEW i \in DOMAIN slots[d], slots[d][i].drone_id # Nobody
             PROVE  /\ slots[d][i].drone_id = i - 1 /\ slots[d][i].of = i - 1
                    /\ slots[d][i].traj_id \in 1 .. version'[i - 1]
  BY DEF SlotsHeld
<1>1. /\ slots[d][i].drone_id = i - 1 /\ slots[d][i].of = i - 1
      /\ slots[d][i].traj_id \in 1 .. version[i - 1]
  BY DEF SwarmInv, SlotsHeld
<1>2. i - 1 \in Drones
  <2>1. slots[d] \in Seq(SlotType) /\ Len(slots[d]) <= N
    BY DEF SwarmInv, BuffersOK, Lengths
  <2>2. DOMAIN slots[d] = 1 .. Len(slots[d]) /\ Len(slots[d]) \in Nat
    BY <2>1, LenProperties
  <2>3. i \in 1 .. Len(slots[d])
    BY <2>2
  <2> QED
    BY <2>1, <2>2, <2>3, DroneNumbers DEF Drones
<1>3. version[i - 1] \in Nat /\ version'[i - 1] \in Nat /\ version[i - 1] <= version'[i - 1]
  BY <1>2
<1> QED
  BY <1>1, <1>3

LEMMA ReplanKeeps ==
  ASSUME SwarmInv, NEW d \in Drones, Replan(d) PROVE SwarmInv'
<1>1. /\ UNCHANGED <<odom, start, flying, in_turn, recv_pre, bridge, link, server, source, ended, lost, crashes>>
      /\ UNCHANGED <<multi, slots, outbox, wire, parsed, backlog>>
      /\ flying[d] /\ version[d] < MaxVersion /\ version' = [version EXCEPT ![d] = @ + 1]
      /\ Broadcast(d)
  BY SameStarted DEF Replan, sockets, buffers
<1>2. version \in [Drones -> 0 .. MaxVersion] /\ version[d] \in 0 .. MaxVersion
  BY DEF SwarmInv, PlannersTyped
<1>3. /\ version' \in [Drones -> 0 .. MaxVersion] /\ version'[d] = version[d] + 1
      /\ \A e \in Drones : e # d => version'[e] = version[e]
  BY <1>1, <1>2, DroneNumbers
<1>4. \A e \in Drones : version[e] \in Nat /\ version'[e] \in Nat /\ version[e] <= version'[e]
  BY <1>2, <1>3, DroneNumbers
<1>5. PlannersTyped'
  BY <1>1, <1>3 DEF SwarmInv, PlannersTyped
<1>6. NetworkTyped' /\ \A p \in air' : p.traj_id <= version'[p.of]
  <2>1. NetworkTyped /\ \A p \in air : p.traj_id <= version[p.of]
    BY DEF SwarmInv, Planned
  <2>2. version'[d] >= 1
    BY <1>2, <1>3, DroneNumbers
  <2> QED
    BY <1>1, <1>2, <1>3, <1>4, <2>1, <2>2, BroadcastKeeps
<1>7. \A e \in Drones : IF flying'[e] THEN version'[e] >= 1 ELSE version'[e] = 0
  <2>1. \A e \in Drones : IF flying[e] THEN version[e] >= 1 ELSE version[e] = 0
    BY DEF SwarmInv, Planned
  <2>2. ASSUME NEW e \in Drones PROVE IF flying'[e] THEN version'[e] >= 1 ELSE version'[e] = 0
    <3>1. CASE e = d
      <4>1. flying'[e] /\ version'[e] >= 1
        BY <1>1, <1>2, <1>3, <3>1
      <4> QED
        BY <4>1
    <3>2. CASE e # d
      BY <1>1, <1>3, <2>1, <3>2, Zenon
    <3> QED
      BY <3>1, <3>2
  <2> QED
    BY <2>2
<1>8. Planned'
  BY <1>6, <1>7 DEF Planned
<1>9. SlotsHeld'
  BY <1>1, <1>4, SlotsStay
<1>10. /\ SocketsTyped' /\ BuffersOK' /\ Lengths' /\ ServersRead' /\ SentOnce'
       /\ MadeOfIt' /\ HoldsTheChain' /\ StartsInOrder'
  BY <1>1, LeftAlone
<1> QED
  BY <1>5, <1>6, <1>8, <1>9, <1>10 DEF SwarmInv

LEMMA TriggerComesKeeps ==
  ASSUME SwarmInv, NEW d \in Drones, TriggerComes(d) PROVE SwarmInv'
<1>1. /\ UNCHANGED <<odom, flying, recv_pre, version, bridge, link, server, source, ended, air, lost, crashes>>
      /\ UNCHANGED <<multi, slots, outbox, wire, parsed, backlog>>
  BY DEF TriggerComes, sockets, buffers
<1>2. UNCHANGED in_turn
  BY StartsNobody DEF SwarmInv
<1>3. PlannersTyped'
  <2>1. PlannersTyped
    BY DEF SwarmInv
  <2>2. PICK s \in {"SEQUENTIAL_START", "GEN_NEW_TRAJ"} : start' = [start EXCEPT ![d] = s]
    BY DEF TriggerComes
  <2> QED
    BY <1>1, <2>1, <2>2 DEF PlannersTyped
<1>4. Planned'
  BY <1>1 DEF SwarmInv, Planned
<1>5. SentOnce' /\ MadeOfIt' /\ HoldsTheChain'
  BY <1>1, <1>2, LeftAlone
<1>6. /\ SocketsTyped' /\ NetworkTyped' /\ BuffersOK' /\ Lengths' /\ ServersRead'
      /\ StartsInOrder' /\ SlotsHeld'
  BY <1>1, <1>2, LeftAlone
<1> QED
  BY <1>3, <1>4, <1>5, <1>6 DEF SwarmInv

LEMMA GenNewTrajKeeps ==
  ASSUME SwarmInv, NEW d \in Drones, GenNewTraj(d) PROVE SwarmInv'
<1>1. /\ UNCHANGED <<odom, start, recv_pre, bridge, link, server, source, ended, lost, crashes>>
      /\ UNCHANGED <<multi, slots, outbox, wire, parsed, backlog>>
      /\ start[d] = "GEN_NEW_TRAJ" /\ ~flying[d] /\ flying' = [flying EXCEPT ![d] = TRUE]
      /\ version' = [version EXCEPT ![d] = 1] /\ Broadcast(d)
  BY DEF GenNewTraj, sockets, buffers
<1>2. UNCHANGED in_turn
  BY StartsNobody DEF SwarmInv
<1>3. version \in [Drones -> 0 .. MaxVersion] /\ flying \in [Drones -> BOOLEAN] /\ version[d] = 0
  BY <1>1 DEF SwarmInv, PlannersTyped, Planned
<1>4. /\ version' \in [Drones -> 0 .. MaxVersion] /\ version'[d] = 1
      /\ \A e \in Drones : e # d => version'[e] = version[e]
  BY <1>1, <1>3, DroneNumbers
<1>5. \A e \in Drones : version[e] \in Nat /\ version'[e] \in Nat /\ version[e] <= version'[e]
  BY <1>3, <1>4, DroneNumbers
<1>6. PlannersTyped'
  <2>1. PlannersTyped
    BY DEF SwarmInv
  <2> QED
    BY <1>1, <1>4, <2>1 DEF PlannersTyped
<1>7. NetworkTyped' /\ \A p \in air' : p.traj_id <= version'[p.of]
  <2>1. NetworkTyped /\ \A p \in air : p.traj_id <= version[p.of]
    BY DEF SwarmInv, Planned
  <2>2. version'[d] >= 1
    BY <1>4
  <2> QED
    BY <1>1, <1>3, <1>4, <1>5, <2>1, <2>2, BroadcastKeeps
<1>8. Planned'
  <2>1. ASSUME NEW e \in Drones PROVE IF flying'[e] THEN version'[e] >= 1 ELSE version'[e] = 0
    <3>1. IF flying[e] THEN version[e] >= 1 ELSE version[e] = 0
      BY DEF SwarmInv, Planned
    <3>2. flying'[d] /\ (e # d => flying'[e] = flying[e])
      BY <1>1, <1>3
    <3>3. CASE e = d
      <4>1. version'[e] >= 1
        BY <1>4, <3>3
      <4> QED
        BY <3>2, <3>3, <4>1
    <3>4. CASE e # d
      BY <1>4, <3>1, <3>2, <3>4, Zenon
    <3> QED
      BY <3>3, <3>4
  <2> QED
    BY <1>7, <2>1 DEF Planned
<1>9. SlotsHeld'
  BY <1>1, <1>5, SlotsStay
<1>10. SentOnce' /\ MadeOfIt' /\ HoldsTheChain'
  BY <1>1, <1>2, LeftAlone
<1>11. SocketsTyped' /\ BuffersOK' /\ Lengths' /\ ServersRead' /\ StartsInOrder'
  BY <1>1, <1>2, LeftAlone
<1> QED
  BY <1>6, <1>7, <1>8, <1>9, <1>10, <1>11 DEF SwarmInv

(* What a drone sends on is the message it holds and its own trajectory.   *)
LEMMA WithOwnIsStart ==
  ASSUME NEW d \in Drones, version'[d] = 1, NEW m,
         d = 0 => m = Message(0, <<>>), d > 0 => m = StartMessage(d - 1)
  PROVE  WithOwn(d, m) = StartMessage(d)
<1>1. d \in Nat
  BY DroneNumbers
<1>2. m.traj = Chain(d)
  <2>1. CASE d = 0
    <3>1. Chain(0) = <<>>
      BY DEF Chain
    <3> QED
      BY <2>1, <3>1 DEF Message
  <2>2. CASE d # 0
    <3>1. d > 0 /\ (d - 1) + 1 = d
      BY <1>1, <2>2
    <3>2. d - 1 \in Drones
      BY <1>1, <3>1, DroneNumbers DEF Drones
    <3> QED
      BY <3>1, <3>2, StartMessages
  <2> QED
    BY <2>1, <2>2
<1>3. Len(m.traj) = d /\ Len(m.traj) # d + 1
  BY <1>1, <1>2, ChainLength
<1>4. WithOwn(d, m) = Message(d, Append(m.traj, Bspline(d, version'[d])))
  BY <1>3, Zenon DEF WithOwn
<1>5. Append(Chain(d), Bspline(d, 1)) = Chain(d + 1)
  BY <1>1, ChainOn
<1> QED
  BY <1>2, <1>4, <1>5 DEF StartMessage

LEMMA SequentialStartKeeps ==
  ASSUME SwarmInv, NEW d \in Drones, SequentialStart(d) PROVE SwarmInv'
<1> DEFINE m == WithOwn(d, multi[d])
<1>1. /\ ~in_turn[d] /\ (d > 0 => recv_pre[d]) /\ version' = [version EXCEPT ![d] = 1]
      /\ multi' = [multi EXCEPT ![d] = m] /\ Broadcast(d)
      /\ UNCHANGED <<odom, recv_pre, slots, wire, parsed, crashes, bridge, link, server, backlog, source, ended>>
  <2>1. ~in_turn[d]
    BY StartsInTurn DEF SwarmInv
  <2> QED
    BY <2>1 DEF SequentialStart, Ready, sockets
<1>2. \/ lost' = lost \cup {d} /\ UNCHANGED outbox
      \/ UNCHANGED lost /\ outbox' = [outbox EXCEPT ![d] = <<multi'[d]>>]
  BY DEF SequentialStart
<1> HIDE DEF m
<1>3. /\ version \in [Drones -> 0 .. MaxVersion]
      /\ multi \in [Drones -> Messages] /\ outbox \in [Drones -> Seq(Messages)]
  BY DEF SwarmInv, PlannersTyped, BuffersOK
<1>4. in_turn'[d] /\ \A e \in Drones : e # d => in_turn'[e] = in_turn[e]
  BY StartsInTurn DEF SwarmInv
<1>5. \A e \in Drones : in_turn[e] => in_turn'[e]
  BY <1>4
<1>6. version[d] = 0
  <2>1. ~flying[d]
    BY DEF SequentialStart
  <2> QED
    BY <2>1 DEF SwarmInv, Planned
<1>7. /\ version' \in [Drones -> 0 .. MaxVersion] /\ version'[d] = 1
      /\ \A e \in Drones : e # d => version'[e] = version[e]
  BY <1>1, <1>3, DroneNumbers
<1>8. \A e \in Drones : version[e] \in Nat /\ version'[e] \in Nat /\ version[e] <= version'[e]
  <2>1. ASSUME NEW e \in Drones
        PROVE  version[e] \in Nat /\ version'[e] \in Nat /\ version[e] <= version'[e]
    <3>1. version[e] \in Nat
      BY <1>3, DroneNumbers
    <3>2. CASE e = d
      BY <1>6, <1>7, <3>2
    <3>3. CASE e # d
      BY <1>7, <3>1, <3>3
    <3> QED
      BY <3>2, <3>3
  <2> QED
    BY <2>1
<1>9. m = StartMessage(d)
  <2>1. /\ d = 0 => multi[d] = Message(0, <<>>)
        /\ d > 0 /\ recv_pre[d] => multi[d] = StartMessage(d - 1)
    BY <1>1 DEF SwarmInv, HoldsTheChain
  <2> QED
    BY <1>1, <1>7, <2>1, WithOwnIsStart DEF m
<1>10. /\ multi' \in [Drones -> Messages] /\ multi'[d] = StartMessage(d)
       /\ \A e \in Drones : e # d => multi'[e] = multi[e]
  <2>1. m \in Messages
    BY <1>9, StartMessages
  <2> QED
    BY <1>1, <1>3, <1>9, <2>1
<1>11. /\ outbox' \in [Drones -> Seq(Messages)]
       /\ \A e \in Drones : e # d => outbox'[e] = outbox[e]
       /\ outbox'[d] = outbox[d] \/ outbox'[d] = <<StartMessage(d)>>
  <2> DEFINE s == <<multi'[d]>>
  <2>1. s \in Seq(Messages) /\ s = <<StartMessage(d)>>
    BY <1>10, StartMessages, Alone
  <2>2. outbox' = outbox \/ outbox' = [outbox EXCEPT ![d] = s]
    BY <1>2
  <2> HIDE DEF s
  <2> QED
    BY <1>3, <2>1, <2>2
<1>12. outbox[d] = <<>> /\ wire[d] = <<>>
  BY <1>1 DEF SwarmInv, SentOnce
<1>13. PlannersTyped'
  <2>1. odom' \in [Drones -> BOOLEAN] /\ recv_pre' \in [Drones -> BOOLEAN]
    BY <1>1 DEF SwarmInv, PlannersTyped
  <2>2. /\ flying' = [flying EXCEPT ![d] = TRUE] /\ flying \in [Drones -> BOOLEAN]
        /\ start[d] = "SEQUENTIAL_START" /\ start' = start
        /\ start \in [Drones -> {"none", "SEQUENTIAL_START", "GEN_NEW_TRAJ"}]
        /\ \A e \in Drones : flying[e] => start[e] # "none"
    BY DEF SwarmInv, PlannersTyped, SequentialStart
  <2>3. ASSUME NEW e \in Drones, flying'[e] PROVE start'[e] # "none"
    BY <2>2, <2>3
  <2>4. flying' \in [Drones -> BOOLEAN] /\ start' \in [Drones -> {"none", "SEQUENTIAL_START", "GEN_NEW_TRAJ"}]
    BY <2>2
  <2> QED
    BY <1>7, <2>1, <2>3, <2>4 DEF PlannersTyped
<1>14. NetworkTyped' /\ \A p \in air' : p.traj_id <= version'[p.of]
  <2>1. NetworkTyped /\ \A p \in air : p.traj_id <= version[p.of]
    BY DEF SwarmInv, Planned
  <2>2. version'[d] >= 1 /\ \A e \in Drones : version[e] <= version'[e]
    BY <1>7, <1>8
  <2>3. UNCHANGED <<lost, crashes>> \/ (lost' = lost \cup {d} /\ UNCHANGED crashes)
    BY <1>1, <1>2
  <2> QED
    BY <1>1, <1>3, <1>7, <2>1, <2>2, <2>3, BroadcastKeeps
<1>15. BuffersOK'
  <2>1. /\ slots' \in [Drones -> Seq(SlotType)] /\ wire' \in [Drones -> Seq(Messages)]
        /\ parsed' \in [Drones -> Seq(Messages)] /\ backlog' \in [Drones -> Seq(Drones \cup {Nobody})]
    BY <1>1 DEF SwarmInv, BuffersOK
  <2> QED
    BY <1>10, <1>11, <2>1 DEF BuffersOK
<1>16. Lengths'
  <2>1. Lengths
    BY DEF SwarmInv
  <2>2. Len(multi'[d].traj) <= N
    BY <1>10, StartMessages
  <2>3. Len(outbox'[d]) <= 1
    <3> DEFINE s == <<StartMessage(d)>>
    <3>1. Len(s) = 1
      BY StartMessages, Alone
    <3>2. Len(outbox[d]) <= 1
      BY <2>1 DEF Lengths
    <3>3. outbox'[d] = outbox[d] \/ outbox'[d] = s
      BY <1>11
    <3>4. Len(s) <= 1
      BY <3>1
    <3> HIDE DEF s
    <3> QED
      BY <3>2, <3>3, <3>4, Zenon
  <2>4. ASSUME NEW e \in Drones
        PROVE  /\ Len(multi'[e].traj) <= N /\ Len(slots'[e]) <= N /\ Len(backlog'[e]) <= Backlog + 1
               /\ Len(outbox'[e]) <= 1 /\ Len(wire'[e]) <= 1 /\ Len(parsed'[e]) <= MaxReads
    BY <1>1, <1>10, <1>11, <2>1, <2>2, <2>3 DEF Lengths
  <2> QED
    BY <2>4 DEF Lengths
<1>17. SentOnce'
  <2>1. ASSUME NEW s \in Drones
        PROVE  /\ outbox'[s] # <<>> => in_turn'[s] /\ outbox'[s] = <<StartMessage(s)>>
               /\ wire'[s] # <<>> => in_turn'[s] /\ wire'[s] = <<StartMessage(s)>>
               /\ outbox'[s] = <<>> \/ wire'[s] = <<>>
    <3>1. /\ outbox[s] # <<>> => in_turn[s] /\ outbox[s] = <<StartMessage(s)>>
          /\ wire[s] # <<>> => in_turn[s] /\ wire[s] = <<StartMessage(s)>>
          /\ outbox[s] = <<>> \/ wire[s] = <<>>
      BY DEF SwarmInv, SentOnce
    <3>2. wire'[s] = wire[s]
      BY <1>1
    <3>3. CASE s = d
      BY <1>4, <1>11, <1>12, <3>2, <3>3
    <3>4. CASE s # d
      BY <1>4, <1>11, <3>1, <3>2, <3>4
    <3> QED
      BY <3>3, <3>4
  <2> QED
    BY <2>1 DEF SentOnce
<1>18. MadeOfIt'
  <2>1. ASSUME NEW e \in Drones, parsed[e] # <<>>
        PROVE  /\ in_turn'[source[e]] /\ outbox'[source[e]] = <<>> /\ wire[source[e]] = <<>>
               /\ parsed[e] = <<StartMessage(source[e])>> \/ AllUnfit(parsed[e])
    <3>1. /\ in_turn[source[e]] /\ outbox[source[e]] = <<>> /\ wire[source[e]] = <<>>
          /\ parsed[e] = <<StartMessage(source[e])>> \/ AllUnfit(parsed[e])
      BY <2>1 DEF SwarmInv, MadeOfIt
    <3>2. source[e] \in Drones
      BY <2>1 DEF SwarmInv, ServersRead, SocketsTyped
    <3>3. source[e] # d
      BY <1>1, <3>1
    <3> QED
      BY <1>4, <1>11, <3>1, <3>2, <3>3
  <2> QED
    BY <1>1, <2>1 DEF MadeOfIt
<1>19. HoldsTheChain'
  <2>1. ASSUME NEW e \in Drones, ~in_turn'[e]
        PROVE  /\ e = 0 => multi'[e] = Message(0, <<>>)
               /\ e > 0 /\ recv_pre[e] => /\ multi'[e] = StartMessage(e - 1)
                                          /\ in_turn'[e - 1] /\ outbox'[e - 1] = <<>> /\ wire[e - 1] = <<>>
                                          /\ parsed[e] = <<>>
    <3>1. e # d /\ ~in_turn[e]
      BY <1>4, <1>5, <2>1
    <3>2. /\ e = 0 => multi[e] = Message(0, <<>>)
          /\ e > 0 /\ recv_pre[e] => /\ multi[e] = StartMessage(e - 1)
                                     /\ in_turn[e - 1] /\ outbox[e - 1] = <<>> /\ wire[e - 1] = <<>>
                                     /\ parsed[e] = <<>>
      BY <3>1 DEF SwarmInv, HoldsTheChain
    <3>3. multi'[e] = multi[e]
      BY <1>10, <3>1
    <3>4. e > 0 /\ recv_pre[e] => e - 1 \in Drones /\ e - 1 # d
      BY <1>1, <3>2, DroneNumbers DEF Drones
    <3> QED
      BY <1>4, <1>11, <3>2, <3>3, <3>4
  <2> QED
    BY <1>1, <2>1 DEF HoldsTheChain
<1>20. Planned'
  <2>1. ASSUME NEW e \in Drones PROVE IF flying'[e] THEN version'[e] >= 1 ELSE version'[e] = 0
    <3>1. IF flying[e] THEN version[e] >= 1 ELSE version[e] = 0
      BY DEF SwarmInv, Planned
    <3>2. flying'[d] /\ (e # d => flying'[e] = flying[e])
      BY DEF SequentialStart, SwarmInv, PlannersTyped
    <3>3. CASE e = d
      <4>1. version'[e] >= 1
        BY <1>7, <3>3
      <4> QED
        BY <3>2, <3>3, <4>1
    <3>4. CASE e # d
      BY <1>7, <3>1, <3>2, <3>4, Zenon
    <3> QED
      BY <3>3, <3>4
  <2> QED
    BY <1>14, <2>1 DEF Planned
<1>21. StartsInOrder'
  <2>1. ASSUME NEW b \in Drones, NEW e \in Drones, in_turn'[b], e < b PROVE in_turn'[e]
    <3>1. \A x, y \in Drones : in_turn[x] /\ y < x => in_turn[y]
      BY DEF SwarmInv, StartsInOrder
    <3>2. CASE in_turn[b]
      BY <1>5, <2>1, <3>1, <3>2
    <3>3. CASE ~in_turn[b]
      <4>1. b = d
        BY <1>4, <2>1, <3>3
      <4>2. d > 0 /\ d \in Nat /\ e \in Nat /\ d - 1 \in Drones
        BY <2>1, <4>1, DroneNumbers DEF Drones
      <4>3. in_turn[d - 1]
        BY <1>1, <4>2 DEF SwarmInv, HoldsTheChain
      <4>4. e = d - 1 \/ e < d - 1
        BY <2>1, <4>1, <4>2
      <4> QED
        BY <1>5, <3>1, <4>2, <4>3, <4>4
    <3> QED
      BY <3>2, <3>3
  <2> QED
    BY <2>1 DEF StartsInOrder
<1>22. SlotsHeld'
  BY <1>1, <1>8, SlotsStay
<1>23. SocketsTyped' /\ ServersRead'
  BY <1>1, LeftAlone
<1> QED
  BY <1>13, <1>14, <1>15, <1>16, <1>17, <1>18, <1>19, <1>20, <1>21, <1>22, <1>23 DEF SwarmInv

(* Room for the trajectory of drone n - 1.                                 *)
LEMMA FilledSlots ==
  ASSUME NEW s \in Seq(SlotType), NEW n \in Nat, Len(s) < n
  PROVE  /\ Filled(s, n) \in Seq(SlotType) /\ Len(Filled(s, n)) = n
         /\ \A i \in 1 .. Len(s) : Filled(s, n)[i] = s[i]
         /\ \A i \in 1 .. n : i > Len(s) => Filled(s, n)[i] = Unused
<1> DEFINE f == [i \in 1 .. n - Len(s) |-> Unused]
           L == Len(s)
<1>1. L \in Nat /\ n - L \in Nat
  BY LenProperties
<1>2. Unused \in SlotType
  BY DEF Unused, SlotType, Nobody
<1>3. f \in Seq(SlotType) /\ Len(f) = n - L /\ \A i \in 1 .. n - L : f[i] = Unused
  BY <1>1, <1>2
<1>4. Filled(s, n) = s \o f
  BY DEF Filled
<1> HIDE DEF f
<1>5. /\ s \o f \in Seq(SlotType) /\ Len(s \o f) = Len(s) + Len(f)
      /\ \A i \in 1 .. Len(s) + Len(f) : (s \o f)[i] = IF i <= Len(s) THEN s[i] ELSE f[i - Len(s)]
  BY <1>3, ConcatProperties, Zenon
<1> DEFINE g == s \o f
<1> HIDE DEF g
<1>6. g \in Seq(SlotType) /\ Len(g) = n /\ \A i \in 1 .. n : g[i] = IF i <= L THEN s[i] ELSE f[i - L]
  BY <1>1, <1>3, <1>5 DEF g
<1>7. ASSUME NEW i \in 1 .. L PROVE g[i] = s[i]
  <2>1. i \in 1 .. n /\ i <= L
    BY <1>1
  <2> QED
    BY <1>6, <2>1
<1>8. ASSUME NEW i \in 1 .. n, i > L PROVE g[i] = Unused
  <2>1. ~(i <= L) /\ i - L \in 1 .. n - L
    BY <1>1, <1>8
  <2> QED
    BY <1>3, <1>6, <2>1
<1> QED
  BY <1>4, <1>6, <1>7, <1>8 DEF g

(* What BroadcastBspline makes of the slots of d.                          *)
GoodSlots(s, ver) ==
  /\ s \in Seq(SlotType) /\ Len(s) <= N
  /\ \A i \in 1 .. Len(s) : s[i].drone_id # Nobody =>
       s[i].drone_id = i - 1 /\ s[i].of = i - 1 /\ s[i].traj_id \in 1 .. ver[i - 1]

LEMMA SlotsAreGood ==
  ASSUME SwarmInv, NEW d \in Drones
  PROVE  GoodSlots(slots[d], version)
<1>1. slots[d] \in Seq(SlotType) /\ Len(slots[d]) <= N
  BY DEF SwarmInv, BuffersOK, Lengths
<1>2. DOMAIN slots[d] = 1 .. Len(slots[d])
  BY <1>1, LenProperties
<1> QED
  BY <1>1, <1>2 DEF SwarmInv, SlotsHeld, GoodSlots

LEMMA Roomy ==
  ASSUME NEW s, NEW o \in Drones, NEW v \in [Drones -> Nat], GoodSlots(s, v),
         NEW room, room = IF Len(s) <= o THEN Filled(s, o + 1) ELSE s
  PROVE  GoodSlots(room, v) /\ o + 1 \in 1 .. Len(room)
<1>1. o \in Nat /\ o + 1 \in Nat /\ o + 1 <= N
  BY DroneNumbers
<1>2. s \in Seq(SlotType) /\ Len(s) \in Nat /\ Len(s) <= N
  BY LenProperties DEF GoodSlots
<1>3. CASE Len(s) <= o
  <2>1. room = Filled(s, o + 1) /\ Len(s) < o + 1
    BY <1>1, <1>2, <1>3
  <2>2. /\ room \in Seq(SlotType) /\ Len(room) = o + 1
        /\ \A i \in 1 .. Len(s) : room[i] = s[i]
        /\ \A i \in 1 .. o + 1 : i > Len(s) => room[i] = Unused
    BY <1>1, <1>2, <2>1, FilledSlots
  <2>3. ASSUME NEW i \in 1 .. Len(room), room[i].drone_id # Nobody
        PROVE  room[i].drone_id = i - 1 /\ room[i].of = i - 1 /\ room[i].traj_id \in 1 .. v[i - 1]
    <3>1. CASE i > Len(s)
      <4>1. room[i] = Unused
        BY <2>2, <3>1
      <4> QED
        BY <2>3, <4>1 DEF Unused
    <3>2. CASE ~(i > Len(s))
      <4>1. i \in 1 .. Len(s)
        BY <1>1, <1>2, <2>2, <3>2
      <4>2. room[i] = s[i]
        BY <2>2, <4>1
      <4> QED
        BY <2>3, <4>1, <4>2 DEF GoodSlots
    <3> QED
      BY <3>1, <3>2
  <2> QED
    BY <1>1, <2>2, <2>3 DEF GoodSlots
<1>4. CASE ~(Len(s) <= o)
  <2>1. room = s /\ o + 1 <= Len(s)
    BY <1>1, <1>2, <1>4
  <2> QED
    BY <1>1, <1>2, <2>1
<1> QED
  BY <1>3, <1>4

LEMMA FarSlot ==
  ASSUME NEW room, NEW i \in 1 .. Len(room), NEW v, GoodSlots(room, v)
  PROVE  GoodSlots([room EXCEPT ![i].drone_id = Nobody], v)
<1> DEFINE e == [room[i] EXCEPT !.drone_id = Nobody]
           new == [room EXCEPT ![i] = e]
<1>1. room \in Seq(SlotType) /\ Len(room) <= N
  BY DEF GoodSlots
<1>2. room[i] \in SlotType
  BY <1>1, ElementOfSeq
<1>3. e \in SlotType /\ e.drone_id = Nobody
  BY <1>2 DEF SlotType, Nobody
<1>4. [room EXCEPT ![i].drone_id = Nobody] = new
  OBVIOUS
<1> HIDE DEF e
<1>5. /\ new \in Seq(SlotType) /\ Len(new) = Len(room)
      /\ \A j \in 1 .. Len(room) : new[j] = IF j = i THEN e ELSE room[j]
  BY <1>1, <1>3, ExceptSeq
<1> HIDE DEF new
<1>6. GoodSlots(new, v)
  BY <1>1, <1>3, <1>5 DEF GoodSlots
<1> QED
  BY <1>4, <1>6

LEMMA HeardSlot ==
  ASSUME NEW room, NEW o \in Drones, o + 1 \in 1 .. Len(room), NEW v, GoodSlots(room, v),
         NEW t \in Nat, t \in 1 .. v[o]
  PROVE  GoodSlots([room EXCEPT ![o + 1] = Slot(o, Bspline(o, t))], v)
<1> DEFINE e == Slot(o, Bspline(o, t))
           new == [room EXCEPT ![o + 1] = e]
<1>1. room \in Seq(SlotType) /\ Len(room) <= N /\ o \in Nat
  BY DroneNumbers DEF GoodSlots
<1>2. e = [drone_id |-> o, of |-> o, traj_id |-> t]
  BY DEF Slot, Bspline
<1>3. e \in SlotType /\ e.drone_id = o /\ e.of = o /\ e.traj_id = t
  BY <1>1, <1>2 DEF SlotType
<1> HIDE DEF e
<1>5. /\ new \in Seq(SlotType) /\ Len(new) = Len(room)
      /\ \A j \in 1 .. Len(room) : new[j] = IF j = o + 1 THEN e ELSE room[j]
  BY <1>1, <1>3, ExceptSeq
<1> HIDE DEF new
<1>6. ASSUME NEW j \in 1 .. Len(new), new[j].drone_id # Nobody
      PROVE  new[j].drone_id = j - 1 /\ new[j].of = j - 1 /\ new[j].traj_id \in 1 .. v[j - 1]
  <2>1. CASE j = o + 1
    <3>1. j - 1 = o /\ new[j] = e
      BY <1>1, <1>5, <2>1
    <3> QED
      BY <1>3, <3>1
  <2>2. CASE j # o + 1
    BY <1>5, <1>6, <2>2 DEF GoodSlots
  <2> QED
    BY <2>1, <2>2
<1>7. GoodSlots(new, v)
  BY <1>1, <1>5, <1>6 DEF GoodSlots
<1> QED
  BY <1>7 DEF new, e

LEMMA BroadcastBsplineKeeps ==
  ASSUME SwarmInv, NEW d \in Drones, BroadcastBspline(d) PROVE SwarmInv'
<1>1. /\ UNCHANGED <<odom, start, flying, in_turn, recv_pre, multi, version, lost, crashes>>
      /\ UNCHANGED <<bridge, link, server, backlog, source, ended, outbox, wire, parsed>>
  BY SameStarted DEF BroadcastBspline, sockets, buffers
<1> DEFINE Room(p) == IF Len(slots[d]) <= p.of THEN Filled(slots[d], p.of + 1) ELSE slots[d]
           Far(p) == [Room(p) EXCEPT ![p.of + 1].drone_id = Nobody]
           Heard(p) == [Room(p) EXCEPT ![p.of + 1] = Slot(p.of, Bspline(p.of, p.traj_id))]
<1>2. PICK p \in air : /\ \/ slots' = [slots EXCEPT ![d] = slots[d]]
                          \/ slots' = [slots EXCEPT ![d] = Far(p)]
                          \/ slots' = [slots EXCEPT ![d] = Heard(p)]
                       /\ air' = air \ {p}
  <2>1. PICK p \in air, far \in BOOLEAN :
          /\ slots' = [slots EXCEPT ![d] =
               IF p.of = d THEN slots[d] ELSE IF far THEN Far(p) ELSE Heard(p)]
          /\ air' = air \ {p}
    BY Zenon DEF BroadcastBspline
  <2> HIDE DEF Far, Heard
  <2> QED
    BY <2>1
<1>3. p \in [to : Drones, of : Drones, traj_id : 1 .. MaxVersion] /\ p.traj_id <= version[p.of]
  BY DEF SwarmInv, NetworkTyped, Planned
<1>4. p.of \in Drones /\ p.traj_id \in Nat /\ version[p.of] \in Nat /\ p.traj_id \in 1 .. version[p.of]
  <2>1. version[p.of] \in Nat
    BY <1>3, DroneNumbers DEF SwarmInv, PlannersTyped
  <2> QED
    BY <1>3, <2>1
<1>5. GoodSlots(slots[d], version)
  BY SlotsAreGood
<1>6. version \in [Drones -> Nat]
  BY DroneNumbers DEF SwarmInv, PlannersTyped
<1>7. GoodSlots(Room(p), version) /\ p.of + 1 \in 1 .. Len(Room(p))
  <2> DEFINE o == p.of
             room == IF Len(slots[d]) <= o THEN Filled(slots[d], o + 1) ELSE slots[d]
  <2>1. o \in Drones
    BY <1>4
  <2>2. GoodSlots(room, version) /\ o + 1 \in 1 .. Len(room)
    BY <1>5, <1>6, <2>1, Roomy
  <2> QED
    BY <2>2
<1> HIDE DEF Room
<1>8. GoodSlots(Far(p), version)
  BY <1>7, FarSlot
<1>9. GoodSlots(Heard(p), version)
  BY <1>4, <1>7, HeardSlot
<1>10. slots \in [Drones -> Seq(SlotType)]
  BY DEF SwarmInv, BuffersOK
<1>11. \A e \in Drones : GoodSlots(slots'[e], version)
  <2>1. ASSUME NEW new, GoodSlots(new, version), slots' = [slots EXCEPT ![d] = new]
        PROVE  \A e \in Drones : GoodSlots(slots'[e], version)
    <3>1. slots'[d] = new /\ \A e \in Drones : e # d => slots'[e] = slots[e]
      BY <1>10, <2>1
    <3>2. \A e \in Drones : GoodSlots(slots[e], version)
      BY SlotsAreGood
    <3> QED
      BY <2>1, <3>1, <3>2
  <2> HIDE DEF Far, Heard
  <2> QED
    BY <1>2, <1>5, <1>8, <1>9, <2>1
<1>12. slots' \in [Drones -> Seq(SlotType)]
  <2>1. DOMAIN slots' = Drones /\ slots' = [e \in Drones |-> slots'[e]]
    BY <1>2, <1>10
  <2>2. \A e \in Drones : slots'[e] \in Seq(SlotType)
    BY <1>11 DEF GoodSlots
  <2> QED
    BY <2>1, <2>2
<1>13. SlotsHeld' /\ \A e \in Drones : slots'[e] \in Seq(SlotType) /\ Len(slots'[e]) <= N
  <2>1. \A e \in Drones : GoodSlots(slots'[e], version')
    BY <1>1, <1>11
  <2>2. ASSUME NEW e \in Drones
        PROVE  slots'[e] \in Seq(SlotType) /\ Len(slots'[e]) <= N /\ DOMAIN slots'[e] = 1 .. Len(slots'[e])
    <3>1. slots'[e] \in Seq(SlotType) /\ Len(slots'[e]) <= N
      BY <2>1 DEF GoodSlots
    <3> QED
      BY <3>1, LenProperties
  <2>3. SlotsHeld'
    BY <2>1, <2>2 DEF GoodSlots, SlotsHeld
  <2> QED
    BY <2>2, <2>3
<1>14. BuffersOK'
  BY <1>1, <1>12 DEF SwarmInv, BuffersOK
<1>15. Lengths'
  BY <1>1, <1>13 DEF SwarmInv, Lengths
<1>16. NetworkTyped' /\ Planned'
  BY <1>1, <1>2 DEF SwarmInv, NetworkTyped, Planned
<1>17. /\ PlannersTyped' /\ SocketsTyped' /\ ServersRead' /\ SentOnce'
       /\ MadeOfIt' /\ HoldsTheChain' /\ StartsInOrder'
  BY <1>1, LeftAlone
<1> QED
  BY <1>13, <1>14, <1>15, <1>16, <1>17 DEF SwarmInv

LEMMA StartBridgeKeeps ==
  ASSUME SwarmInv, NEW d \in Drones, StartBridge(d) PROVE SwarmInv'
<1>1. /\ UNCHANGED <<odom, start, flying, in_turn, recv_pre, multi, slots, version, air, lost, crashes>>
      /\ UNCHANGED <<backlog, source, ended, outbox, wire, parsed>>
      /\ bridge[d] \in {"off", "dead"}
      /\ bridge' = [bridge EXCEPT ![d] = "listening"]
      /\ server' = [server EXCEPT ![d] = "accepting"]
      /\ link' = [link EXCEPT ![d] = "none"]
  BY SameStarted DEF StartBridge, planners, buffers
<1>2. SocketsTyped
  BY DEF SwarmInv
<1>3. SocketsTyped'
  BY <1>1, <1>2 DEF SocketsTyped
<1>4. /\ bridge'[d] = "listening" /\ \A e \in Drones : e # d => bridge'[e] = bridge[e] /\ server'[e] = server[e]
  BY <1>1, <1>2 DEF SocketsTyped
<1>5. parsed[d] = <<>>
  <2>1. bridge[d] # "listening" /\ bridge[d] # "up"
    BY <1>1
  <2> QED
    BY <2>1 DEF SwarmInv, ServersRead
<1>6. ServersRead'
  <2>1. ASSUME NEW e \in Drones
        PROVE  /\ server'[e] \in {"accepting", "reading"} => bridge'[e] \in {"listening", "up"}
               /\ parsed'[e] # <<>> => server'[e] = "reading" /\ source'[e] # Nobody
               /\ source'[e] # Nobody => NextDrone(source'[e]) = e
               /\ \A i \in DOMAIN backlog'[e] : backlog'[e][i] # Nobody => NextDrone(backlog'[e][i]) = e
    <3>1. /\ server[e] \in {"accepting", "reading"} => bridge[e] \in {"listening", "up"}
          /\ parsed[e] # <<>> => server[e] = "reading" /\ source[e] # Nobody
          /\ source[e] # Nobody => NextDrone(source[e]) = e
          /\ \A i \in DOMAIN backlog[e] : backlog[e][i] # Nobody => NextDrone(backlog[e][i]) = e
      BY DEF SwarmInv, ServersRead
    <3> QED
      BY <1>1, <1>4, <1>5, <3>1
  <2> QED
    BY <2>1 DEF ServersRead
<1>7. /\ PlannersTyped' /\ NetworkTyped' /\ BuffersOK' /\ Lengths' /\ SentOnce'
      /\ MadeOfIt' /\ HoldsTheChain' /\ Planned' /\ StartsInOrder' /\ SlotsHeld'
  BY <1>1, LeftAlone
<1> QED
  BY <1>3, <1>6, <1>7 DEF SwarmInv

LEMMA ConnectKeeps ==
  ASSUME SwarmInv, NEW d \in Drones, Connect(d) PROVE SwarmInv'
<1> DEFINE n == NextDrone(d)
           there == IF n = Nobody \/ Len(backlog[n]) > Backlog THEN "down" ELSE server[n]
           socket == CASE there = "accepting" -> "open"
                       [] there = "reading"   -> "unread"
                       [] OTHER               -> "failed"
<1>1. /\ UNCHANGED <<odom, start, flying, in_turn, recv_pre, multi, slots, version, air, lost, crashes>>
      /\ UNCHANGED <<server, source, ended, outbox, wire, parsed>>
      /\ bridge[d] = "listening" /\ bridge' = [bridge EXCEPT ![d] = "up"]
      /\ link' = [link EXCEPT ![d] = socket]
  BY SameStarted DEF Connect, planners, buffers
<1>2. IF there = "accepting" THEN backlog' = [backlog EXCEPT ![n] = Append(@, d)] ELSE UNCHANGED backlog
  BY DEF Connect
<1>3. socket \in {"open", "unread", "failed"}
  BY Zenon
<1> HIDE DEF socket
<1>4. SocketsTyped'
  BY <1>1, <1>3 DEF SwarmInv, SocketsTyped
<1>5. \/ UNCHANGED backlog
      \/ /\ n \in Drones /\ Len(backlog[n]) <= Backlog
         /\ backlog' = [backlog EXCEPT ![n] = Append(@, d)]
  <2>1. CASE there = "accepting"
    <3>1. n # Nobody /\ ~(Len(backlog[n]) > Backlog)
      BY <2>1
    <3>2. n \in Drones
      BY <3>1, NextDrones
    <3>3. Len(backlog[n]) \in Nat
      BY <3>2, LenProperties DEF SwarmInv, BuffersOK
    <3>4. Len(backlog[n]) <= Backlog
      BY <3>1, <3>3 DEF Backlog
    <3> QED
      BY <1>2, <2>1, <3>2, <3>4
  <2>2. CASE there # "accepting"
    <3> HIDE DEF there
    <3> QED
      BY <1>2, <2>2
  <2> QED
    BY <2>1, <2>2
<1> HIDE DEF there, n
<1>6. \A e \in Drones :
        /\ backlog'[e] \in Seq(Drones \cup {Nobody}) /\ Len(backlog'[e]) <= Backlog + 1
        /\ \A i \in DOMAIN backlog'[e] : backlog'[e][i] # Nobody => NextDrone(backlog'[e][i]) = e
  <2> SUFFICES ASSUME NEW e \in Drones
               PROVE  /\ backlog'[e] \in Seq(Drones \cup {Nobody}) /\ Len(backlog'[e]) <= Backlog + 1
                      /\ \A i \in DOMAIN backlog'[e] : backlog'[e][i] # Nobody => NextDrone(backlog'[e][i]) = e
    OBVIOUS
  <2>1. /\ backlog \in [Drones -> Seq(Drones \cup {Nobody})]
        /\ backlog[e] \in Seq(Drones \cup {Nobody}) /\ Len(backlog[e]) <= Backlog + 1
        /\ \A i \in DOMAIN backlog[e] : backlog[e][i] # Nobody => NextDrone(backlog[e][i]) = e
    BY DEF SwarmInv, BuffersOK, Lengths, ServersRead
  <2>2. CASE UNCHANGED backlog
    BY <2>1, <2>2
  <2>3. CASE /\ n \in Drones /\ Len(backlog[n]) <= Backlog
             /\ backlog' = [backlog EXCEPT ![n] = Append(@, d)]
    <3>1. CASE e # n
      <4>1. backlog'[e] = backlog[e]
        BY <2>1, <2>3, <3>1
      <4> QED
        BY <2>1, <4>1
    <3>2. CASE e = n
      <4> DEFINE b == backlog[e]
                 D == Drones \cup {Nobody}
      <4>1. backlog'[e] = Append(b, d) /\ Len(b) <= Backlog /\ b \in Seq(D) /\ d \in D
        BY <2>1, <2>3, <3>2
      <4>2. \A i \in DOMAIN b : b[i] # Nobody => NextDrone(b[i]) = e
        BY <2>1
      <4>3. NextDrone(d) = e
        BY <3>2 DEF n
      <4> HIDE DEF b, D
      <4>4. /\ Append(b, d) \in Seq(D) /\ Len(Append(b, d)) = Len(b) + 1
            /\ \A i \in 1 .. Len(b) : Append(b, d)[i] = b[i]
            /\ Append(b, d)[Len(b) + 1] = d
        BY <4>1, AppendProperties
      <4>5. Len(b) \in Nat /\ DOMAIN b = 1 .. Len(b)
        BY <4>1, LenProperties
      <4>6. DOMAIN Append(b, d) = 1 .. Len(b) + 1
        BY <4>4, LenProperties
      <4>7. Len(Append(b, d)) <= Backlog + 1
        BY <4>1, <4>4, <4>5 DEF Backlog
      <4>8. ASSUME NEW i \in DOMAIN Append(b, d), Append(b, d)[i] # Nobody
            PROVE  NextDrone(Append(b, d)[i]) = e
        <5>1. i \in 1 .. Len(b) \/ i = Len(b) + 1
          BY <4>5, <4>6
        <5> QED
          BY <4>2, <4>3, <4>4, <4>5, <4>8, <5>1
      <4> QED
        BY <4>1, <4>4, <4>7, <4>8 DEF D
    <3> QED
      BY <3>1, <3>2
  <2> QED
    BY <1>5, <2>2, <2>3
<1>7. DOMAIN backlog' = Drones /\ backlog' = [e \in Drones |-> backlog'[e]]
  BY <1>5 DEF SwarmInv, BuffersOK
<1>8. BuffersOK'
  <2>1. backlog' \in [Drones -> Seq(Drones \cup {Nobody})]
    BY <1>6, <1>7
  <2> QED
    BY <1>1, <2>1 DEF SwarmInv, BuffersOK
<1>9. Lengths'
  BY <1>1, <1>6 DEF SwarmInv, Lengths
<1>10. ServersRead'
  <2>1. \A e \in Drones : bridge[e] \in {"listening", "up"} => bridge'[e] \in {"listening", "up"}
    BY <1>1 DEF SwarmInv, SocketsTyped
  <2> QED
    BY <1>1, <1>6, <2>1 DEF SwarmInv, ServersRead
<1>11. /\ PlannersTyped' /\ NetworkTyped' /\ SentOnce'
       /\ MadeOfIt' /\ HoldsTheChain' /\ Planned' /\ StartsInOrder' /\ SlotsHeld'
  BY <1>1, LeftAlone
<1> QED
  BY <1>4, <1>8, <1>9, <1>10, <1>11 DEF SwarmInv

(* Less on its way takes nothing from the invariant.                       *)
Emptied(b, was) == \A s \in Drones : b[s] = was[s] \/ b[s] = <<>>

LEMMA LessOnItsWay ==
  ASSUME SwarmInv, UNCHANGED <<start, flying, in_turn, multi, recv_pre>>,
         Emptied(outbox', outbox), Emptied(wire', wire), Emptied(parsed', parsed),
         \A d \in Drones : source'[d] = source[d] \/ parsed'[d] = <<>>
  PROVE  SentOnce' /\ MadeOfIt' /\ HoldsTheChain'
<1>1. SentOnce'
  BY DEF SwarmInv, SentOnce, Emptied
<1>2. MadeOfIt'
  <2>1. ASSUME NEW d \in Drones, parsed'[d] # <<>>
        PROVE  /\ in_turn'[source'[d]] /\ outbox'[source'[d]] = <<>> /\ wire'[source'[d]] = <<>>
               /\ parsed'[d] = <<StartMessage(source'[d])>> \/ AllUnfit(parsed'[d])
    <3>1. parsed'[d] = parsed[d] /\ source'[d] = source[d]
      BY <2>1 DEF Emptied
    <3>2. /\ in_turn[source[d]] /\ outbox[source[d]] = <<>> /\ wire[source[d]] = <<>>
          /\ parsed[d] = <<StartMessage(source[d])>> \/ AllUnfit(parsed[d])
      BY <2>1, <3>1 DEF SwarmInv, MadeOfIt
    <3>3. source[d] \in Drones
      BY <2>1, <3>1 DEF SwarmInv, ServersRead, SocketsTyped
    <3> QED
      BY <3>1, <3>2, <3>3 DEF Emptied
  <2> QED
    BY <2>1 DEF MadeOfIt
<1>3. HoldsTheChain'
  <2>1. ASSUME NEW d \in Drones, ~in_turn[d]
        PROVE  /\ d = 0 => multi'[d] = Message(0, <<>>)
               /\ d > 0 /\ recv_pre'[d] => /\ multi'[d] = StartMessage(d - 1)
                                           /\ in_turn'[d - 1] /\ outbox'[d - 1] = <<>> /\ wire'[d - 1] = <<>>
                                           /\ parsed'[d] = <<>>
    <3>1. /\ d = 0 => multi[d] = Message(0, <<>>)
          /\ d > 0 /\ recv_pre[d] => /\ multi[d] = StartMessage(d - 1)
                                     /\ in_turn[d - 1] /\ outbox[d - 1] = <<>> /\ wire[d - 1] = <<>>
                                     /\ parsed[d] = <<>>
      BY <2>1 DEF SwarmInv, HoldsTheChain
    <3>2. d > 0 => d - 1 \in Drones
      BY DroneNumbers DEF Drones
    <3> QED
      BY <3>1, <3>2 DEF Emptied
  <2> QED
    BY <2>1 DEF HoldsTheChain
<1> QED
  BY <1>1, <1>2, <1>3

LEMMA SendMultiKeeps ==
  ASSUME SwarmInv, NEW d \in Drones, SendMulti(d) PROVE SwarmInv'
<1>1. /\ UNCHANGED <<odom, start, flying, in_turn, recv_pre, multi, slots, version, air, crashes>>
      /\ UNCHANGED <<bridge, link, server, backlog, source, ended, parsed>>
      /\ outbox[d] # <<>> /\ outbox' = [outbox EXCEPT ![d] = <<>>]
  BY SameStarted DEF SendMulti, planners, sockets
<1>2. \/ wire' = [wire EXCEPT ![d] = outbox[d]] /\ UNCHANGED lost
      \/ lost' = lost \cup {d} /\ UNCHANGED wire
  BY DEF SendMulti
<1>3. outbox \in [Drones -> Seq(Messages)] /\ wire \in [Drones -> Seq(Messages)]
  BY DEF SwarmInv, BuffersOK
<1> DEFINE None == <<>>
<1>4. None \in Seq(Messages) /\ Len(None) = 0
  OBVIOUS
<1>5. outbox' = [outbox EXCEPT ![d] = None]
  BY <1>1
<1>6. /\ outbox' \in [Drones -> Seq(Messages)] /\ outbox'[d] = None
      /\ \A e \in Drones : e # d => outbox'[e] = outbox[e]
  <2> HIDE DEF None
  <2> QED
    BY <1>3, <1>4, <1>5
<1>7. /\ wire' \in [Drones -> Seq(Messages)] /\ (wire'[d] = outbox[d] \/ wire'[d] = wire[d])
      /\ \A e \in Drones : e # d => wire'[e] = wire[e]
  BY <1>2, <1>3
<1>8. BuffersOK'
  BY <1>1, <1>6, <1>7 DEF SwarmInv, BuffersOK
<1>9. Lengths'
  <2>1. Lengths
    BY DEF SwarmInv
  <2>2. ASSUME NEW e \in Drones PROVE Len(outbox'[e]) <= 1 /\ Len(wire'[e]) <= 1
    <3>1. Len(outbox[e]) <= 1 /\ Len(wire[e]) <= 1 /\ Len(None) <= 1
      BY <1>4, <2>1 DEF Lengths
    <3> HIDE DEF None
    <3>2. CASE e = d
      BY <1>6, <1>7, <3>1, <3>2
    <3>3. CASE e # d
      BY <1>6, <1>7, <3>1, <3>3
    <3> QED
      BY <3>2, <3>3
  <2> QED
    BY <1>1, <2>1, <2>2 DEF Lengths
<1>10. /\ in_turn[d] /\ outbox[d] = <<StartMessage(d)>> /\ wire[d] = <<>>
  BY <1>1 DEF SwarmInv, SentOnce
<1>11. SentOnce'
  <2>1. ASSUME NEW s \in Drones
        PROVE  /\ outbox'[s] # <<>> => in_turn[s] /\ outbox'[s] = <<StartMessage(s)>>
               /\ wire'[s] # <<>> => in_turn[s] /\ wire'[s] = <<StartMessage(s)>>
               /\ outbox'[s] = <<>> \/ wire'[s] = <<>>
    <3>1. CASE s = d
      BY <1>6, <1>7, <1>10, <3>1
    <3>2. CASE s # d
      BY <1>6, <1>7, <3>2 DEF SwarmInv, SentOnce
    <3> QED
      BY <3>1, <3>2
  <2> QED
    BY <1>1, <2>1 DEF SentOnce
<1>12. MadeOfIt'
  <2>1. ASSUME NEW e \in Drones, parsed[e] # <<>>
        PROVE  /\ in_turn[source[e]] /\ outbox'[source[e]] = <<>> /\ wire'[source[e]] = <<>>
               /\ parsed[e] = <<StartMessage(source[e])>> \/ AllUnfit(parsed[e])
    <3>1. /\ in_turn[source[e]] /\ outbox[source[e]] = <<>> /\ wire[source[e]] = <<>>
          /\ parsed[e] = <<StartMessage(source[e])>> \/ AllUnfit(parsed[e])
      BY <2>1 DEF SwarmInv, MadeOfIt
    <3>2. source[e] \in Drones
      BY <2>1 DEF SwarmInv, ServersRead, SocketsTyped
    <3>3. source[e] # d
      BY <1>1, <3>1
    <3> QED
      BY <1>6, <1>7, <3>1, <3>2, <3>3
  <2> QED
    BY <1>1, <2>1 DEF MadeOfIt
<1>13. HoldsTheChain'
  <2>1. ASSUME NEW e \in Drones, ~in_turn[e]
        PROVE  /\ e = 0 => multi[e] = Message(0, <<>>)
               /\ e > 0 /\ recv_pre[e] => /\ multi[e] = StartMessage(e - 1)
                                          /\ in_turn[e - 1] /\ outbox'[e - 1] = <<>> /\ wire'[e - 1] = <<>>
                                          /\ parsed[e] = <<>>
    <3>1. /\ e = 0 => multi[e] = Message(0, <<>>)
          /\ e > 0 /\ recv_pre[e] => /\ multi[e] = StartMessage(e - 1)
                                     /\ in_turn[e - 1] /\ outbox[e - 1] = <<>> /\ wire[e - 1] = <<>>
                                     /\ parsed[e] = <<>>
      BY <2>1 DEF SwarmInv, HoldsTheChain
    <3>2. e > 0 /\ recv_pre[e] => e - 1 \in Drones /\ e - 1 # d
      BY <1>1, <3>1, DroneNumbers DEF Drones
    <3> QED
      BY <1>6, <1>7, <3>1, <3>2
  <2> QED
    BY <1>1, <2>1 DEF HoldsTheChain
<1>14. NetworkTyped'
  BY <1>1, <1>2 DEF SwarmInv, NetworkTyped
<1>15. PlannersTyped' /\ SocketsTyped' /\ ServersRead' /\ Planned' /\ StartsInOrder' /\ SlotsHeld'
  BY <1>1, LeftAlone
<1> QED
  BY <1>8, <1>9, <1>11, <1>12, <1>13, <1>14, <1>15 DEF SwarmInv

LEMMA AcceptKeeps ==
  ASSUME SwarmInv, NEW d \in Drones, Accept(d) PROVE SwarmInv'
<1> DEFINE None == <<>>
           D == Drones \cup {Nobody}
           first == Head(backlog[d])
<1>1. /\ UNCHANGED <<odom, start, flying, in_turn, recv_pre, multi, slots, version, air, crashes, bridge, outbox, parsed>>
      /\ server[d] = "accepting" /\ backlog[d] # <<>>
      /\ server' = [server EXCEPT ![d] = "reading"]
      /\ source' = [source EXCEPT ![d] = first]
      /\ ended' = [ended EXCEPT ![d] = first = Nobody]
      /\ backlog' = [backlog EXCEPT ![d] = None]
  BY SameStarted DEF Accept, planners
<1>2. PICK others : /\ others = Range(Tail(backlog[d])) \ {Nobody}
                    /\ link' = [o \in Drones |-> IF o \in others THEN "unread" ELSE link[o]]
                    /\ lost' = lost \cup {o \in others : wire[o] # <<>>}
                    /\ wire' = [o \in Drones |-> IF o \in others THEN None ELSE wire[o]]
  BY DEF Accept
<1>3. /\ backlog \in [Drones -> Seq(D)] /\ backlog[d] \in Seq(D)
      /\ \A i \in DOMAIN backlog[d] : backlog[d][i] # Nobody => NextDrone(backlog[d][i]) = d
  BY DEF SwarmInv, BuffersOK, ServersRead
<1>4. first \in D /\ Tail(backlog[d]) \in Seq(D)
  <2> HIDE DEF D
  <2> QED
    BY <1>1, <1>3, HeadTailProperties
<1>5. first # Nobody => NextDrone(first) = d
  <2>1. Len(backlog[d]) \in Nat \ {0} /\ DOMAIN backlog[d] = 1 .. Len(backlog[d])
    BY <1>1, <1>3, EmptySeq, LenProperties
  <2>2. first = backlog[d][1] /\ 1 \in DOMAIN backlog[d]
    BY <2>1, <1>3
  <2> QED
    BY <1>3, <2>2
<1>6. others \subseteq Drones
  <2> DEFINE t == Tail(backlog[d])
  <2>1. DOMAIN t = 1 .. Len(t) /\ \A i \in 1 .. Len(t) : t[i] \in D
    <3> HIDE DEF D, t
    <3> QED
      BY <1>4, LenProperties, ElementOfSeq DEF t
  <2> QED
    BY <1>2, <2>1 DEF Range
<1>7. None \in Seq(D) /\ None \in Seq(Messages) /\ Len(None) = 0 /\ DOMAIN None = {}
  OBVIOUS
<1> HIDE DEF None, first
<1>8. SocketsTyped'
  <2>1. link' \in [Drones -> {"none", "failed", "open", "unread", "broken"}]
    BY <1>2 DEF SwarmInv, SocketsTyped
  <2>2. ended' \in [Drones -> BOOLEAN]
    <3>1. (first = Nobody) \in BOOLEAN
      OBVIOUS
    <3> DEFINE e == (first = Nobody)
    <3>2. ended' = [ended EXCEPT ![d] = e] /\ e \in BOOLEAN
      BY <1>1
    <3> HIDE DEF e
    <3>3. ended \in [Drones -> BOOLEAN]
      BY DEF SwarmInv, SocketsTyped
    <3> QED
      BY <3>2, <3>3
  <2>3. source' \in [Drones -> D] /\ server' \in [Drones -> {"down", "accepting", "reading", "closed"}]
    BY <1>1, <1>4 DEF SwarmInv, SocketsTyped
  <2>4. bridge' \in [Drones -> {"off", "listening", "up", "dead"}]
    BY <1>1 DEF SwarmInv, SocketsTyped
  <2> QED
    BY <2>1, <2>2, <2>3, <2>4 DEF SocketsTyped
<1>9. /\ wire' \in [Drones -> Seq(Messages)] /\ backlog' \in [Drones -> Seq(D)]
      /\ \A e \in Drones : wire'[e] = wire[e] \/ wire'[e] = None
      /\ backlog'[d] = None /\ \A e \in Drones : e # d => backlog'[e] = backlog[e]
  <2>1. wire \in [Drones -> Seq(Messages)]
    BY DEF SwarmInv, BuffersOK
  <2> HIDE DEF D
  <2> QED
    BY <1>1, <1>2, <1>3, <1>7, <2>1
<1>10. BuffersOK'
  BY <1>1, <1>9 DEF SwarmInv, BuffersOK
<1>11. Lengths'
  <2>1. Lengths /\ Len(None) <= 1 /\ Len(None) <= Backlog + 1
    BY <1>7 DEF SwarmInv, Backlog
  <2>2. ASSUME NEW e \in Drones PROVE Len(wire'[e]) <= 1 /\ Len(backlog'[e]) <= Backlog + 1
    <3>1. Len(wire[e]) <= 1 /\ Len(backlog[e]) <= Backlog + 1
      BY <2>1 DEF Lengths
    <3>2. backlog'[e] = backlog[e] \/ backlog'[e] = None
      BY <1>9
    <3> QED
      BY <1>9, <2>1, <3>1, <3>2
  <2> QED
    BY <1>1, <2>1, <2>2 DEF Lengths
<1>12. parsed[d] = <<>>
  BY <1>1 DEF SwarmInv, ServersRead
<1>13. /\ server'[d] = "reading" /\ source'[d] = first
       /\ \A e \in Drones : e # d => server'[e] = server[e] /\ source'[e] = source[e]
  BY <1>1 DEF SwarmInv, SocketsTyped
<1>14. ServersRead'
  <2>1. ASSUME NEW e \in Drones
        PROVE  /\ server'[e] \in {"accepting", "reading"} => bridge[e] \in {"listening", "up"}
               /\ parsed[e] # <<>> => server'[e] = "reading" /\ source'[e] # Nobody
               /\ source'[e] # Nobody => NextDrone(source'[e]) = e
               /\ \A i \in DOMAIN backlog'[e] : backlog'[e][i] # Nobody => NextDrone(backlog'[e][i]) = e
    <3>1. /\ server[e] \in {"accepting", "reading"} => bridge[e] \in {"listening", "up"}
          /\ parsed[e] # <<>> => server[e] = "reading" /\ source[e] # Nobody
          /\ source[e] # Nobody => NextDrone(source[e]) = e
          /\ \A i \in DOMAIN backlog[e] : backlog[e][i] # Nobody => NextDrone(backlog[e][i]) = e
      BY DEF SwarmInv, ServersRead
    <3>2. CASE e = d
      BY <1>1, <1>5, <1>7, <1>9, <1>12, <1>13, <3>1, <3>2
    <3>3. CASE e # d
      BY <1>9, <1>13, <3>1, <3>3
    <3> QED
      BY <3>2, <3>3
  <2> QED
    BY <1>1, <2>1 DEF ServersRead
<1>15. SentOnce' /\ MadeOfIt' /\ HoldsTheChain'
  <2>1. Emptied(outbox', outbox) /\ Emptied(wire', wire) /\ Emptied(parsed', parsed)
    BY <1>1, <1>9 DEF Emptied, None
  <2>2. \A e \in Drones : source'[e] = source[e] \/ parsed'[e] = <<>>
    BY <1>1, <1>12, <1>13
  <2> QED
    BY <1>1, <2>1, <2>2, LessOnItsWay
<1>16. NetworkTyped'
  BY <1>1, <1>2, <1>6 DEF SwarmInv, NetworkTyped
<1>17. PlannersTyped' /\ Planned' /\ StartsInOrder' /\ SlotsHeld'
  BY <1>1, LeftAlone
<1> QED
  BY <1>8, <1>10, <1>11, <1>14, <1>15, <1>16, <1>17 DEF SwarmInv

(* A connection whose bridge is gone waits on without a writer.            *)
LEMMA Orphaned ==
  ASSUME NEW d \in Drones, NEW b \in Seq(Drones \cup {Nobody}), NEW new,
         new = [i \in DOMAIN b |-> IF b[i] = d THEN Nobody ELSE b[i]]
  PROVE  /\ new \in Seq(Drones \cup {Nobody}) /\ Len(new) = Len(b) /\ DOMAIN new = DOMAIN b
         /\ \A i \in DOMAIN new : new[i] = b[i] \/ new[i] = Nobody
<1> DEFINE D == Drones \cup {Nobody}
<1>1. Len(b) \in Nat /\ DOMAIN b = 1 .. Len(b) /\ \A i \in 1 .. Len(b) : b[i] \in D
  BY LenProperties, ElementOfSeq
<1>2. \A i \in 1 .. Len(b) : (IF b[i] = d THEN Nobody ELSE b[i]) \in D
  BY <1>1
<1>3. new = [i \in 1 .. Len(b) |-> IF b[i] = d THEN Nobody ELSE b[i]]
  BY <1>1
<1> HIDE DEF D
<1>4. new \in [1 .. Len(b) -> D]
  BY <1>2, <1>3
<1>5. new \in Seq(D) /\ Len(new) = Len(b)
  BY <1>1, <1>4
<1> QED
  BY <1>1, <1>3, <1>5 DEF D

LEMMA DiesKeeps ==
  ASSUME SwarmInv, NEW d \in Drones, Dies(d), UNCHANGED <<planners, air>>, crashes' \in 0 .. MaxCrashes
  PROVE  SwarmInv'
<1> DEFINE None == <<>>
           D == Drones \cup {Nobody}
           Cleared(b) == [i \in DOMAIN b |-> IF b[i] = d THEN Nobody ELSE b[i]]
<1>1. /\ UNCHANGED <<odom, start, flying, in_turn, recv_pre, multi, slots, version, air>>
      /\ bridge' = [bridge EXCEPT ![d] = "dead"] /\ server' = [server EXCEPT ![d] = "down"]
      /\ backlog' = [o \in Drones |-> IF o = d THEN None ELSE Cleared(backlog[o])]
      /\ source' = [source EXCEPT ![d] = Nobody]
      /\ outbox' = [outbox EXCEPT ![d] = None] /\ parsed' = [parsed EXCEPT ![d] = None]
  BY SameStarted DEF Dies, planners
<1>2. /\ link' = [o \in Drones |-> IF o = d THEN "none" ELSE IF o \in Severed(d) THEN "broken" ELSE link[o]]
      /\ ended' = [o \in Drones |-> o # d /\ (ended[o] \/ source[o] = d)]
  BY DEF Dies
<1>3. PICK unread \in SUBSET {d} :
        /\ wire' = [o \in Drones |-> IF o \in Severed(d) \cup unread THEN None ELSE wire[o]]
        /\ lost' = lost \cup {o \in Severed(d) \cup unread : wire[o] # <<>>}
                        \cup (IF outbox[d] # <<>> THEN {d} ELSE {})
                        \cup (IF parsed[d] # <<>> THEN {source[d]} ELSE {})
  <2> DEFINE unread == IF NextDrone(d) # Nobody /\ NextDrone(d) # d /\ source[NextDrone(d)] = d THEN {} ELSE {d}
  <2>1. /\ wire' = [o \in Drones |-> IF o \in Severed(d) \cup unread THEN None ELSE wire[o]]
        /\ lost' = lost \cup {o \in Severed(d) \cup unread : wire[o] # <<>>}
                        \cup (IF outbox[d] # <<>> THEN {d} ELSE {})
                        \cup (IF parsed[d] # <<>> THEN {source[d]} ELSE {})
    BY DEF Dies
  <2>2. unread \in SUBSET {d}
    OBVIOUS
  <2> HIDE DEF unread
  <2> QED
    BY <2>1, <2>2
<1>4. None \in Seq(D) /\ None \in Seq(Messages) /\ Len(None) = 0 /\ DOMAIN None = {}
  OBVIOUS
<1>5. Severed(d) \subseteq Drones
  BY DEF Severed
<1>6. /\ backlog \in [Drones -> Seq(D)] /\ wire \in [Drones -> Seq(Messages)]
      /\ outbox \in [Drones -> Seq(Messages)] /\ parsed \in [Drones -> Seq(Messages)]
  BY DEF SwarmInv, BuffersOK
<1>7. ASSUME NEW e \in Drones
      PROVE  /\ backlog'[e] \in Seq(D) /\ Len(backlog'[e]) <= Backlog + 1
             /\ \A i \in DOMAIN backlog'[e] : backlog'[e][i] # Nobody => NextDrone(backlog'[e][i]) = e
  <2>1. /\ backlog[e] \in Seq(D) /\ Len(backlog[e]) <= Backlog + 1
        /\ \A i \in DOMAIN backlog[e] : backlog[e][i] # Nobody => NextDrone(backlog[e][i]) = e
    BY <1>6 DEF SwarmInv, Lengths, ServersRead
  <2>2. CASE e = d
    <3>1. backlog'[e] = None
      BY <1>1, <2>2
    <3> HIDE DEF None
    <3> QED
      BY <1>4, <3>1 DEF Backlog
  <2>3. CASE e # d
    <3> DEFINE new == Cleared(backlog[e])
    <3>1. backlog'[e] = new
      BY <1>1, <2>3
    <3>2. /\ new \in Seq(D) /\ Len(new) = Len(backlog[e]) /\ DOMAIN new = DOMAIN backlog[e]
          /\ \A i \in DOMAIN new : new[i] = backlog[e][i] \/ new[i] = Nobody
      BY <2>1, Orphaned
    <3> HIDE DEF new, D
    <3> QED
      BY <2>1, <3>1, <3>2
  <2> QED
    BY <2>2, <2>3
<1> HIDE DEF None
<1>8. SocketsTyped'
  <2>1. SocketsTyped
    BY DEF SwarmInv
  <2>2. link' \in [Drones -> {"none", "failed", "open", "unread", "broken"}]
    BY <1>2, <2>1 DEF SocketsTyped
  <2>3. ended' \in [Drones -> BOOLEAN]
    <3>1. \A o \in Drones : (o # d /\ (ended[o] \/ source[o] = d)) \in BOOLEAN
      OBVIOUS
    <3> QED
      BY <1>2, <3>1, Zenon
  <2>4. source' \in [Drones -> D] /\ server' \in [Drones -> {"down", "accepting", "reading", "closed"}]
        /\ bridge' \in [Drones -> {"off", "listening", "up", "dead"}]
    BY <1>1, <2>1 DEF SocketsTyped
  <2> QED
    BY <2>2, <2>3, <2>4 DEF SocketsTyped
<1>9. /\ wire' \in [Drones -> Seq(Messages)] /\ outbox' \in [Drones -> Seq(Messages)]
      /\ parsed' \in [Drones -> Seq(Messages)]
      /\ \A e \in Drones : wire'[e] = wire[e] \/ wire'[e] = None
      /\ \A e \in Drones : outbox'[e] = outbox[e] \/ outbox'[e] = None
      /\ \A e \in Drones : parsed'[e] = parsed[e] \/ parsed'[e] = None
      /\ parsed'[d] = None
  BY <1>1, <1>3, <1>4, <1>6
<1>10. backlog' \in [Drones -> Seq(D)]
  <2> DEFINE Cut(o) == IF o = d THEN None ELSE Cleared(backlog[o])
  <2>1. backlog' = [o \in Drones |-> Cut(o)]
    BY <1>1
  <2>2. \A o \in Drones : Cut(o) \in Seq(D)
    <3> HIDE DEF Cut, D
    <3>1. \A o \in Drones : backlog'[o] = Cut(o)
      BY <2>1
    <3> QED
      BY <1>7, <3>1
  <2> HIDE DEF Cut, D
  <2> QED
    BY <2>1, <2>2
<1>11. BuffersOK'
  BY <1>1, <1>9, <1>10 DEF SwarmInv, BuffersOK
<1>12. Lengths'
  <2>1. Lengths /\ Len(None) <= 1 /\ Len(None) <= MaxReads
    BY <1>4, DroneNumbers DEF SwarmInv
  <2>2. ASSUME NEW e \in Drones
        PROVE  Len(wire'[e]) <= 1 /\ Len(outbox'[e]) <= 1 /\ Len(parsed'[e]) <= MaxReads
    <3>1. Len(wire[e]) <= 1 /\ Len(outbox[e]) <= 1 /\ Len(parsed[e]) <= MaxReads
      BY <2>1 DEF Lengths
    <3> QED
      BY <1>9, <2>1, <3>1
  <2> QED
    BY <1>1, <1>7, <2>1, <2>2 DEF Lengths
<1>13. /\ server'[d] = "down" /\ source'[d] = Nobody
       /\ \A e \in Drones : e # d => server'[e] = server[e] /\ source'[e] = source[e] /\ bridge'[e] = bridge[e]
  BY <1>1 DEF SwarmInv, SocketsTyped
<1>14. ServersRead'
  <2>1. ASSUME NEW e \in Drones
        PROVE  /\ server'[e] \in {"accepting", "reading"} => bridge'[e] \in {"listening", "up"}
               /\ parsed'[e] # <<>> => server'[e] = "reading" /\ source'[e] # Nobody
               /\ source'[e] # Nobody => NextDrone(source'[e]) = e
    <3>1. /\ server[e] \in {"accepting", "reading"} => bridge[e] \in {"listening", "up"}
          /\ parsed[e] # <<>> => server[e] = "reading" /\ source[e] # Nobody
          /\ source[e] # Nobody => NextDrone(source[e]) = e
      BY DEF SwarmInv, ServersRead
    <3>2. CASE e = d
      BY <1>9, <1>13, <3>2 DEF None
    <3>3. CASE e # d
      BY <1>9, <1>13, <3>1, <3>3 DEF None
    <3> QED
      BY <3>2, <3>3
  <2> QED
    BY <1>7, <2>1 DEF ServersRead
<1>15. SentOnce' /\ MadeOfIt' /\ HoldsTheChain'
  <2>1. Emptied(outbox', outbox) /\ Emptied(wire', wire) /\ Emptied(parsed', parsed)
    BY <1>9 DEF Emptied, None
  <2>2. \A e \in Drones : source'[e] = source[e] \/ parsed'[e] = <<>>
    BY <1>9, <1>13 DEF None
  <2> QED
    BY <1>1, <2>1, <2>2, LessOnItsWay
<1>16. NetworkTyped'
  <2>1. parsed[d] # <<>> => source[d] \in Drones
    BY DEF SwarmInv, ServersRead, SocketsTyped
  <2>2. lost' \subseteq Drones
    BY <1>3, <1>5, <2>1 DEF SwarmInv, NetworkTyped
  <2> QED
    BY <1>1, <2>2 DEF SwarmInv, NetworkTyped
<1>17. PlannersTyped' /\ Planned' /\ StartsInOrder' /\ SlotsHeld'
  BY <1>1, LeftAlone
<1> QED
  BY <1>8, <1>11, <1>12, <1>14, <1>15, <1>16, <1>17 DEF SwarmInv

LEMMA CrashKeeps ==
  ASSUME SwarmInv, NEW d \in Drones, Crash(d) PROVE SwarmInv'
<1>1. Dies(d) /\ UNCHANGED <<planners, air>> /\ crashes < MaxCrashes /\ crashes' = crashes + 1
  BY DEF Crash
<1>2. crashes' \in 0 .. MaxCrashes
  BY <1>1, DroneNumbers DEF SwarmInv, NetworkTyped
<1> QED
  BY <1>1, <1>2, DiesKeeps

LEMMA EndOfStreamKeeps ==
  ASSUME SwarmInv, NEW d \in Drones, EndOfStream(d) PROVE SwarmInv'
<1>1. /\ UNCHANGED <<odom, start, flying, in_turn, recv_pre, multi, slots, version, air, lost, crashes>>
      /\ UNCHANGED <<bridge, link, backlog, ended, outbox, wire, parsed>>
      /\ parsed[d] = <<>>
      /\ server' = [server EXCEPT ![d] = "closed"] /\ source' = [source EXCEPT ![d] = Nobody]
  BY SameStarted DEF EndOfStream, planners, buffers
<1>2. SocketsTyped'
  BY <1>1 DEF SwarmInv, SocketsTyped
<1>3. /\ server'[d] = "closed" /\ source'[d] = Nobody
      /\ \A e \in Drones : e # d => server'[e] = server[e] /\ source'[e] = source[e]
  BY <1>1 DEF SwarmInv, SocketsTyped
<1>4. ServersRead'
  BY <1>1, <1>3 DEF SwarmInv, ServersRead
<1>5. SentOnce' /\ MadeOfIt' /\ HoldsTheChain'
  <2>1. Emptied(outbox', outbox) /\ Emptied(wire', wire) /\ Emptied(parsed', parsed)
    BY <1>1 DEF Emptied
  <2>2. \A e \in Drones : source'[e] = source[e] \/ parsed'[e] = <<>>
    BY <1>1, <1>3
  <2> QED
    BY <1>1, <2>1, <2>2, LessOnItsWay
<1>6. /\ PlannersTyped' /\ NetworkTyped' /\ BuffersOK' /\ Lengths' /\ Planned'
      /\ StartsInOrder' /\ SlotsHeld'
  BY <1>1, LeftAlone
<1> QED
  BY <1>2, <1>4, <1>5, <1>6 DEF SwarmInv

LEMMA ReadKeeps ==
  ASSUME SwarmInv, NEW d \in Drones, Read(d) PROVE SwarmInv'
<1> DEFINE from == source[d]
           None == <<>>
<1>1. /\ UNCHANGED <<odom, start, flying, in_turn, recv_pre, multi, slots, version, air, crashes>>
      /\ UNCHANGED <<bridge, link, server, backlog, source, ended, outbox>>
      /\ server[d] = "reading" /\ from # Nobody /\ wire[from] # <<>>
      /\ wire' = [wire EXCEPT ![from] = None]
  BY SameStarted DEF Read, planners, sockets
<1>2. PICK r \in ReadsOf[Head(wire[from])] :
        /\ parsed' = [parsed EXCEPT ![d] = r]
        /\ lost' = lost \/ lost' = lost \cup {from}
  BY DEF Read
<1>3. from \in Drones /\ NextDrone(from) = d
  BY <1>1 DEF SwarmInv, SocketsTyped, ServersRead
<1>4. in_turn[from] /\ wire[from] = <<StartMessage(from)>> /\ outbox[from] = <<>>
  BY <1>1, <1>3 DEF SwarmInv, SentOnce
<1>5. Head(wire[from]) = StartMessage(from)
  <2> DEFINE m == StartMessage(from)
  <2> HIDE DEF m
  <2>1. Head(<<m>>) = m
    OBVIOUS
  <2> QED
    BY <1>4, <2>1 DEF m
<1>6. /\ r \in Seq(Messages) /\ Len(r) <= MaxReads
      /\ AllUnfit(r) \/ r = <<StartMessage(from)>>
  <2>1. r \in ReadsOf[StartMessage(from)]
    BY <1>2, <1>5
  <2> QED
    BY <1>3, <2>1, ReadsOfStart
<1>7. parsed \in [Drones -> Seq(Messages)] /\ wire \in [Drones -> Seq(Messages)]
  BY DEF SwarmInv, BuffersOK
<1>8. None \in Seq(Messages) /\ Len(None) = 0
  OBVIOUS
<1> HIDE DEF None, from
<1>9. /\ parsed' \in [Drones -> Seq(Messages)] /\ parsed'[d] = r
      /\ \A e \in Drones : e # d => parsed'[e] = parsed[e]
      /\ wire' \in [Drones -> Seq(Messages)] /\ wire'[from] = None
      /\ \A e \in Drones : e # from => wire'[e] = wire[e]
  BY <1>1, <1>2, <1>3, <1>6, <1>7, <1>8
<1>10. BuffersOK'
  BY <1>1, <1>9 DEF SwarmInv, BuffersOK
<1>11. Lengths'
  <2>1. Lengths /\ Len(None) <= 1
    BY <1>8 DEF SwarmInv
  <2>2. ASSUME NEW e \in Drones PROVE Len(wire'[e]) <= 1 /\ Len(parsed'[e]) <= MaxReads
    <3>1. Len(wire[e]) <= 1 /\ Len(parsed[e]) <= MaxReads
      BY <2>1 DEF Lengths
    <3>2. wire'[e] = wire[e] \/ wire'[e] = None
      BY <1>9
    <3>3. parsed'[e] = parsed[e] \/ parsed'[e] = r
      BY <1>9
    <3> QED
      BY <1>6, <2>1, <3>1, <3>2, <3>3
  <2> QED
    BY <1>1, <2>1, <2>2 DEF Lengths
<1>12. ServersRead'
  <2>1. ASSUME NEW e \in Drones, parsed'[e] # <<>> PROVE server[e] = "reading" /\ source[e] # Nobody
    <3>1. CASE e = d
      BY <1>1, <3>1 DEF from
    <3>2. CASE e # d
      BY <1>9, <2>1, <3>2 DEF SwarmInv, ServersRead
    <3> QED
      BY <3>1, <3>2
  <2> QED
    BY <1>1, <2>1 DEF SwarmInv, ServersRead
<1>13. SentOnce'
  <2>1. ASSUME NEW s \in Drones
        PROVE  /\ outbox[s] # <<>> => in_turn[s] /\ outbox[s] = <<StartMessage(s)>>
               /\ wire'[s] # <<>> => in_turn[s] /\ wire'[s] = <<StartMessage(s)>>
               /\ outbox[s] = <<>> \/ wire'[s] = <<>>
    <3>1. wire'[s] = wire[s] \/ wire'[s] = <<>>
      BY <1>9 DEF None
    <3> QED
      BY <3>1 DEF SwarmInv, SentOnce
  <2> QED
    BY <1>1, <2>1 DEF SentOnce
<1>14. MadeOfIt'
  <2>1. ASSUME NEW e \in Drones, parsed'[e] # <<>>
        PROVE  /\ in_turn[source[e]] /\ outbox[source[e]] = <<>> /\ wire'[source[e]] = <<>>
               /\ parsed'[e] = <<StartMessage(source[e])>> \/ AllUnfit(parsed'[e])
    <3>1. CASE e = d
      BY <1>4, <1>6, <1>9, <3>1 DEF from, None
    <3>2. CASE e # d
      <4>1. /\ in_turn[source[e]] /\ outbox[source[e]] = <<>> /\ wire[source[e]] = <<>>
            /\ parsed[e] = <<StartMessage(source[e])>> \/ AllUnfit(parsed[e])
        BY <1>9, <2>1, <3>2 DEF SwarmInv, MadeOfIt
      <4>2. source[e] \in Drones
        BY <1>9, <2>1, <3>2 DEF SwarmInv, ServersRead, SocketsTyped
      <4>3. wire'[source[e]] = <<>>
        BY <1>9, <4>1, <4>2 DEF None
      <4>4. parsed'[e] = parsed[e]
        BY <1>9, <3>2
      <4> QED
        BY <4>1, <4>3, <4>4
    <3> QED
      BY <3>1, <3>2
  <2> QED
    BY <1>1, <2>1 DEF MadeOfIt
<1>15. HoldsTheChain'
  <2>1. ASSUME NEW e \in Drones, ~in_turn[e]
        PROVE  /\ e = 0 => multi[e] = Message(0, <<>>)
               /\ e > 0 /\ recv_pre[e] => /\ multi[e] = StartMessage(e - 1)
                                          /\ in_turn[e - 1] /\ outbox[e - 1] = <<>> /\ wire'[e - 1] = <<>>
                                          /\ parsed'[e] = <<>>
    <3>1. /\ e = 0 => multi[e] = Message(0, <<>>)
          /\ e > 0 /\ recv_pre[e] => /\ multi[e] = StartMessage(e - 1)
                                     /\ in_turn[e - 1] /\ outbox[e - 1] = <<>> /\ wire[e - 1] = <<>>
                                     /\ parsed[e] = <<>>
      BY <2>1 DEF SwarmInv, HoldsTheChain
    <3>2. e > 0 => e - 1 \in Drones
      BY DroneNumbers DEF Drones
    <3>3. e > 0 /\ recv_pre[e] => e # d
      <4>1. SUFFICES ASSUME e > 0, recv_pre[e], e = d PROVE FALSE
        OBVIOUS
      <4>2. from = d \/ from = d - 1
        BY <1>3, NextDrones
      <4>3. CASE from = d
        BY <1>4, <2>1, <4>1, <4>3
      <4>4. CASE from = d - 1
        BY <1>1, <3>1, <4>1, <4>4 DEF from
      <4> QED
        BY <4>2, <4>3, <4>4
    <3>4. e > 0 => wire'[e - 1] = wire[e - 1] \/ wire'[e - 1] = <<>>
      BY <1>9, <3>2 DEF None
    <3>5. e # d => parsed'[e] = parsed[e]
      BY <1>9
    <3> QED
      BY <3>1, <3>3, <3>4, <3>5
  <2> QED
    BY <1>1, <2>1 DEF HoldsTheChain
<1>16. NetworkTyped'
  BY <1>1, <1>2, <1>3 DEF SwarmInv, NetworkTyped
<1>17. PlannersTyped' /\ SocketsTyped' /\ Planned' /\ StartsInOrder' /\ SlotsHeld'
  BY <1>1, LeftAlone
<1> QED
  BY <1>10, <1>11, <1>12, <1>13, <1>14, <1>15, <1>16, <1>17 DEF SwarmInv

(* What a planner accepts names drones that fly.                           *)
LEMMA TakenSlots ==
  ASSUME SwarmInv, NEW d \in Drones, NEW s \in Drones, in_turn[s],
         NEW far, NEW new,
         new = [i \in DOMAIN StartMessage(s).traj |-> IF i \in far THEN Unused ELSE Slot(i - 1, StartMessage(s).traj[i])]
  PROVE  GoodSlots(new, version)
<1> DEFINE Of(i) == IF i \in far THEN Unused ELSE Slot(i - 1, Bspline(i - 1, 1))
<1>1. s + 1 \in Nat /\ s + 1 <= N /\ \A i \in 1 .. s + 1 : StartMessage(s).traj[i] = Bspline(i - 1, 1)
  BY StartMessages
<1>2. DOMAIN StartMessage(s).traj = 1 .. s + 1
  <2>1. StartMessage(s).traj = Chain(s + 1)
    BY StartMessages
  <2> QED
    BY <1>1, <2>1, ChainLength
<1>3. new = [i \in 1 .. s + 1 |-> Of(i)]
  BY <1>1, <1>2
<1>4. ASSUME NEW i \in 1 .. s + 1
      PROVE  /\ Of(i) \in SlotType
             /\ Of(i).drone_id # Nobody => Of(i).drone_id = i - 1 /\ Of(i).of = i - 1 /\ Of(i).traj_id = 1
  <2>1. CASE i \in far
    <3>1. Of(i) = Unused
      BY <2>1
    <3> QED
      BY <3>1 DEF Unused, SlotType, Nobody
  <2>2. CASE i \notin far
    <3>1. Of(i) = [drone_id |-> i - 1, of |-> i - 1, traj_id |-> 1]
      BY <2>2 DEF Slot, Bspline
    <3> HIDE DEF Of
    <3>2. i - 1 \in Int
      OBVIOUS
    <3> QED
      BY <3>1, <3>2 DEF SlotType
  <2> QED
    BY <2>1, <2>2
<1> HIDE DEF Of
<1>5. new \in Seq(SlotType) /\ Len(new) = s + 1 /\ \A i \in 1 .. s + 1 : new[i] = Of(i)
  BY <1>1, <1>3, <1>4
<1>6. ASSUME NEW i \in 1 .. s + 1 PROVE 1 \in 1 .. version[i - 1]
  <2>1. s \in Nat /\ i - 1 \in Drones /\ (i - 1 = s \/ i - 1 < s)
    BY <1>1, DroneNumbers DEF Drones
  <2>2. in_turn[i - 1]
    BY <2>1 DEF SwarmInv, StartsInOrder
  <2>3. version[i - 1] >= 1
    <3>1. flying[i - 1]
      BY <2>1, <2>2, StartedDrones, Zenon
    <3> QED
      BY <2>1, <3>1 DEF SwarmInv, Planned
  <2>4. version[i - 1] \in Nat
    BY <2>1, DroneNumbers DEF SwarmInv, PlannersTyped
  <2> QED
    BY <2>3, <2>4
<1>7. ASSUME NEW i \in 1 .. Len(new), new[i].drone_id # Nobody
      PROVE  new[i].drone_id = i - 1 /\ new[i].of = i - 1 /\ new[i].traj_id \in 1 .. version[i - 1]
  <2>1. i \in 1 .. s + 1 /\ new[i] = Of(i)
    BY <1>5
  <2>2. new[i].drone_id = i - 1 /\ new[i].of = i - 1 /\ new[i].traj_id = 1
    BY <1>4, <1>7, <2>1
  <2> QED
    BY <1>6, <2>1, <2>2
<1> QED
  BY <1>1, <1>5, <1>7 DEF GoodSlots

LEMMA PublishTrajsKeeps ==
  ASSUME SwarmInv, NEW d \in Drones, PublishTrajs(d) PROVE SwarmInv'
<1> DEFINE m == Head(parsed[d])
           s == source[d]
           rest == Tail(parsed[d])
<1>1. parsed[d] # <<>> /\ UNCHANGED <<air, crashes>>
  BY DEF PublishTrajs
<1>2. CASE m = Abort
  <2>1. Dies(d) /\ UNCHANGED planners
    BY <1>2, Zenon DEF PublishTrajs
  <2>2. crashes' \in 0 .. MaxCrashes
    BY <1>1 DEF SwarmInv, NetworkTyped
  <2> QED
    BY <1>1, <2>1, <2>2, DiesKeeps
<1>3. CASE m # Abort
  <2>1. /\ parsed' = [parsed EXCEPT ![d] = rest]
        /\ SwarmTrajs(d, m)
        /\ lost' = IF Accepts(d, m) THEN lost ELSE lost \cup {s}
        /\ UNCHANGED <<odom, start, flying, in_turn, version, sockets, outbox, wire>>
    <3>1. /\ parsed' = [parsed EXCEPT ![d] = rest]
          /\ SwarmTrajs(d, m)
          /\ lost' = IF Accepts(d, m) THEN lost ELSE lost \cup {s}
          /\ UNCHANGED <<odom, start, flying, version, sockets, outbox, wire>>
      BY <1>3, Zenon DEF PublishTrajs
    <3> HIDE DEF m, s, rest
    <3> QED
      BY <3>1, SameStarted
  <2>2. /\ multi' = [multi EXCEPT ![d] = m]
        /\ UNCHANGED <<odom, start, flying, in_turn, version, bridge, link, server, backlog, source, ended, outbox, wire>>
    BY <2>1 DEF SwarmTrajs, sockets
  <2>3. /\ parsed \in [Drones -> Seq(Messages)] /\ parsed[d] \in Seq(Messages) /\ Len(parsed[d]) <= MaxReads
        /\ multi \in [Drones -> Messages] /\ slots \in [Drones -> Seq(SlotType)]
        /\ recv_pre \in [Drones -> BOOLEAN]
    BY DEF SwarmInv, BuffersOK, Lengths, PlannersTyped
  <2>4. /\ server[d] = "reading" /\ s \in Drones /\ NextDrone(s) = d
        /\ in_turn[s] /\ outbox[s] = <<>> /\ wire[s] = <<>>
        /\ parsed[d] = <<StartMessage(s)>> \/ AllUnfit(parsed[d])
    BY <1>1 DEF SwarmInv, ServersRead, SocketsTyped, MadeOfIt
  <2>5. /\ m \in Messages /\ rest \in Seq(Messages) /\ Len(rest) = Len(parsed[d]) - 1
        /\ \A i \in 1 .. Len(rest) : rest[i] = parsed[d][i + 1]
    BY <1>1, <2>3, HeadTailProperties
  <2>6. Len(parsed[d]) \in Nat /\ Len(parsed[d]) # 0 /\ m = parsed[d][1]
    BY <1>1, <2>3, EmptySeq
  <2>7. \/ parsed[d] = <<StartMessage(s)>> /\ m = StartMessage(s) /\ rest = <<>>
        \/ AllUnfit(rest) /\ Unfit(m)
    <3>1. CASE parsed[d] = <<StartMessage(s)>>
      <4> DEFINE t == StartMessage(s)
      <4> HIDE DEF t
      <4>1. Head(<<t>>) = t /\ Tail(<<t>>) = <<>>
        OBVIOUS
      <4> QED
        BY <3>1, <4>1 DEF t
    <3>2. CASE AllUnfit(parsed[d])
      <4>1. 1 \in 1 .. Len(parsed[d])
        BY <2>6
      <4>2. Unfit(m)
        BY <2>6, <3>2, <4>1 DEF AllUnfit
      <4>3. ASSUME NEW i \in 1 .. Len(rest) PROVE Unfit(rest[i])
        <5>1. i + 1 \in 1 .. Len(parsed[d]) /\ rest[i] = parsed[d][i + 1]
          BY <2>5, <2>6
        <5> QED
          BY <3>2, <5>1 DEF AllUnfit
      <4> HIDE DEF rest, m
      <4> QED
        BY <4>2, <4>3 DEF AllUnfit
    <3> QED
      BY <2>4, <3>1, <3>2
  <2> HIDE DEF m, rest, s
  <2>8. Len(m.traj) <= N /\ (Accepts(d, m) => m = StartMessage(s) /\ parsed[d] = <<StartMessage(s)>> /\ rest = <<>>)
    <3>1. CASE m = StartMessage(s) /\ parsed[d] = <<StartMessage(s)>> /\ rest = <<>>
      BY <2>4, <3>1, StartMessages
    <3>2. CASE Unfit(m)
      <4>1. ~Accepts(d, m) /\ Len(m.traj) <= 1 /\ m.traj \in Seq(Bsplines)
        BY <1>3, <2>5, <3>2, RefusesUnfit DEF Messages
      <4>2. Len(m.traj) \in Nat
        BY <4>1, LenProperties
      <4> QED
        BY <4>1, <4>2, DroneNumbers
    <3> QED
      BY <2>7, <3>1, <3>2
  <2>9. /\ \A e \in Drones : GoodSlots(slots'[e], version)
        /\ slots' \in [Drones -> Seq(SlotType)] /\ recv_pre' \in [Drones -> BOOLEAN]
        /\ \A e \in Drones : e # d => recv_pre'[e] = recv_pre[e]
        /\ ~Accepts(d, m) => recv_pre' = recv_pre
    <3>1. CASE Accepts(d, m)
      <4>1. PICK far : /\ slots' = [slots EXCEPT ![d] =
                               [i \in DOMAIN m.traj |-> IF i \in far THEN Unused ELSE Slot(i - 1, m.traj[i])]]
                       /\ recv_pre' = [recv_pre EXCEPT ![d] = TRUE]
        BY <2>1, <3>1 DEF SwarmTrajs
      <4> DEFINE new == [i \in DOMAIN m.traj |-> IF i \in far THEN Unused ELSE Slot(i - 1, m.traj[i])]
      <4>2. GoodSlots(new, version)
        BY <2>4, <2>8, <3>1, TakenSlots
      <4> HIDE DEF new
      <4>3. slots' = [slots EXCEPT ![d] = new] /\ new \in Seq(SlotType)
        BY <4>1, <4>2 DEF GoodSlots, new
      <4>4. slots'[d] = new /\ \A e \in Drones : e # d => slots'[e] = slots[e]
        BY <2>3, <4>3
      <4>5. \A e \in Drones : GoodSlots(slots'[e], version)
        <5>1. ASSUME NEW e \in Drones PROVE GoodSlots(slots'[e], version)
          <6>1. GoodSlots(slots[e], version)
            BY SlotsAreGood
          <6> QED
            BY <4>2, <4>4, <6>1
        <5> QED
          BY <5>1
      <4>6. slots' \in [Drones -> Seq(SlotType)]
        BY <2>3, <4>3
      <4> QED
        BY <2>3, <3>1, <4>1, <4>5, <4>6
    <3>2. CASE ~Accepts(d, m)
      <4>1. UNCHANGED <<slots, recv_pre>>
        BY <2>1, <3>2 DEF SwarmTrajs
      <4>2. \A e \in Drones : GoodSlots(slots[e], version)
        BY SlotsAreGood
      <4> QED
        BY <2>3, <4>1, <4>2
    <3> QED
      BY <3>1, <3>2
  <2>10. SlotsHeld' /\ \A e \in Drones : Len(slots'[e]) <= N
    <3>1. ASSUME NEW e \in Drones
          PROVE  slots'[e] \in Seq(SlotType) /\ Len(slots'[e]) <= N /\ DOMAIN slots'[e] = 1 .. Len(slots'[e])
      <4>1. slots'[e] \in Seq(SlotType) /\ Len(slots'[e]) <= N
        BY <2>9 DEF GoodSlots
      <4> QED
        BY <4>1, LenProperties
    <3>2. SlotsHeld'
      BY <2>2, <2>9, <3>1 DEF GoodSlots, SlotsHeld
    <3> QED
      BY <3>1, <3>2
  <2>11. /\ multi' \in [Drones -> Messages] /\ multi'[d] = m
         /\ \A e \in Drones : e # d => multi'[e] = multi[e]
         /\ parsed' \in [Drones -> Seq(Messages)] /\ parsed'[d] = rest
         /\ \A e \in Drones : e # d => parsed'[e] = parsed[e]
    BY <2>1, <2>2, <2>3, <2>5
  <2>12. BuffersOK'
    BY <2>2, <2>9, <2>11 DEF SwarmInv, BuffersOK
  <2>13. Lengths'
    <3>1. ASSUME NEW e \in Drones PROVE Len(multi'[e].traj) <= N /\ Len(parsed'[e]) <= MaxReads
      <4>1. Len(multi[e].traj) <= N /\ Len(parsed[e]) <= MaxReads
        BY DEF SwarmInv, Lengths
      <4>2. Len(rest) <= MaxReads
        BY <2>3, <2>5, <2>6, DroneNumbers
      <4>3. CASE e = d
        BY <2>8, <2>11, <4>2, <4>3
      <4>4. CASE e # d
        BY <2>11, <4>1, <4>4
      <4> QED
        BY <4>3, <4>4
    <3> QED
      BY <2>2, <2>10, <3>1 DEF SwarmInv, Lengths
  <2>14. PlannersTyped'
    BY <2>2, <2>9 DEF SwarmInv, PlannersTyped
  <2>15. NetworkTyped'
    <3>1. lost' \subseteq lost \cup {s}
      BY <2>1
    <3> QED
      BY <1>1, <2>4, <3>1 DEF SwarmInv, NetworkTyped
  <2>16. ServersRead'
    <3>1. ASSUME NEW e \in Drones, parsed'[e] # <<>> PROVE parsed[e] # <<>>
      BY <1>1, <2>11, <3>1
    <3> QED
      BY <2>2, <3>1 DEF SwarmInv, ServersRead
  <2>17. MadeOfIt'
    <3>1. ASSUME NEW e \in Drones, parsed'[e] # <<>>
          PROVE  /\ in_turn[source[e]] /\ outbox[source[e]] = <<>> /\ wire[source[e]] = <<>>
                 /\ parsed'[e] = <<StartMessage(source[e])>> \/ AllUnfit(parsed'[e])
      <4>1. CASE e = d
        BY <2>4, <2>7, <2>11, <3>1, <4>1 DEF s
      <4>2. CASE e # d
        BY <2>11, <3>1, <4>2 DEF SwarmInv, MadeOfIt
      <4> QED
        BY <4>1, <4>2
    <3> QED
      BY <2>2, <3>1 DEF MadeOfIt
  <2>18. HoldsTheChain'
    <3>1. ASSUME NEW e \in Drones, ~in_turn[e]
          PROVE  /\ e = 0 => multi'[e] = Message(0, <<>>)
                 /\ e > 0 /\ recv_pre'[e] => /\ multi'[e] = StartMessage(e - 1)
                                             /\ in_turn[e - 1] /\ outbox[e - 1] = <<>> /\ wire[e - 1] = <<>>
                                             /\ parsed'[e] = <<>>
      <4>1. /\ e = 0 => multi[e] = Message(0, <<>>)
            /\ e > 0 /\ recv_pre[e] => /\ multi[e] = StartMessage(e - 1)
                                       /\ in_turn[e - 1] /\ outbox[e - 1] = <<>> /\ wire[e - 1] = <<>>
                                       /\ parsed[e] = <<>>
        BY <3>1 DEF SwarmInv, HoldsTheChain
      <4>2. CASE e # d
        BY <2>9, <2>11, <4>1, <4>2
      <4>3. CASE e = d
        <5>1. s # d /\ d > 0 /\ s = d - 1
          BY <2>4, <3>1, <4>3, NextDrones
        <5>2. d # 0
          BY <5>1
        <5>3. ASSUME recv_pre'[d] PROVE Accepts(d, m)
          <6>1. ~recv_pre[d]
            BY <1>1, <4>1, <4>3, <5>1
          <6> QED
            BY <2>9, <5>3, <6>1
        <5>4. recv_pre'[d] => /\ multi'[d] = StartMessage(d - 1)
                              /\ in_turn[d - 1] /\ outbox[d - 1] = <<>> /\ wire[d - 1] = <<>>
                              /\ parsed'[d] = <<>>
          BY <2>4, <2>8, <2>11, <5>1, <5>3
        <5> QED
          BY <4>3, <5>2, <5>4
      <4> QED
        BY <4>2, <4>3
    <3> QED
      BY <2>2, <3>1 DEF HoldsTheChain
  <2>19. SocketsTyped' /\ SentOnce' /\ Planned' /\ StartsInOrder'
    BY <1>1, <2>2, LeftAlone
  <2> QED
    BY <2>10, <2>12, <2>13, <2>14, <2>15, <2>16, <2>17, <2>18, <2>19 DEF SwarmInv
<1> QED
  BY <1>2, <1>3

LEMMA SwarmStuttering ==
  ASSUME SwarmInv, UNCHANGED swarmVars PROVE SwarmInv'
<1>1. /\ UNCHANGED <<odom, start, flying, in_turn, recv_pre, multi, slots, version, bridge, link, server, backlog>>
      /\ UNCHANGED <<source, ended, outbox, wire, parsed, air, lost, crashes>>
  BY SameStarted DEF swarmVars, planners, sockets, buffers
<1>2. /\ PlannersTyped' /\ SocketsTyped' /\ NetworkTyped' /\ BuffersOK' /\ Lengths' /\ ServersRead'
      /\ SentOnce' /\ MadeOfIt' /\ HoldsTheChain' /\ Planned' /\ StartsInOrder' /\ SlotsHeld'
  BY <1>1, LeftAlone
<1> QED
  BY <1>2 DEF SwarmInv

LEMMA SwarmNextInv ==
  ASSUME SwarmInv, [SwarmNext]_swarmVars PROVE SwarmInv'
<1>1. CASE UNCHANGED swarmVars
  BY <1>1, SwarmStuttering
<1>2. ASSUME NEW d \in Drones, Step(d) PROVE SwarmInv'
  <2>1. CASE Odometry(d)
    BY <2>1, OdometryKeeps
  <2>2. CASE SequentialStart(d)
    BY <2>2, SequentialStartKeeps
  <2>3. CASE Replan(d)
    BY <2>3, ReplanKeeps
  <2>4. CASE BroadcastBspline(d)
    BY <2>4, BroadcastBsplineKeeps
  <2>5. CASE StartBridge(d)
    BY <2>5, StartBridgeKeeps
  <2>6. CASE Connect(d)
    BY <2>6, ConnectKeeps
  <2>7. CASE Accept(d)
    BY <2>7, AcceptKeeps
  <2>8. CASE SendMulti(d)
    BY <2>8, SendMultiKeeps
  <2>9. CASE Read(d)
    BY <2>9, ReadKeeps
  <2>10. CASE PublishTrajs(d)
    BY <2>10, PublishTrajsKeeps
  <2>11. CASE EndOfStream(d)
    BY <2>11, EndOfStreamKeeps
  <2>12. CASE Crash(d)
    BY <2>12, CrashKeeps
  <2>13. CASE TriggerComes(d)
    BY <2>13, TriggerComesKeeps
  <2>14. CASE GenNewTraj(d)
    BY <2>14, GenNewTrajKeeps
  <2> QED
    BY <1>2, <2>1, <2>2, <2>3, <2>4, <2>5, <2>6, <2>7, <2>8, <2>9, <2>10, <2>11, <2>12, <2>13, <2>14 DEF Step
<1> QED
  BY <1>1, <1>2 DEF SwarmNext

(* The invariant holds of every swarm, however messages are cut, bridges   *)
(* die and drones lose sight of each other.                                *)
THEOREM SwarmInvariant == SwarmSpec => []SwarmInv
<1>1. SwarmInit => SwarmInv
  BY SwarmInitInv
<1>2. SwarmInv /\ [SwarmNext]_swarmVars => SwarmInv'
  BY SwarmNextInv
<1> QED
  BY <1>1, <1>2, PTL DEF SwarmSpec

(* A drone that waits for its turn leaves SEQUENTIAL_START only after every *)
(* drone before it did (checkReadyToStart and swarmTrajsCallback): wherever *)
(* read() cuts the stream nothing is taken for the start message but that   *)
(* message, and a drone that leaves by WAIT_TARGET starts nobody.           *)
THEOREM DronesStartInOrder == SwarmSpec => []StartsInOrder
<1>1. SwarmInv => StartsInOrder
  BY DEF SwarmInv
<1> QED
  BY <1>1, SwarmInvariant, PTL

(* The state is well formed, and slot i of a planner, if it is in use,     *)
(* holds a trajectory drone i has planned, however it came to be there.    *)
THEOREM SlotsHoldTheirDrones == SwarmSpec => []SlotHoldsItsDrone
<1>1. SwarmInv => SlotHoldsItsDrone
  <2>1. SUFFICES ASSUME SwarmInv PROVE SlotHoldsItsDrone
    OBVIOUS
  <2>2. SwarmTypeOK
    <3>1. PlannersTyped /\ SocketsTyped /\ NetworkTyped /\ Lengths
      BY <2>1 DEF SwarmInv
    <3> QED
      BY <3>1 DEF SwarmTypeOK, PlannersTyped, SocketsTyped, NetworkTyped, Lengths
  <2>3. SlotsHeld
    BY <2>1 DEF SwarmInv
  <2> QED
    BY <2>2, <2>3 DEF SlotHoldsItsDrone, SlotsHeld
<1> QED
  BY <1>1, SwarmInvariant, PTL

(* The list a drone sends on is its own trajectory after those of all the  *)
(* drones before it (publishSwarmTrajs).                                   *)
THEOREM DronesSendTheWholeChain == SwarmSpec => []SendsTheWholeChain
<1>1. SwarmInv => SendsTheWholeChain
  <2>1. SUFFICES ASSUME SwarmInv, NEW d \in Drones, outbox[d] # <<>>
                 PROVE  /\ Head(outbox[d]).drone_id_from = d
                        /\ [i \in DOMAIN Head(outbox[d]).traj |-> Head(outbox[d]).traj[i].drone_id]
                             = [i \in 1 .. d + 1 |-> i - 1]
    BY DEF SendsTheWholeChain
  <2>2. Head(outbox[d]) = StartMessage(d)
    <3> DEFINE t == StartMessage(d)
    <3>1. outbox[d] = <<t>>
      BY <2>1 DEF SwarmInv, SentOnce
    <3> HIDE DEF t
    <3>2. Head(<<t>>) = t
      OBVIOUS
    <3> QED
      BY <3>1, <3>2 DEF t
  <2>3. /\ StartMessage(d).drone_id_from = d /\ StartMessage(d).traj = Chain(d + 1) /\ d + 1 \in Nat
        /\ \A i \in 1 .. d + 1 : StartMessage(d).traj[i] = Bspline(i - 1, 1)
    BY StartMessages
  <2>4. DOMAIN StartMessage(d).traj = 1 .. d + 1
    BY <2>3, ChainLength
  <2>5. \A i \in 1 .. d + 1 : StartMessage(d).traj[i].drone_id = i - 1
    <3>1. ASSUME NEW i \in 1 .. d + 1 PROVE StartMessage(d).traj[i].drone_id = i - 1
      <4>1. StartMessage(d).traj[i] = Bspline(i - 1, 1)
        BY <2>3
      <4>2. Bspline(i - 1, 1).drone_id = i - 1
        BY DEF Bspline
      <4> QED
        BY <4>1, <4>2
    <3> QED
      BY <3>1
  <2>6. [i \in 1 .. d + 1 |-> StartMessage(d).traj[i].drone_id] = [i \in 1 .. d + 1 |-> i - 1]
    BY <2>5
  <2> QED
    BY <2>2, <2>3, <2>4, <2>6
<1> QED
  BY <1>1, SwarmInvariant, PTL

-----------------------------------------------------------------------------
(* What becomes of a start message.                                        *)

(* From drone d to drone d+1: queued by the bridge, sent, put together     *)
(* again, or taken by the planner that waits for it.                       *)
OnItsWay(d) == outbox[d] # <<>> \/ wire[d] # <<>> \/ parsed[d + 1] = <<StartMessage(d)>> \/ recv_pre[d + 1]

NoneVanishes == \A d \in Drones : d + 1 \in Drones /\ in_turn[d] => OnItsWay(d) \/ d \in lost

LEMMA StillOnItsWay ==
  ASSUME NoneVanishes, UNCHANGED in_turn, lost \subseteq lost',
         \A e \in Drones : e + 1 \in Drones /\ in_turn[e] /\ OnItsWay(e) => OnItsWay(e)' \/ e \in lost'
  PROVE  NoneVanishes'
<1>1. ASSUME NEW e \in Drones, e + 1 \in Drones, in_turn'[e] PROVE OnItsWay(e)' \/ e \in lost'
  <2>1. in_turn[e]
    BY <1>1
  <2>2. OnItsWay(e) \/ e \in lost
    BY <1>1, <2>1, Zenon DEF NoneVanishes
  <2> QED
    BY <1>1, <2>1, <2>2, Zenon
<1>2. Drones' = Drones
  BY DEF Drones
<1> QED
  BY <1>1, <1>2, Zenon DEF NoneVanishes

LEMMA SameWay ==
  ASSUME NoneVanishes, UNCHANGED <<in_turn, outbox, wire, parsed, recv_pre, lost>>
  PROVE  NoneVanishes'
  BY DEF NoneVanishes, OnItsWay

(* A start message that was put together came from the drone it names.     *)
LEMMA SourceIsSender ==
  ASSUME SwarmInv, NEW d \in Drones, NEW e \in Drones, parsed[d] = <<StartMessage(e)>>
  PROVE  source[d] = e /\ wire[e] = <<>> /\ StartMessage(e) # Abort
<1> DEFINE t == StartMessage(e)
           u == StartMessage(source[d])
<1>1. /\ t \in Messages /\ t.drone_id_from = e /\ Len(t.traj) = e + 1 /\ e \in Nat /\ e + 1 \in Nat
      /\ t.traj[1] = Bspline(0, 1)
  <2>1. e \in Nat
    BY DroneNumbers
  <2>2. 1 \in 1 .. e + 1 /\ 1 - 1 = 0
    BY <2>1
  <2> HIDE DEF t
  <2>3. /\ t \in Messages /\ t.drone_id_from = e /\ Len(t.traj) = e + 1 /\ e + 1 \in Nat
        /\ \A i \in 1 .. e + 1 : t.traj[i] = Bspline(i - 1, 1)
    BY StartMessages DEF t
  <2>4. t.traj[1] = Bspline(1 - 1, 1)
    BY <2>2, <2>3, Zenon
  <2> QED
    BY <2>1, <2>2, <2>3, <2>4
<1>2. Bspline(0, 1).order = 3
  BY DEF Bspline
<1>3. t # Abort
  <2>1. Abort.drone_id_from = Nobody
    BY DEF Abort, Message
  <2>2. e # Nobody
    BY DroneNumbers
  <2> HIDE DEF t
  <2> QED
    BY <1>1, <2>1, <2>2
<1> HIDE DEF t, u
<1>4. parsed[d] = <<t>>
  BY DEF t
<1>5. parsed[d] # <<>> /\ Len(parsed[d]) = 1 /\ parsed[d][1] = t
  BY <1>4
<1>6. source[d] \in Drones /\ wire[source[d]] = <<>> /\ (parsed[d] = <<u>> \/ AllUnfit(parsed[d]))
  BY <1>5 DEF SwarmInv, ServersRead, SocketsTyped, MadeOfIt, u
<1>7. ~AllUnfit(parsed[d])
  <2>1. SUFFICES ASSUME AllUnfit(parsed[d]) PROVE FALSE
    OBVIOUS
  <2>2. Unfit(t)
    BY <1>5, <2>1 DEF AllUnfit
  <2>3. Len(t.traj) <= 1 /\ (Len(t.traj) = 1 => t.traj[1].order # 3)
    BY <1>3, <2>2 DEF Unfit
  <2>4. Len(t.traj) = 1
    BY <1>1, <2>3
  <2> QED
    BY <1>1, <1>2, <2>3, <2>4
<1>8. u = t
  <2>1. <<u>> = <<t>>
    BY <1>4, <1>6, <1>7
  <2>2. <<u>>[1] = <<t>>[1]
    BY <2>1, Zenon
  <2> QED
    BY <2>2
<1>9. source[d] = e
  BY <1>1, <1>6, <1>8, StartMessages DEF u
<1> QED
  BY <1>3, <1>6, <1>9 DEF t

LEMMA SequentialStartSends ==
  ASSUME SwarmInv, NoneVanishes, NEW d \in Drones, SequentialStart(d) PROVE NoneVanishes'
<1>1. /\ \A e \in Drones : e # d => in_turn'[e] = in_turn[e]
      /\ UNCHANGED <<wire, parsed, recv_pre>>
      /\ \/ outbox' = [outbox EXCEPT ![d] = <<multi'[d]>>] /\ UNCHANGED lost
         \/ lost' = lost \cup {d} /\ UNCHANGED outbox
  <2>1. \A e \in Drones : e # d => in_turn'[e] = in_turn[e]
    BY StartsInTurn DEF SwarmInv
  <2> QED
    BY <2>1 DEF SequentialStart
<1>2. outbox \in [Drones -> Seq(Messages)]
  BY DEF SwarmInv, BuffersOK
<1>3. /\ lost \subseteq lost' /\ (outbox'[d] # <<>> \/ d \in lost')
      /\ \A e \in Drones : e # d => outbox'[e] = outbox[e]
  <2> DEFINE m == multi'[d]
  <2>1. <<m>> # <<>>
    OBVIOUS
  <2> HIDE DEF m
  <2>2. \/ outbox' = [outbox EXCEPT ![d] = <<m>>] /\ UNCHANGED lost
        \/ lost' = lost \cup {d} /\ UNCHANGED outbox
    BY <1>1 DEF m
  <2> DEFINE b == <<m>>
  <2>3. \/ outbox' = [outbox EXCEPT ![d] = b] /\ UNCHANGED lost
        \/ lost' = lost \cup {d} /\ UNCHANGED outbox
    BY <2>2
  <2>4. b # <<>>
    BY <2>1
  <2> HIDE DEF b
  <2> QED
    BY <1>2, <2>3, <2>4
<1>4. ASSUME NEW e \in Drones, e + 1 \in Drones, in_turn'[e] PROVE OnItsWay(e)' \/ e \in lost'
  <2>1. CASE e = d
    BY <1>3, <2>1 DEF OnItsWay
  <2>2. CASE e # d
    <3>1. in_turn[e]
      BY <1>1, <1>4, <2>2
    <3>2. OnItsWay(e) \/ e \in lost
      BY <1>4, <3>1, Zenon DEF NoneVanishes
    <3> QED
      BY <1>1, <1>3, <2>2, <3>2 DEF OnItsWay
  <2> QED
    BY <2>1, <2>2
<1> QED
  BY <1>4, Zenon DEF NoneVanishes, Drones

LEMMA AcceptLeaves ==
  ASSUME SwarmInv, NoneVanishes, NEW d \in Drones, Accept(d) PROVE NoneVanishes'
<1>1. UNCHANGED <<start, flying, in_turn, outbox, parsed, recv_pre>>
  BY SameStarted DEF Accept, planners
<1>2. PICK others : /\ lost' = lost \cup {o \in others : wire[o] # <<>>}
                    /\ wire' = [o \in Drones |-> IF o \in others THEN <<>> ELSE wire[o]]
  BY DEF Accept
<1>3. \A e \in Drones : wire[e] # <<>> => wire'[e] = wire[e] \/ e \in lost'
  BY <1>2
<1>4. lost \subseteq lost'
  BY <1>2
<1>5. \A e \in Drones : e + 1 \in Drones /\ in_turn[e] /\ OnItsWay(e) => OnItsWay(e)' \/ e \in lost'
  BY <1>1, <1>3 DEF OnItsWay
<1> QED
  BY <1>1, <1>4, <1>5, StillOnItsWay

LEMMA SendMultiSends ==
  ASSUME SwarmInv, NoneVanishes, NEW d \in Drones, SendMulti(d) PROVE NoneVanishes'
<1>1. /\ UNCHANGED <<start, flying, in_turn, parsed, recv_pre>>
      /\ outbox[d] # <<>> /\ outbox' = [outbox EXCEPT ![d] = <<>>]
      /\ \/ wire' = [wire EXCEPT ![d] = outbox[d]] /\ UNCHANGED lost
         \/ lost' = lost \cup {d} /\ UNCHANGED wire
  BY SameStarted DEF SendMulti, planners
<1>2. outbox \in [Drones -> Seq(Messages)] /\ wire \in [Drones -> Seq(Messages)]
  BY DEF SwarmInv, BuffersOK
<1>3. /\ lost \subseteq lost' /\ (wire'[d] # <<>> \/ d \in lost')
      /\ \A e \in Drones : e # d => outbox'[e] = outbox[e] /\ wire'[e] = wire[e]
  BY <1>1, <1>2
<1>4. \A e \in Drones : e + 1 \in Drones /\ in_turn[e] /\ OnItsWay(e) => OnItsWay(e)' \/ e \in lost'
  <2>1. ASSUME NEW e \in Drones, OnItsWay(e) PROVE OnItsWay(e)' \/ e \in lost'
    <3>1. CASE e = d
      BY <1>3, <3>1 DEF OnItsWay
    <3>2. CASE e # d
      BY <1>1, <1>3, <2>1, <3>2 DEF OnItsWay
    <3> QED
      BY <3>1, <3>2
  <2> QED
    BY <2>1
<1> QED
  BY <1>1, <1>3, <1>4, StillOnItsWay

(* What dies with a bridge is counted as lost.                             *)
LEMMA DiesLoses ==
  ASSUME SwarmInv, NoneVanishes, NEW d \in Drones, Dies(d), UNCHANGED planners PROVE NoneVanishes'
<1> DEFINE None == <<>>
<1>1. /\ UNCHANGED <<start, flying, in_turn, recv_pre>>
      /\ outbox' = [outbox EXCEPT ![d] = None] /\ parsed' = [parsed EXCEPT ![d] = None]
  BY SameStarted DEF Dies, planners
<1>2. PICK cut : /\ wire' = [o \in Drones |-> IF o \in cut THEN None ELSE wire[o]]
                 /\ lost' = lost \cup {o \in cut : wire[o] # None}
                                 \cup (IF outbox[d] # None THEN {d} ELSE {})
                                 \cup (IF parsed[d] # None THEN {source[d]} ELSE {})
  BY DEF Dies
<1>3. /\ outbox \in [Drones -> Seq(Messages)] /\ parsed \in [Drones -> Seq(Messages)]
  BY DEF SwarmInv, BuffersOK
<1>4. \A e \in Drones : parsed[d] = <<StartMessage(e)>> => source[d] = e /\ parsed[d] # None
  <2>1. ASSUME NEW e \in Drones, parsed[d] = <<StartMessage(e)>> PROVE source[d] = e /\ parsed[d] # None
    <3>1. source[d] = e
      BY <2>1, SourceIsSender
    <3> DEFINE t == StartMessage(e)
    <3> HIDE DEF t
    <3>2. parsed[d] = <<t>>
      BY <2>1 DEF t
    <3> QED
      BY <3>1, <3>2
  <2> QED
    BY <2>1
<1> HIDE DEF None
<1>5. lost \subseteq lost'
  BY <1>2
<1>6. /\ \A e \in Drones : wire[e] # None => wire'[e] = wire[e] \/ e \in lost'
      /\ \A e \in Drones : outbox[e] # None => outbox'[e] = outbox[e] \/ e \in lost'
  BY <1>1, <1>2, <1>3
<1>7. \A e \in Drones : e # d => parsed'[e] = parsed[e]
  BY <1>1, <1>3
<1>8. parsed[d] # None => source[d] \in lost'
  BY <1>2
<1>9. \A e \in Drones : e + 1 \in Drones /\ in_turn[e] /\ OnItsWay(e) => OnItsWay(e)' \/ e \in lost'
  <2>1. ASSUME NEW e \in Drones, e + 1 \in Drones, OnItsWay(e) PROVE OnItsWay(e)' \/ e \in lost'
    <3>1. CASE outbox[e] # None
      BY <1>6, <3>1 DEF OnItsWay, None
    <3>2. CASE wire[e] # None
      BY <1>6, <3>2 DEF OnItsWay, None
    <3>3. CASE recv_pre[e + 1]
      BY <1>1, <3>3 DEF OnItsWay
    <3>4. CASE parsed[e + 1] = <<StartMessage(e)>>
      <4>1. CASE e + 1 = d
        BY <1>4, <1>8, <3>4, <4>1
      <4>2. CASE e + 1 # d
        <5>1. parsed'[e + 1] = parsed[e + 1]
          BY <1>7, <2>1, <4>2
        <5> QED
          BY <3>4, <5>1, Zenon DEF OnItsWay
      <4> QED
        BY <4>1, <4>2
    <3> QED
      BY <2>1, <3>1, <3>2, <3>3, <3>4, Zenon DEF OnItsWay, None
  <2> QED
    BY <2>1
<1> QED
  BY <1>1, <1>5, <1>9, StillOnItsWay

LEMMA ReadMakes ==
  ASSUME SwarmInv, NoneVanishes, NEW d \in Drones, Read(d) PROVE NoneVanishes'
<1> DEFINE from == source[d]
           None == <<>>
<1>1. /\ UNCHANGED <<start, flying, in_turn, recv_pre, outbox>>
      /\ from # Nobody /\ wire[from] # None /\ wire' = [wire EXCEPT ![from] = None]
  BY SameStarted DEF Read, planners
<1>2. PICK r \in ReadsOf[Head(wire[from])] :
        /\ parsed' = [parsed EXCEPT ![d] = r]
        /\ lost' = IF r = wire[from] THEN lost ELSE lost \cup {from}
  BY DEF Read
<1>3. from \in Drones /\ NextDrone(from) = d
  BY <1>1 DEF SwarmInv, SocketsTyped, ServersRead
<1>4. wire[from] = <<StartMessage(from)>>
  BY <1>1, <1>3 DEF SwarmInv, SentOnce
<1>5. wire \in [Drones -> Seq(Messages)] /\ parsed \in [Drones -> Seq(Messages)]
  BY DEF SwarmInv, BuffersOK
<1>6. \A e \in Drones : parsed[d] # <<StartMessage(e)>>
  BY <1>1, SourceIsSender
<1> HIDE DEF from, None
<1>7. /\ lost \subseteq lost' /\ (r = wire[from] \/ from \in lost')
      /\ parsed'[d] = r /\ \A e \in Drones : e # d => parsed'[e] = parsed[e]
      /\ \A e \in Drones : e # from => wire'[e] = wire[e]
  BY <1>1, <1>2, <1>3, <1>5
<1>8. \A e \in Drones : e + 1 \in Drones /\ in_turn[e] /\ OnItsWay(e) => OnItsWay(e)' \/ e \in lost'
  <2>1. ASSUME NEW e \in Drones, e + 1 \in Drones, OnItsWay(e) PROVE OnItsWay(e)' \/ e \in lost'
    <3>1. CASE e = from
      <4>1. e + 1 = d
        BY <1>3, <2>1, <3>1, SwarmAssumption DEF NextDrone, Drones
      <4>2. parsed'[e + 1] = <<StartMessage(e)>> \/ e \in lost'
        BY <1>4, <1>7, <3>1, <4>1
      <4> QED
        BY <4>2, Zenon DEF OnItsWay
    <3>2. CASE e # from
      <4>1. wire'[e] = wire[e]
        BY <1>7, <3>2
      <4>2. parsed[e + 1] = <<StartMessage(e)>> => parsed'[e + 1] = <<StartMessage(e)>>
        BY <1>6, <1>7, <2>1
      <4> QED
        BY <1>1, <2>1, <4>1, <4>2, Zenon DEF OnItsWay
    <3> QED
      BY <3>1, <3>2
  <2> QED
    BY <2>1
<1> QED
  BY <1>1, <1>7, <1>8, StillOnItsWay

LEMMA PublishTrajsTakes ==
  ASSUME SwarmInv, NoneVanishes, NEW d \in Drones, PublishTrajs(d) PROVE NoneVanishes'
<1> DEFINE m == Head(parsed[d])
           s == source[d]
<1>1. CASE m = Abort
  <2>1. Dies(d) /\ UNCHANGED planners
    BY <1>1, Zenon DEF PublishTrajs
  <2> QED
    BY <2>1, DiesLoses
<1>2. CASE m # Abort
  <2>1. /\ parsed' = [parsed EXCEPT ![d] = Tail(parsed[d])]
        /\ SwarmTrajs(d, m)
        /\ lost' = IF Accepts(d, m) THEN lost ELSE lost \cup {s}
        /\ UNCHANGED <<start, flying, in_turn, outbox, wire>>
    <3>1. /\ parsed' = [parsed EXCEPT ![d] = Tail(parsed[d])]
          /\ SwarmTrajs(d, m)
          /\ lost' = IF Accepts(d, m) THEN lost ELSE lost \cup {s}
          /\ UNCHANGED <<start, flying, outbox, wire>>
      BY <1>2, Zenon DEF PublishTrajs
    <3> HIDE DEF m, s
    <3> QED
      BY <3>1, SameStarted
  <2>2. recv_pre \in [Drones -> BOOLEAN] /\ parsed \in [Drones -> Seq(Messages)]
    BY DEF SwarmInv, PlannersTyped, BuffersOK
  <2>3. /\ Accepts(d, m) => recv_pre' = [recv_pre EXCEPT ![d] = TRUE]
        /\ ~Accepts(d, m) => recv_pre' = recv_pre
    BY <2>1, Zenon DEF SwarmTrajs
  <2>4. /\ lost \subseteq lost' /\ (Accepts(d, m) \/ s \in lost')
        /\ \A e \in Drones : e # d => parsed'[e] = parsed[e]
    BY <2>1, <2>2
  <2> HIDE DEF m, s
  <2>5. /\ Accepts(d, m) => recv_pre'[d]
        /\ \A e \in Drones : recv_pre[e] => recv_pre'[e]
    BY <2>2, <2>3
  <2>6. \A e \in Drones : e + 1 \in Drones /\ in_turn[e] /\ OnItsWay(e) => OnItsWay(e)' \/ e \in lost'
    <3>1. ASSUME NEW e \in Drones, e + 1 \in Drones, OnItsWay(e) PROVE OnItsWay(e)' \/ e \in lost'
      <4>1. CASE parsed[e + 1] = <<StartMessage(e)>>
        <5>1. CASE e + 1 = d
          <6>1. s = e
            BY <4>1, <5>1, SourceIsSender DEF s
          <6>2. recv_pre'[e + 1] \/ e \in lost'
            BY <2>4, <2>5, <5>1, <6>1
          <6> QED
            BY <6>2, Zenon DEF OnItsWay
        <5>2. CASE e + 1 # d
          <6>1. parsed'[e + 1] = parsed[e + 1]
            BY <2>4, <3>1, <5>2
          <6> QED
            BY <4>1, <6>1, Zenon DEF OnItsWay
        <5> QED
          BY <5>1, <5>2
      <4>2. CASE recv_pre[e + 1]
        <5>1. recv_pre'[e + 1]
          BY <2>5, <3>1, <4>2
        <5> QED
          BY <5>1, Zenon DEF OnItsWay
      <4>3. CASE outbox[e] # <<>> \/ wire[e] # <<>>
        BY <2>1, <4>3 DEF OnItsWay
      <4> QED
        BY <3>1, <4>1, <4>2, <4>3, Zenon DEF OnItsWay
    <3> QED
      BY <3>1
  <2> QED
    BY <2>1, <2>4, <2>6, StillOnItsWay
<1> QED
  BY <1>1, <1>2

(* Once a drone has left SEQUENTIAL_START (not WAIT_TARGET, from where it  *)
(* sends none) its start message is queued, on its way, put together again *)
(* or taken by the next planner, or it is one of those the                 *)
(* code is known to drop: a bridge that was not up, a connection that      *)
(* failed, was not accepted or broke, a read() that cut it, a planner      *)
(* without odometry.  StartsOrLost adds that none of this waits for ever.  *)
THEOREM NoStartMessageVanishes == SwarmSpec => []NoneVanishes
<1>1. SwarmInit => NoneVanishes
  BY StartedDrones DEF SwarmInit, NoneVanishes
<1>2. SwarmInv /\ NoneVanishes /\ [SwarmNext]_swarmVars => NoneVanishes'
  <2> SUFFICES ASSUME SwarmInv, NoneVanishes, [SwarmNext]_swarmVars PROVE NoneVanishes'
    OBVIOUS
  <2>1. CASE UNCHANGED swarmVars
    <3>1. UNCHANGED <<start, flying, in_turn, outbox, wire, parsed, recv_pre, lost>>
      BY <2>1, SameStarted DEF swarmVars, planners, buffers
    <3> QED
      BY <3>1, SameWay
  <2>2. ASSUME NEW d \in Drones, Step(d) PROVE NoneVanishes'
    <3>1. CASE \/ Odometry(d) \/ Replan(d) \/ BroadcastBspline(d) \/ StartBridge(d) \/ Connect(d)
               \/ EndOfStream(d)
      <4>1. UNCHANGED <<start, flying, outbox, wire, parsed, recv_pre, lost>>
        BY <3>1, Zenon DEF Odometry, Replan, BroadcastBspline, StartBridge, Connect, EndOfStream, planners, buffers
      <4>2. UNCHANGED in_turn
        BY <4>1, SameStarted
      <4> QED
        BY <4>1, <4>2, SameWay
    <3>8. CASE TriggerComes(d) \/ GenNewTraj(d)
      <4>1. UNCHANGED <<outbox, wire, parsed, recv_pre, lost>>
        BY <3>8, Zenon DEF TriggerComes, GenNewTraj, buffers
      <4>2. UNCHANGED in_turn
        BY <3>8, StartsNobody DEF SwarmInv
      <4> QED
        BY <4>1, <4>2, SameWay
    <3>2. CASE SequentialStart(d)
      BY <3>2, SequentialStartSends
    <3>3. CASE Accept(d)
      BY <3>3, AcceptLeaves
    <3>4. CASE SendMulti(d)
      BY <3>4, SendMultiSends
    <3>5. CASE Read(d)
      BY <3>5, ReadMakes
    <3>6. CASE PublishTrajs(d)
      BY <3>6, PublishTrajsTakes
    <3>7. CASE Crash(d)
      <4>1. Dies(d) /\ UNCHANGED planners
        BY <3>7 DEF Crash
      <4> QED
        BY <4>1, DiesLoses
    <3> QED
      BY <2>2, <3>1, <3>2, <3>3, <3>4, <3>5, <3>6, <3>7, <3>8, Zenon DEF Step
  <2> QED
    BY <2>1, <2>2 DEF SwarmNext
<1> QED
  BY <1>1, <1>2, SwarmInvariant, PTL DEF SwarmSpec
=============================================================================
