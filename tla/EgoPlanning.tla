------------------------------ MODULE EgoPlanning ------------------------------
(***************************************************************************)
(* The planner node and traj_server: two processes, and the topic          *)
(* planning/bspline between them, which delays and, when it is full,       *)
(* loses its oldest trajectory.                                            *)
(***************************************************************************)
EXTENDS EgoReplanFSM

VARIABLES served, finished, position_cmd

TS == INSTANCE TrajServer

vars == <<egoVars, served, finished, position_cmd>>

PlanningTypeOK ==
  /\ TypeOK
  /\ served \in LocalTrajData
  /\ finished \in BOOLEAN
  /\ position_cmd \in {"none", "plan", "stop"}

Init == EgoInit /\ TS!ServerInit

PlannerStep == EgoNext /\ UNCHANGED <<served, finished, position_cmd>>

ServerStep ==
  /\ TS!ServerNext
  /\ UNCHANGED <<exec_state, thread, flags, safety, target, local_target, local_data, age,
                 swarm, given>>

Next == PlannerStep \/ ServerStep

Spec == Init /\ [][Next]_vars

(* Both processes spin for ever, and ROS runs their timers and delivers    *)
(* their messages.  Nothing is assumed of goals, maps, plans found or time.*)
FairSpec ==
  /\ Spec
  /\ WF_vars(ExecFSM /\ UNCHANGED <<served, finished, position_cmd>>)
  /\ WF_vars(TS!BsplineCallback /\ ServerStep)

-----------------------------------------------------------------------------
(* The server flies, or has on its way as the newest message, the          *)
(* trajectory the planner checks for collisions: there is no trajectory    *)
(* the planner adopts without publishing it, and no lost message is the    *)
(* newest one.                                                             *)
ServerFollowsPlanner ==
  local_data = (IF bspline = <<>> THEN served ELSE bspline[Len(bspline)])

(* An emergency the escape flag is up for stops the vehicle: in the end    *)
(* traj_server serves the stop trajectory, unless the planner has left     *)
(* EMERGENCY_STOP before.                                                  *)
EmergencyReachesServer ==
  (exec_state = "EMERGENCY_STOP" /\ flag_escape_emergency)
    ~> (served.kind = "stop" \/ exec_state # "EMERGENCY_STOP")

=============================================================================
