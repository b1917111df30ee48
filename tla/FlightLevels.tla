---------------------------- MODULE FlightLevels ----------------------------
(***************************************************************************)
(* What px4ctrl promises of its levels of control: L1 manual, L2 hover, L3 *)
(* command, and the automatic take-off and landing between them.           *)
(*                                                                         *)
(* OFFBOARD is asked of the FCU exactly while px4ctrl is above L1.  No     *)
(* level above L1 is entered, changed or left for another one unless the   *)
(* pilot's switch permits it and there is odometry; the way down to L1 is  *)
(* always open.  The take-off alone needs no switch.                       *)
(***************************************************************************)
VARIABLES
  level,  \* the level of control
  asked,  \* the last mode asked of the FCU is OFFBOARD
  hover,  \* the pilot's switch permits px4ctrl to fly
  odom    \* there is odometry

vars == <<level, asked, hover, odom>>

Trans(a, b) == level = a /\ level' = b

Keep == UNCHANGED <<asked, hover, odom>>

Permit == hover /\ odom

Init == level = "L1" /\ ~asked /\ hover \in BOOLEAN /\ ~odom

(* From L1, asking for OFFBOARD.                                           *)
Engage ==
  /\ \/ Trans("L1", "L2") /\ Permit
     \/ Trans("L1", "takeoff") /\ odom
  /\ asked' = TRUE
  /\ UNCHANGED <<hover, odom>>

(* Back to L1, giving OFFBOARD up.                                         *)
Release ==
  /\ level \in {"L2", "L3", "land"} /\ level' = "L1"
  /\ asked' = FALSE
  /\ UNCHANGED <<hover, odom>>

Shift ==
  /\ Permit
  /\ \/ Trans("L2", "L3") \/ Trans("L3", "L2")
     \/ Trans("L2", "land") \/ Trans("land", "L2")
  /\ Keep

Climbed == Trans("takeoff", "L2") /\ Keep

(* The pilot and the odometry.                                             *)
Environment ==
  /\ hover' \in BOOLEAN /\ odom' \in BOOLEAN
  /\ UNCHANGED <<level, asked>>

Next == Engage \/ Release \/ Shift \/ Climbed \/ Environment

Spec == Init /\ [][Next]_vars
=============================================================================
