---------------------------- MODULE MCEgoReplanFSM ----------------------------
(* Instances of EgoReplanFSM for TLC: the planner by itself.  Its topic    *)
(* has nobody who reads it, so it holds the newest trajectory.             *)
EXTENDS EgoReplanFSM, TLC

CONSTANTS p1, p2

TwoPoints == {p1, p2}

OneWaypoint == 0 :> p1

Tour == (0 :> p1) @@ (1 :> p2)
=============================================================================
