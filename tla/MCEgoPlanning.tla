---------------------------- MODULE MCEgoPlanning ----------------------------
(* Instances of EgoPlanning for TLC.                                       *)
EXTENDS EgoPlanning, TLC

CONSTANTS p1, p2

TwoPoints == {p1, p2}

Tour == (0 :> p1) @@ (1 :> p2)

OneWaypoint == 0 :> p1
=============================================================================
