------------------------- MODULE MCReboundOptimize -------------------------
(* A line with no obstacle, with nothing else, with one at its start, at   *)
(* its end, at both, and in the middle, followed or not by enough free     *)
(* samples.  While optimising: no obstacle, one, two with a point between  *)
(* them, one that reaches the last point.                                  *)
EXTENDS ReboundOptimize

At(samples) == [k \in 1 .. Samples |-> k \in samples]
Some == {At(samples) : samples \in {{}, 1 .. Samples, {1}, {5}, {1, 6}, {2, 3}, {3, 4}}}
Patterns == {{}, {4}, {2, 3, 5}, {5, 6, 7, 8}}
=============================================================================
