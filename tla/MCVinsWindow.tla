----------------------------- MODULE MCVinsWindow -----------------------------
(* Instances of VinsWindow for TLC.                                        *)
EXTENDS VinsWindow

AllSensors == {<<TRUE, FALSE>>, <<TRUE, TRUE>>, <<FALSE, TRUE>>}
CamerasOnly == {<<FALSE, TRUE>>}
=============================================================================
