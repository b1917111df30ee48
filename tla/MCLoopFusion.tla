---------------------------- MODULE MCLoopFusion ----------------------------
(* Instances of LoopFusion: an empty directory, or a saved graph.          *)
EXTENDS LoopFusion

MCBases == {<<>>, <<None, None, 0>>}
=============================================================================
