---------------------------- MODULE MCSwarmStart ----------------------------
(* The last drone flies in and out of range of the first.  It hears both    *)
(* others, the first hears it, and the one in the middle hears itself.      *)
EXTENDS SwarmStart

FarPair == {<<2, 0>>}

Listening == {<<2, 0>>, <<2, 1>>, <<0, 2>>, <<1, 1>>}
=============================================================================
