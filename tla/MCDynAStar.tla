------------------------------ MODULE MCDynAStar ------------------------------
(* An instance of DynAStar for TLC: two searches in a pool of seven by     *)
(* five nodes, of which the inner 15 can be walked on.                     *)
EXTENDS DynAStar

(* Nothing; a wall with a gap; a wall across; a trap around an end, which  *)
(* is itself occupied; obstacles from the end to the edge of the pool.     *)
Walls == {{},
          {<<3, 1>>, <<3, 2>>},
          {<<3, 1>>, <<3, 2>>, <<3, 3>>},
          {<<2, 2>>, <<3, 3>>, <<4, 2>>},
          {<<5, 2>>, <<6, 2>>}}

Distances == {<<3, 0>>, <<4, 0>>, <<0, 1>>}
=============================================================================
