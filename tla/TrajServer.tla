------------------------------ MODULE TrajServer ------------------------------
(***************************************************************************)
(* traj_server: it takes B-splines from the planning/bspline topic and     *)
(* samples the newest it has into /position_cmd every 10 ms.               *)
(***************************************************************************)
EXTENDS Sequences

CONSTANT NoTraj   \* no trajectory received yet

VARIABLES
  bspline,       \* the planning/bspline topic, oldest first
  served,        \* traj_, or NoTraj while receive_traj_ is false
  finished,      \* t_cur >= traj_duration_
  position_cmd   \* the kind of trajectory /position_cmd was sampled from last

serverVars == <<bspline, served, finished, position_cmd>>

ServerInit == served = NoTraj /\ finished = FALSE /\ position_cmd = NoTraj.kind

(* Mutant: a trajectory is not replaced before it is finished.             *)
BsplineCallbackWhenIdle ==
  /\ bspline # <<>>
  /\ bspline' = Tail(bspline)
  /\ served' = (IF served = NoTraj \/ finished THEN Head(bspline) ELSE served)
  /\ finished' = FALSE
  /\ UNCHANGED position_cmd

BsplineCallback ==
  /\ bspline # <<>>
  /\ bspline' = Tail(bspline)
  /\ served' = Head(bspline)
  /\ finished' = FALSE
  /\ UNCHANGED position_cmd

(* Time: the trajectory served comes to its end.                           *)
Finishes ==
  /\ served # NoTraj /\ ~finished
  /\ finished' = TRUE
  /\ UNCHANGED <<bspline, served, position_cmd>>

(* A command while the trajectory lasts, and silence afterwards: the code  *)
(* works out the hover point and returns without publishing it.            *)
CmdCallback ==
  /\ served # NoTraj /\ ~finished
  /\ position_cmd' = served.kind
  /\ UNCHANGED <<bspline, served, finished>>

ServerNext == BsplineCallback \/ Finishes \/ CmdCallback

=============================================================================
