---------------------------- MODULE ReboundOptimize ----------------------------
(***************************************************************************)
(* One call after another of reboundReplan(), the local planner: an        *)
(* initial path, the segments of it that run through obstacles, a path     *)
(* around each, the choice of sides, the optimisation that is stopped and  *)
(* restarted when it runs into new obstacles, and the refinement.          *)
(*                                                                         *)
(* A control point is its index 0 .. NumPoints - 1.  Where the points are, *)
(* and so what is occupied, the costs and the paths A* finds, are chosen;  *)
(* of the base points and directions of a control point, all that is kept  *)
(* is whether it has some.                                                 *)
(***************************************************************************)
EXTENDS Integers, Sequences, FiniteSets

CONSTANTS
  NumPoints,        \* control points of a path
  Samples,          \* samples on the line from one control point to the next
  Lines,            \* which of these may be occupied
  Distinctive,      \* what manager/use_distinctive_trajs may be
  Swarm,            \* are there other drones?
  Occupancies,      \* the sets of control points found occupied while optimising
  Costs,            \* final costs, all below 999999
  MAX_RESART_NUMS_SET, MAX_REBOUNDS,
  MaxEvaluations    \* bound: evaluations of the cost the solver makes, at most

order_ == 3
ENOUGH_INTERVAL == 2
MAX_SEGMENTS == 3   \* log(MAX_TRAJS) / log(VARIS)

Points == 0 .. NumPoints - 1

ASSUME SizeAssumption == NumPoints \in Nat /\ NumPoints >= 9 /\ Samples \in Nat \ {0}
ASSUME InputAssumption ==
  /\ Lines \subseteq [1 .. Samples -> BOOLEAN]
  /\ Distinctive \subseteq BOOLEAN /\ Swarm \in BOOLEAN
  /\ Occupancies \subseteq SUBSET Points /\ Costs \subseteq Nat \ {0}
ASSUME LimitAssumption ==
  /\ MAX_RESART_NUMS_SET \in Nat \ {0} /\ MAX_REBOUNDS \in Nat /\ MaxEvaluations \in Nat \ {0}

VARIABLES
  pc,
  use_distinctive_trajs,
  flag_first_init,         \* initControlPoints() of a new path, not of a restart
  scan,                    \* the sampling of the path
  segment_ids, adjusted_segment_ids, final_segment_ids,
  based,                   \* the control points with a base point and direction
  twice,                   \* those of them given two by one initControlPoints()
  selection, trajs,        \* the sides chosen; the trajectories to optimise
  drawn,                   \* the points with a base point in each of these
  restart_nums,
  rebound_times,           \* counted as far as it is read, one past its limit
  iter_num_, min_ellip_dist_, force_stop_type_,
  result, flag_occ, flag_force_return, success,
  min_cost,                \* of the trajectory kept, 0 for none
  planned                  \* what reboundReplan() returned last

mode     == <<use_distinctive_trajs, flag_first_init>>
segments == <<segment_ids, adjusted_segment_ids, final_segment_ids>>
bases    == <<based, twice>>
choice   == <<selection, trajs, drawn>>
counts   == <<restart_nums, rebound_times>>
solver   == <<iter_num_, min_ellip_dist_, force_stop_type_, result>>
flags    == <<flag_occ, flag_force_return, success>>
kept     == <<min_cost>>
vars     == <<pc, mode, scan, segments, bases, choice, counts, solver, flags, kept, planned>>

i_end == NumPoints - order_ - (NumPoints - 2 * order_) \div 3

StartOfScan ==
  [i |-> order_, last_occ |-> FALSE, same |-> ENOUGH_INTERVAL + 1,
   in_id |-> -1, out_id |-> -1, start |-> FALSE, maybe |-> FALSE, hit |-> {}, segs |-> <<>>]

Init ==
  /\ pc = "idle" /\ planned = FALSE
  /\ use_distinctive_trajs \in Distinctive
  /\ flag_first_init = TRUE /\ scan = StartOfScan
  /\ segment_ids = <<>> /\ adjusted_segment_ids = <<>> /\ final_segment_ids = <<>>
  /\ based = {} /\ twice = {} /\ selection = <<>> /\ trajs = <<>> /\ drawn = {}
  /\ restart_nums = 0 /\ rebound_times = 0
  /\ iter_num_ = 0 /\ min_ellip_dist_ = "init" /\ force_stop_type_ = "DONT_STOP"
  /\ result = "none"
  /\ flag_occ = FALSE /\ flag_force_return = FALSE /\ success = FALSE
  /\ min_cost = 0

-----------------------------------------------------------------------------
(* reboundReplan, step 1: a path, from a polynomial or from the previous   *)
(* trajectory, is parameterized and given to initControlPoints().          *)

StartInit(first) ==
  /\ pc' = "scan" /\ flag_first_init' = first /\ scan' = StartOfScan
  /\ segment_ids' = <<>> /\ adjusted_segment_ids' = <<>> /\ final_segment_ids' = <<>>
  /\ based' = IF first THEN {} ELSE based
  /\ twice' = {}

(* Within 0.2 m of the target there is nothing to plan.                    *)
Replan ==
  /\ pc = "idle"
  /\ planned' = FALSE
  /\ \/ StartInit(TRUE)
     \/ UNCHANGED <<pc, flag_first_init, scan, segments, bases>>
  /\ UNCHANGED <<use_distinctive_trajs, choice, counts, solver, flags, kept>>

-----------------------------------------------------------------------------
(* initControlPoints: segments.                                            *)

(* One sample: a segment starts at the first occupied one, and ends when   *)
(* enough free ones have followed.  hit: the lines between two points that *)
(* have an occupied sample and are in no segment yet.                      *)
Starts(sc, occ) == occ /\ ~sc.last_occ /\ (sc.same > ENOUGH_INTERVAL \/ sc.i = order_)
Same(sc, occ) ==
  IF occ = sc.last_occ
  THEN IF sc.same > ENOUGH_INTERVAL THEN sc.same ELSE sc.same + 1
  ELSE 0
MayEnd(sc, occ) == IF occ = sc.last_occ THEN sc.maybe ELSE sc.last_occ
EndsEarly(sc, occ) ==   \* one free sample too few
  MayEnd(sc, occ) /\ (Same(sc, occ) >= ENOUGH_INTERVAL \/ sc.i = NumPoints - order_)
Ends(sc, occ) ==
  MayEnd(sc, occ) /\ (Same(sc, occ) > ENOUGH_INTERVAL \/ sc.i = NumPoints - order_)

Segment(sc, occ) ==
  <<IF Starts(sc, occ) THEN sc.i - 1 ELSE sc.in_id,
    IF sc.last_occ /\ ~occ THEN sc.i ELSE sc.out_id>>

Pushes(sc, occ) == (sc.start \/ Starts(sc, occ)) /\ Ends(sc, occ)

Sampled(sc, occ) ==
  [i |-> sc.i, last_occ |-> occ, same |-> Same(sc, occ),
   in_id |-> Segment(sc, occ)[1],
   out_id |-> Segment(sc, occ)[2],
   start |-> (sc.start \/ Starts(sc, occ)) /\ ~Pushes(sc, occ),
   maybe |-> MayEnd(sc, occ) /\ ~Ends(sc, occ),
   hit |-> {i \in IF occ THEN sc.hit \cup {sc.i} ELSE sc.hit :
              ~(Pushes(sc, occ) /\ i \in Segment(sc, occ)[1] + 1 .. Segment(sc, occ)[2])},
   segs |-> IF Pushes(sc, occ) THEN Append(sc.segs, Segment(sc, occ)) ELSE sc.segs]

(* The line from the point before scan.i to it.                            *)
Line(line) ==
  LET after[n \in 0 .. Samples] == IF n = 0 THEN scan ELSE Sampled(after[n - 1], line[n])
  IN after[Samples]

Sample ==
  /\ pc = "scan" /\ scan.i <= i_end
  /\ \E line \in Lines : scan' = [Line(line) EXCEPT !.i = scan.i + 1]
  /\ UNCHANGED <<pc, mode, segments, bases, choice, counts, solver, flags, kept, planned>>

AfterInit == IF flag_first_init THEN "vary" ELSE "loop"

(* Two neighbours share the points from first of one to second of the      *)
(* other: each keeps its side of the middle.                               *)
Cut(left, right) ==
  LET sum == left[2] + right[1]
  IN IF left[2] >= right[1]
     THEN [second |-> IF sum % 2 = 0 THEN sum \div 2 - 1 ELSE sum \div 2,
           first  |-> sum \div 2 + 1]
     ELSE [second |-> left[2], first |-> right[1]]

(* The code goes from left to right, with what it has just adjusted.       *)
Adjusted(segs) ==
  LET first[k \in 1 .. Len(segs)] ==
        IF k = 1 THEN segs[1][1] ELSE Cut(segs[k - 1], segs[k]).first
  IN [k \in 1 .. Len(segs) |->
        <<first[k], IF k = Len(segs) THEN segs[k][2] ELSE Cut(segs[k], segs[k + 1]).second>>]

(* A path around each segment; the first that is not found ends it all.    *)
FindPaths ==
  /\ pc = "scan" /\ scan.i > i_end
  /\ \/ /\ scan.segs # <<>> /\ pc' = "assign"
        /\ segment_ids' = scan.segs /\ adjusted_segment_ids' = Adjusted(scan.segs)
     \/ pc' = AfterInit /\ UNCHANGED <<segment_ids, adjusted_segment_ids>>
  /\ scan' = StartOfScan
  /\ UNCHANGED <<mode, final_segment_ids, bases, choice, counts, solver, flags, kept, planned>>

-----------------------------------------------------------------------------
(* initControlPoints and check_collision_and_rebound: base points.         *)

Interior(seg) == seg[1] + 1 .. seg[2] - 1
Whole(seg) == seg[1] .. seg[2]

(* The points of a segment that are given a base point.  A point inside is *)
(* given its own when the plane through it meets the path; the others take *)
(* their neighbour's if the last point inside was given one.  Once a plane *)
(* has met the path, one that does not reads an uninitialized point, and   *)
(* is as one that does, or as one that meets it at the control point.      *)
Given(seg, adjusted) ==
  IF Interior(seg) = {} THEN {{}}
  ELSE {Whole(adjusted)} \cup SUBSET (Interior(seg) \ {seg[2] - 1})

(* A segment between two neighbours takes the base point of its first.     *)
GivenShort(seg, adjusted) ==
  IF seg[2] - seg[1] = 1 THEN {{}, {seg[1]} \cup Whole(adjusted)} ELSE {}

CompleteIfAny(seg, given) == given # {}   \* one point with a base point is enough
Complete(seg, given) == seg[2] - 1 \in given \/ (seg[2] - seg[1] = 1 /\ given # {})

Assign ==
  /\ pc = "assign" /\ segment_ids # <<>>
  /\ LET seg == Head(segment_ids)
         adjusted == Head(adjusted_segment_ids)
     IN \E given \in Given(seg, adjusted) \cup GivenShort(seg, adjusted) :
          /\ twice' = IF flag_first_init THEN twice \cup (given \cap based) ELSE twice
          /\ based' = based \cup given
          /\ final_segment_ids' = IF flag_first_init /\ Complete(seg, given)
                                  THEN Append(final_segment_ids, adjusted) ELSE final_segment_ids
  /\ segment_ids' = Tail(segment_ids)
  /\ adjusted_segment_ids' = Tail(adjusted_segment_ids)
  /\ UNCHANGED <<pc, mode, scan, choice, counts, solver, flags, kept, planned>>

Assigned ==
  /\ pc = "assign" /\ segment_ids = <<>>
  /\ pc' = AfterInit
  /\ UNCHANGED <<mode, scan, segments, bases, choice, counts, solver, flags, kept, planned>>

-----------------------------------------------------------------------------
(* distinctiveTrajs.                                                       *)

Upbound == IF Len(final_segment_ids) < MAX_SEGMENTS THEN Len(final_segment_ids) ELSE MAX_SEGMENTS
Varied == {k \in 1 .. Upbound : Whole(final_segment_ids[k]) # {}}

(* The first trajectory to be optimised is the last of the list.           *)
StartOptimizing(list) ==
  /\ pc' = "prepare" /\ trajs' = list
  /\ restart_nums' = 0 /\ rebound_times' = 0

(* A control point with two base points ends it, with no trajectory.       *)
WrongNumber(seg) == seg[1] < seg[2] /\ Whole(seg) \cap twice # {}

(* A segment is dropped when it has no point, or when its other side has   *)
(* no free one near enough.                                                *)
Vary ==
  /\ pc = "vary"
  /\ final_segment_ids' = <<>> /\ twice' = {}
  /\ drawn' = IF use_distinctive_trajs THEN based ELSE {}
  /\ \/ ~use_distinctive_trajs /\ StartOptimizing(<<<<>>>>) /\ selection' = <<>>
     \/ /\ use_distinctive_trajs
        /\ \/ /\ \E k \in Varied : WrongNumber(final_segment_ids[k])
              /\ pc' = "next" /\ trajs' = <<>> /\ selection' = <<>> /\ UNCHANGED counts
           \/ \E n \in 0 .. Cardinality(Varied) :
                IF n = 0 THEN StartOptimizing(<<<<>>>>) /\ selection' = <<>>
                ELSE /\ pc' = "table" /\ trajs' = <<>>
                     /\ selection' = [k \in 1 .. n |-> IF k = 1 THEN -1 ELSE 0]
                     /\ UNCHANGED counts
  /\ UNCHANGED <<mode, scan, segment_ids, adjusted_segment_ids, based, solver, flags, kept, planned>>

OneUpNoCarry(sel) == [sel EXCEPT ![1] = (@ + 1) % 2]   \* the carry is lost

(* One up, with the carry; 0 is the side of the path, 1 the other.         *)
OneUp(sel) ==
  LET digit == CHOOSE d \in DOMAIN sel : sel[d] < 1 /\ \A e \in 1 .. d - 1 : sel[e] = 1
  IN [d \in DOMAIN sel |-> IF d < digit THEN 0 ELSE IF d = digit THEN sel[d] + 1 ELSE sel[d]]

(* pow(VARIS, seg_upbound), of the one to three segments there may be.     *)
max_traj_nums == <<2, 4, 8>>[Len(selection)]

Select ==
  /\ pc = "table"
  /\ IF Len(trajs) < max_traj_nums
     THEN /\ selection' = OneUp(selection) /\ trajs' = Append(trajs, selection')
          /\ UNCHANGED <<pc, counts>>
     ELSE StartOptimizing(trajs) /\ selection' = <<>>
  /\ UNCHANGED <<mode, scan, segments, bases, drawn, solver, flags, kept, planned>>

-----------------------------------------------------------------------------
(* check_collision_and_rebound: the control points are now those of the    *)
(* solver; occ are the occupied ones, and outside those of them that are   *)
(* within a voxel of the far side of a base point.                         *)

CheckedPoints == order_ - 1 .. NumPoints - order_ - (NumPoints - 2 * order_) \div 3

LargestOf(S) == CHOOSE x \in S : \A y \in S : y <= x
SmallestOf(S) == CHOOSE x \in S : \A y \in S : x <= y

FreeAbove(occ, i) == SmallestOf({j \in i + 1 .. NumPoints : j \notin occ})
FreeBelow(occ, i) == LargestOf({j \in 0 .. i - 1 : j \notin occ} \cup {0})

(* The segments from point i on; the point after each is not looked at,    *)
(* and one that reaches past the last point has no end.                    *)
NewSegments(occ, outside) ==
  LET from[i \in order_ - 1 .. NumPoints + 2] ==
        IF i > i_end THEN <<>>
        ELSE IF i \notin occ \ outside THEN from[i + 1]
        ELSE <<<<FreeBelow(occ, i), FreeAbove(occ, i)>>>> \o from[FreeAbove(occ, i) + 2]
  IN from[order_ - 1]

Endless(segs) == segs # <<>> /\ segs[Len(segs)][2] = NumPoints

(* A* finds a path around some of them, and each of these gives base       *)
(* points: the control points that are given one, or one more.             *)
Increasing(rank) == \A j, k \in DOMAIN rank : j < k => rank[j] < rank[k]

Found(segs) ==
  UNION {{[k \in 1 .. n |-> segs[rank[k]]] : rank \in {r \in [1 .. n -> DOMAIN segs] : Increasing(r)}} :
           n \in 0 .. Len(segs)}

Choices(before, seg) == {b \cup given : b \in before, given \in Given(seg, seg)}

Shares(segs) ==
  LET adj == Adjusted(segs)
      share[k \in 0 .. Len(adj)] == IF k = 0 THEN {{}} ELSE Choices(share[k - 1], adj[k])
  IN share[Len(adj)]

CheckCollisionAndRebound(occ) ==
  \E outside \in SUBSET (based \cap occ) :
    LET segs == NewSegments(occ, outside)
    IN IF segs = <<>> THEN force_stop_type_' = "DONT_STOP" /\ UNCHANGED based
       ELSE IF Endless(segs) THEN force_stop_type_' = "STOP_FOR_ERROR" /\ UNCHANGED based
       ELSE /\ force_stop_type_' = "STOP_FOR_REBOUND"
            /\ \E found \in Found(segs) : \E given \in Shares(found) : based' = based \cup given

-----------------------------------------------------------------------------
(* rebound_optimize, and the solver it calls: lbfgs_optimize with its line *)
(* search.                                                                 *)

Prepare ==
  /\ pc = "prepare" /\ pc' = "evaluate"
  /\ min_ellip_dist_' = "init" /\ iter_num_' = 0
  /\ flag_force_return' = FALSE /\ flag_occ' = FALSE /\ success' = FALSE
  /\ result' = "none"
  /\ UNCHANGED <<mode, scan, segments, bases, choice, counts, force_stop_type_,
                 kept, planned>>

(* calcSwarmCost, for the distances looked at; min_ellip_dist_ is the      *)
(* least by which one is short of twice the clearance.                     *)
CalcSwarmCost(distances) ==
  /\ min_ellip_dist_' =
       IF "apart" \in distances \/ min_ellip_dist_ = "apart" THEN "apart"
       ELSE IF "close" \in distances THEN "close" ELSE min_ellip_dist_

(* costFunctionRebound: the control points move; they are checked once the *)
(* path is smooth.                                                         *)
Evaluate(smooth) ==
  /\ pc = "evaluate" /\ pc' = "trial"
  /\ iter_num_' = iter_num_ + 1
  /\ IF iter_num_ > 3 /\ smooth
     THEN \E occ \in Occupancies : CheckCollisionAndRebound(occ)
     ELSE force_stop_type_' = "DONT_STOP" /\ UNCHANGED based
  /\ \E distances \in SUBSET (IF Swarm THEN {"close", "apart"} ELSE {}) : CalcSwarmCost(distances)
  /\ UNCHANGED <<mode, scan, segments, twice, choice, counts, result, flags, kept, planned>>

(* The next trial of the line search asks earlyExit first.                 *)
TryAgain ==
  /\ pc = "trial" /\ iter_num_ < MaxEvaluations
  /\ IF force_stop_type_ = "DONT_STOP"
     THEN pc' = "evaluate" /\ UNCHANGED <<result, flag_force_return, rebound_times>>
     ELSE /\ pc' = "loop" /\ result' = "canceled"
          /\ flag_force_return' = TRUE
          /\ rebound_times' = IF rebound_times > MAX_REBOUNDS THEN rebound_times ELSE rebound_times + 1
  /\ UNCHANGED <<mode, scan, segments, bases, choice, restart_nums, iter_num_,
                 min_ellip_dist_, force_stop_type_, flag_occ, success, kept, planned>>

SolverFails ==
  /\ pc = "trial" /\ iter_num_ > 1
  /\ pc' = "loop" /\ result' = "error"
  /\ UNCHANGED <<mode, scan, segments, bases, choice, counts, iter_num_,
                 min_ellip_dist_, force_stop_type_, flags, kept, planned>>

Converges ==
  /\ pc = "trial"
  /\ pc' = "verdict" /\ result' = "converged"
  /\ UNCHANGED <<mode, scan, segments, bases, choice, counts, iter_num_,
                 min_ellip_dist_, force_stop_type_, flags, kept, planned>>

SwarmTooClose == min_ellip_dist_ = "close"

(* The points are given more base points; what the solver left is not read *)
(* again.                                                                  *)
Restart ==
  /\ restart_nums' = restart_nums + 1
  /\ StartInit(FALSE)
  /\ iter_num_' = 0 /\ force_stop_type_' = "DONT_STOP" /\ result' = "none"

SwarmVerdict ==
  /\ pc = "verdict" /\ SwarmTooClose
  /\ Restart
  /\ UNCHANGED <<use_distinctive_trajs, choice, rebound_times, min_ellip_dist_, flags, kept, planned>>

(* The curve runs free, hits an obstacle, or does so at once.              *)
CurveVerdict ==
  /\ pc = "verdict" /\ ~SwarmTooClose
  /\ \/ /\ pc' = "loop" /\ success' = TRUE
        /\ UNCHANGED <<flag_occ, restart_nums, flag_first_init, scan, segments, bases, iter_num_,
                       force_stop_type_, result>>
     \/ flag_occ' = TRUE /\ Restart /\ UNCHANGED success
     \/ /\ pc' = "next"
        /\ UNCHANGED <<success, flag_occ, restart_nums, flag_first_init, scan, segments, bases,
                       iter_num_, force_stop_type_, result>>
  /\ UNCHANGED <<use_distinctive_trajs, choice, rebound_times, min_ellip_dist_, flag_force_return, kept, planned>>

AgainUnlimited ==   \* the rebounds are not counted
  \/ (flag_occ \/ SwarmTooClose) /\ restart_nums < MAX_RESART_NUMS_SET
  \/ flag_force_return /\ force_stop_type_ = "STOP_FOR_REBOUND"

Again ==
  \/ (flag_occ \/ SwarmTooClose) /\ restart_nums < MAX_RESART_NUMS_SET
  \/ flag_force_return /\ force_stop_type_ = "STOP_FOR_REBOUND" /\ rebound_times <= MAX_REBOUNDS

Loop ==
  /\ pc = "loop" /\ pc' = IF Again THEN "prepare" ELSE "next"
  /\ UNCHANGED <<mode, scan, segments, bases, choice, counts, solver, flags, kept, planned>>

-----------------------------------------------------------------------------
(* reboundReplan, steps 2 and 3.                                           *)

(* The cheapest of the trajectories that pass is kept.                     *)
Keep(cost) ==
  min_cost' = IF min_cost = 0 \/ cost < min_cost THEN cost ELSE min_cost

(* What the solver left is set again before it is read.                    *)
ForgetSolver ==
  /\ iter_num_' = 0 /\ min_ellip_dist_' = "init" /\ force_stop_type_' = "DONT_STOP"
  /\ result' = "none"
  /\ flag_occ' = FALSE /\ flag_force_return' = FALSE /\ success' = FALSE

(* The list is worked off from its end.                                    *)
NextTraj ==
  /\ pc = "next"
  /\ IF success THEN \E cost \in Costs : Keep(cost) ELSE UNCHANGED kept
  /\ ForgetSolver
  /\ LET rest == IF trajs = <<>> THEN <<>> ELSE SubSeq(trajs, 1, Len(trajs) - 1)
     IN IF rest # <<>>
        THEN /\ StartOptimizing(rest) /\ based' = drawn
             /\ UNCHANGED <<drawn, planned>>
        ELSE /\ trajs' = <<>> /\ restart_nums' = 0 /\ rebound_times' = 0
             /\ based' = {} /\ drawn' = {}
             /\ IF min_cost' # 0 THEN pc' = "refine" /\ UNCHANGED planned
                ELSE pc' = "idle" /\ planned' = FALSE
  /\ flag_first_init' = TRUE
  /\ UNCHANGED <<use_distinctive_trajs, scan, segments, twice, selection>>

(* A first drone that is too fast slows down, and may then hit obstacles.  *)
Refine ==
  /\ pc = "refine" /\ pc' = "idle"
  /\ planned' \in BOOLEAN
  /\ min_cost' = 0
  /\ UNCHANGED <<mode, scan, segments, bases, choice, counts, solver, flags>>

-----------------------------------------------------------------------------
Step ==
  \/ Sample \/ FindPaths \/ Assign \/ Assigned
  \/ Vary \/ Select
  \/ Prepare \/ (\E smooth \in BOOLEAN : Evaluate(smooth)) \/ TryAgain \/ SolverFails \/ Converges
  \/ SwarmVerdict \/ CurveVerdict \/ Loop \/ NextTraj \/ Refine

Next == Step \/ Replan

Spec == Init /\ [][Next]_vars

(* reboundReplan() is one call of one thread: once called, it goes on.     *)
(* Weak fairness of Step, said without ENABLED: a Step is possible unless  *)
(* pc = "idle".                                                            *)
FairSpec == Spec /\ ([]<>(pc = "idle") \/ []<><<Step>>_vars)

-----------------------------------------------------------------------------
(* Properties.                                                             *)

Segs == Seq(Points \X Points)

(* The phases, and what the solver and the restarts leave in each.         *)
TypeOK ==
  /\ pc \in {"idle", "scan", "assign", "vary", "table", "prepare", "evaluate", "trial",
             "verdict", "loop", "next", "refine"}
  /\ use_distinctive_trajs \in Distinctive /\ flag_first_init \in BOOLEAN
  /\ scan.i \in order_ .. i_end + 1 /\ scan.segs \in Segs
  /\ scan.same \in 0 .. ENOUGH_INTERVAL + 1 /\ scan.hit \subseteq order_ .. i_end
  /\ segment_ids \in Segs /\ adjusted_segment_ids \in Segs /\ final_segment_ids \in Segs
  /\ based \subseteq Points /\ twice \subseteq based /\ drawn \subseteq Points
  /\ trajs \in Seq(Seq({0, 1})) /\ selection \in Seq({-1, 0, 1})
  /\ restart_nums \in 0 .. MAX_RESART_NUMS_SET /\ rebound_times \in 0 .. MAX_REBOUNDS + 1
  /\ iter_num_ \in 0 .. MaxEvaluations
  /\ min_ellip_dist_ \in {"init", "close", "apart"}
  /\ force_stop_type_ \in {"DONT_STOP", "STOP_FOR_REBOUND", "STOP_FOR_ERROR"}
  /\ result \in {"none", "converged", "canceled", "error"}
  /\ flag_occ \in BOOLEAN /\ flag_force_return \in BOOLEAN /\ success \in BOOLEAN
  /\ min_cost \in Costs \cup {0}
  /\ planned \in BOOLEAN

(* initControlPoints: every line found occupied is in a segment, or in the *)
(* one still open, whatever gaps the samples show: no obstacle seen is     *)
(* left without a path around it.                                          *)
SegmentsCover == pc = "scan" => \A i \in scan.hit : scan.start /\ scan.in_id < i

(* The state is well formed.  After "Avoid overlap" the segments are in    *)
(* order and share no control point, so each point has one side selected;  *)
(* and distinctiveTrajs, which reads the first base point of every control *)
(* point of the segments it is given, finds one there.                     *)
SegmentsReady ==
  /\ TypeOK
  /\ \A segs \in {adjusted_segment_ids, final_segment_ids} :
       \A j, k \in DOMAIN segs : j < k => segs[j][2] < segs[k][1]
  /\ pc = "vary" => \A k \in DOMAIN final_segment_ids : Whole(final_segment_ids[k]) \subseteq based

(* The table has every choice of sides, each once, and never carries past  *)
(* its last digit ("Should not happen!!!").                                *)
EveryChoiceOnce ==
  /\ \A j, k \in DOMAIN trajs : trajs[j] = trajs[k] => j = k
  /\ pc = "table" /\ Len(trajs) = max_traj_nums =>
       {trajs[k] : k \in DOMAIN trajs} = [DOMAIN selection -> {0, 1}]

(* reboundReplan() returns, unless, with another drone too close, the      *)
(* solver gives up or is stopped again and again: this counts as no        *)
(* restart and has no limit.                                               *)
GivesUp == pc = "loop" /\ SwarmTooClose /\ result \in {"error", "canceled"}
Returns == []<>(pc = "idle") \/ []<>GivesUp

=============================================================================
