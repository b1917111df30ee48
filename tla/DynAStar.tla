------------------------------ MODULE DynAStar ------------------------------
(***************************************************************************)
(* The path search of the optimiser (path_searching/dyn_a_star.cpp): A* on *)
(* a pool of nodes that is allocated once and used again by every search.  *)
(* A node's record is valid if its rounds field has the number of the      *)
(* running search.                                                         *)
(*                                                                         *)
(* Two of the three axes are modelled.  Positions are counted in half      *)
(* steps from the centre between the search's two ends, the map is given   *)
(* by the nodes at which checkOccupancy answers true, costs are ten times  *)
(* those of the code.  The ends of a search differ along one axis.         *)
(***************************************************************************)
EXTENDS Integers, Sequences, FiniteSets

CONSTANTS
  PoolX, PoolY,      \* POOL_SIZE_
  Maps,              \* the sets of occupied nodes a search may find
  Halves,            \* half the way from start to end: half steps on each axis
  MaxRounds          \* bound: searches

ASSUME PoolAssumption == PoolX \in Nat \ {0} /\ PoolY \in Nat \ {0} /\ MaxRounds \in Nat

Node == (0 .. PoolX - 1) \X (0 .. PoolY - 1)

ASSUME MapAssumption ==
  /\ Maps \subseteq SUBSET Node
  /\ Halves \subseteq (Nat \X Nat) \ {<<0, 0>>}

None == <<-1, -1>>

(* The nodes that the search may walk on.                                  *)
Inner == (1 .. PoolX - 2) \X (1 .. PoolY - 2)

VARIABLES
  occupied,                             \* checkOccupancy
  half,                                 \* the ends are at -half and +half
  rounds_, openSet_, lowered,           \* lowered: keys changed in the heap
  rounds, state, gScore, fScore, cameFrom,     \* the nodes' records
  start, end,                           \* startPtr, endPtr
  phase,                                \* "ready", "search", "done"
  outcome                               \* how the last search ended

input == <<occupied, half>>
nodes == <<rounds, state, gScore, fScore, cameFrom>>
vars  == <<input, rounds_, openSet_, lowered, nodes, start, end, phase, outcome>>

TypeOK ==
  /\ occupied \in SUBSET Node /\ half \in Halves
  /\ rounds_ \in 0 .. MaxRounds
  /\ openSet_ \subseteq Node /\ lowered \subseteq openSet_
  /\ rounds \in [Node -> 0 .. MaxRounds]
  /\ state \in [Node -> {"OPENSET", "CLOSEDSET", "UNDEFINED"}]
  /\ gScore \in [Node -> Nat] /\ fScore \in [Node -> Nat]
  /\ cameFrom \in [Node -> Node \cup {None}]
  /\ start \in Node \cup {None} /\ end \in Node \cup {None}
  /\ phase \in {"ready", "search", "done"}
  /\ outcome \in {"none", "unable", "found", "exhausted", "late"}

(* initGridMap.  The scores start at inf, which is 1 >> 20: zero.          *)
Init ==
  /\ occupied \in Maps /\ half \in Halves
  /\ rounds_ = 0 /\ openSet_ = {} /\ lowered = {}
  /\ rounds = [n \in Node |-> 0] /\ state = [n \in Node |-> "UNDEFINED"]
  /\ gScore = [n \in Node |-> 0] /\ fScore = [n \in Node |-> 0]
  /\ cameFrom = [n \in Node |-> None]
  /\ start = None /\ end = None /\ phase = "ready" /\ outcome = "none"
-----------------------------------------------------------------------------
Abs(n) == IF n < 0 THEN -n ELSE n

(* Coord2Index: half a step is added and the fraction is cut off, towards  *)
(* zero: what lies before the centre comes out a step too late.            *)
Cut(n) == IF n >= 0 THEN n \div 2 ELSE -((-n) \div 2)

Index(h) == <<Cut(h[1] + 1) + PoolX \div 2, Cut(h[2] + 1) + PoolY \div 2>>

(* A point n steps further out than the end of the way at side (-1 or 1).  *)
Sign(n) == IF n > 0 THEN 1 ELSE 0

Outwards(side, n) == <<side * (half[1] + 2 * n * Sign(half[1])),
                       side * (half[2] + 2 * n * Sign(half[2]))>>

(* ConvertToIndexAndAdjustStartEndPoints: an end inside an obstacle moves  *)
(* out, away from the other one, until it is free or out of the pool.      *)
FirstFree(side) ==
  LET n == CHOOSE n \in 0 .. PoolX + PoolY :
             /\ Index(Outwards(side, n)) \notin Node \cap occupied
             /\ \A m \in 0 .. n - 1 : Index(Outwards(side, m)) \in Node \cap occupied
  IN  Index(Outwards(side, n))

Adjusted(side) == IF FirstFree(side) \in Node THEN FirstFree(side) ELSE None

(* getDiagHeu with one axis at rest, and getHeu: the tie breaker decides   *)
(* between equal sums for the node that is nearer.                         *)
Straight == 10
Diagonal == 14

DiagHeu(a, b) ==
  LET dx == Abs(a[1] - b[1])
      dy == Abs(a[2] - b[2])
      both == IF dx < dy THEN dx ELSE dy
  IN  Diagonal * both + Straight * (dx + dy - 2 * both)

F(g, h) == 1000 * (g + h) + h

(* The node a search starts from has no predecessor, whatever an earlier   *)
(* search has left in it.                                                  *)
KeptParents(s) == cameFrom

StartParents(s) == [cameFrom EXCEPT ![s] = None]

(* AstarSearch up to its loop.                                             *)
Begin ==
  /\ phase = "ready" /\ rounds_ < MaxRounds
  /\ rounds_' = rounds_ + 1
  /\ IF Adjusted(-1) = None \/ Adjusted(1) = None
     THEN /\ phase' = "done" /\ outcome' = "unable"
          /\ UNCHANGED <<input, openSet_, lowered, nodes, start, end>>
     ELSE /\ start' = Adjusted(-1) /\ end' = Adjusted(1)
          /\ rounds' = [rounds EXCEPT ![start'] = rounds_']
          /\ gScore' = [gScore EXCEPT ![start'] = 0]
          /\ fScore' = [fScore EXCEPT ![start'] = F(0, DiagHeu(start', end'))]
          /\ state' = [state EXCEPT ![start'] = "OPENSET"]
          /\ cameFrom' = StartParents(start')
          /\ openSet_' = {start'} /\ lowered' = {} /\ phase' = "search"
          /\ UNCHANGED <<input, outcome>>

(* The node on top of the heap.  A key that is lowered where it stands     *)
(* breaks the heap's order, until that node has left it.                   *)
IsTop(n) ==
  /\ n \in openSet_
  /\ lowered # {} \/ \A m \in openSet_ : fScore[n] <= fScore[m]

Around(n) == {m \in Inner : m # n /\ Abs(m[1] - n[1]) <= 1 /\ Abs(m[2] - n[2]) <= 1}

StepCost(n, m) == IF n[1] = m[1] \/ n[2] = m[2] THEN Straight ELSE Diagonal

ExploredEver(m) == rounds[m] > 0

Explored(m) == rounds[m] = rounds_

(* A node gets its predecessor when it is found and when a shorter way to  *)
(* it is found; the node that is expanded has been popped.                 *)
FoundOnly(new, less) == new

Reached(new, less) == new \cup less

(* One round of the loop on a node that is not the end.                    *)
Expand(n) ==
  /\ phase = "search" /\ IsTop(n) /\ n # end
  /\ LET seen == {m \in Around(n) : ~(Explored(m) /\ state[m] = "CLOSEDSET")}
         free == seen \ occupied
         new  == {m \in free : ~Explored(m)}
         g(m) == gScore[n] + StepCost(n, m)
         less == {m \in free : Explored(m) /\ g(m) < gScore[m]}
         set  == new \cup less
     IN  /\ rounds' = [m \in Node |-> IF m \in seen THEN rounds_ ELSE rounds[m]]
         /\ state' = [m \in Node |-> IF m = n THEN "CLOSEDSET"
                                     ELSE IF m \in new THEN "OPENSET" ELSE state[m]]
         /\ gScore' = [m \in Node |-> IF m \in set THEN g(m) ELSE gScore[m]]
         /\ fScore' = [m \in Node |-> IF m \in set THEN F(g(m), DiagHeu(m, end))
                                      ELSE fScore[m]]
         /\ cameFrom' = [m \in Node |-> IF m \in Reached(new, less) THEN n ELSE cameFrom[m]]
         /\ openSet_' = (openSet_ \ {n}) \cup new
         /\ lowered' = (lowered \ {n}) \cup less
  /\ UNCHANGED <<input, rounds_, start, end, phase, outcome>>

(* The end is on top: the path is retrieved and the search has succeeded.  *)
Reach ==
  /\ phase = "search" /\ IsTop(end)
  /\ openSet_' = openSet_ \ {end} /\ lowered' = lowered \ {end}
  /\ phase' = "done" /\ outcome' = "found"
  /\ UNCHANGED <<input, rounds_, nodes, start, end>>

(* Nothing is left to expand.                                              *)
Exhausted ==
  /\ phase = "search" /\ openSet_ = {}
  /\ phase' = "done" /\ outcome' = "exhausted"
  /\ UNCHANGED <<input, rounds_, openSet_, lowered, nodes, start, end>>

(* A search that has expanded a node may be given up after 0.2 seconds.    *)
TimeLimit ==
  /\ phase = "search" /\ state[start] = "CLOSEDSET"
  /\ phase' = "done" /\ outcome' = "late"
  /\ UNCHANGED <<input, rounds_, openSet_, lowered, nodes, start, end>>

(* The optimiser takes the result and searches again, in a map that has    *)
(* changed meanwhile.                                                      *)
Again ==
  /\ phase = "done"
  /\ phase' = "ready"
  /\ occupied' \in Maps /\ half' \in Halves
  /\ UNCHANGED <<rounds_, openSet_, lowered, nodes, start, end, outcome>>

Search == Begin \/ (\E n \in Node : Expand(n)) \/ Reach \/ Exhausted

Next == Search \/ TimeLimit \/ Again

Spec == Init /\ [][Next]_vars

-----------------------------------------------------------------------------
(* retrievePath, from the end to the start.                                *)
retrievePath ==
  LET from[left \in 0 .. PoolX * PoolY] ==
        [n \in Node |-> IF cameFrom[n] = None \/ left = 0 THEN <<n>>
                        ELSE <<n>> \o from[left - 1][cameFrom[n]]]
  IN  from[PoolX * PoolY][end]

(* A search that succeeds returns a way from end to start over free nodes, *)
(* each next to the one before, no matter what earlier searches have left  *)
(* in the nodes.                                                           *)
PathIsFree ==
  phase = "done" /\ outcome = "found" =>
    LET path == retrievePath IN
    /\ path[1] = end /\ path[Len(path)] = start
    /\ \A i \in DOMAIN path : path[i] \notin occupied
    /\ \A i \in 1 .. Len(path) - 1 : path[i] \in Around(path[i + 1])

(* The records that belong to this search.                                 *)
Valid(n) == rounds[n] = rounds_ /\ n \notin occupied

(* A search that runs out of nodes has no way to find: no free step leads  *)
(* out of the nodes it has closed, and the end is not among them.          *)
Closed == {n \in Node : Valid(n) /\ state[n] = "CLOSEDSET"}

ExhaustedMeansCutOff ==
  phase = "done" /\ outcome = "exhausted" =>
    /\ start \in Closed /\ end \notin Closed
    /\ \A n \in Closed : Around(n) \ occupied \subseteq Closed

(* What a node's record says is the way the search came: its score is that *)
(* of the node it came from, which is closed and next to it, and the step. *)
ScoresAddUp ==
  phase = "search" =>
    \A n \in Node : Valid(n) /\ n # start =>
      /\ cameFrom[n] \in Node /\ n \in Around(cameFrom[n])
      /\ Valid(cameFrom[n]) /\ state[cameFrom[n]] = "CLOSEDSET"
      /\ gScore[n] = gScore[cameFrom[n]] + StepCost(cameFrom[n], n)
=============================================================================
