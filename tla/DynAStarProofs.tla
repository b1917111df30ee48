--------------------------- MODULE DynAStarProofs ---------------------------
(***************************************************************************)
(* Proofs about DynAStar for every pool, every set of maps and every pair  *)
(* of ends: the records of a running search are those of this search, and  *)
(* add up, a search that runs out of nodes was cut off, so that no way was *)
(* left, one that succeeds returns a free way, and every round of the loop *)
(* closes a node.                                                          *)
(*                                                                         *)
(* None of them is inductive.  Records says besides what the heap holds    *)
(* (the free nodes found and not closed), that every free node of this     *)
(* round is open or closed, that what lies around a closed node has been   *)
(* found, that the end is not closed, and that the start alone has no      *)
(* predecessor.  The way back ends because the scores fall along it.       *)
(***************************************************************************)
EXTENDS DynAStar, SequenceTheorems, FiniteSetTheorems, WellFoundedInduction, TLAPS

Found(n) == Valid(n) /\ state[n] \in {"OPENSET", "CLOSEDSET"}

StartRecord == start \in Node /\ end \in Node /\ Valid(start) /\ gScore[start] = 0
HeapIsOpen  == openSet_ = {n \in Node : Valid(n) /\ state[n] = "OPENSET"}
AllFound    == \A n \in Node : Valid(n) => Found(n)
AroundFound == \A n \in Closed : \A m \in Around(n) \ occupied : Found(m)
EndIsOpen   == end \notin Closed
StartsHere  == cameFrom[start] = None

Records == /\ StartRecord /\ HeapIsOpen /\ AllFound /\ AroundFound /\ EndIsOpen
           /\ StartsHere /\ ScoresAddUp

RoundsPassed == \A n \in Node : rounds[n] <= rounds_

IInv == TypeOK /\ RoundsPassed /\ (phase = "search" => Records) /\ ExhaustedMeansCutOff

-----------------------------------------------------------------------------
(* The arithmetic of nodes and costs.                                      *)

LEMMA AbsNat == \A n \in Int : Abs(n) \in Nat
  BY DEF Abs

LEMMA DiagHeuNat == \A a, b \in Node : DiagHeu(a, b) \in Nat
<1> SUFFICES ASSUME NEW a \in Node, NEW b \in Node PROVE DiagHeu(a, b) \in Nat
  OBVIOUS
<1>1. a[1] - b[1] \in Int /\ a[2] - b[2] \in Int
  BY PoolAssumption DEF Node
<1>2. Abs(a[1] - b[1]) \in Nat /\ Abs(a[2] - b[2]) \in Nat
  BY <1>1, AbsNat
<1> QED
  BY <1>2 DEF DiagHeu, Diagonal, Straight

LEMMA FNat == \A g, h \in Nat : F(g, h) \in Nat
  BY DEF F

LEMMA StepCostPositive == \A n, m : StepCost(n, m) \in {10, 14}
  BY DEF StepCost, Straight, Diagonal

LEMMA AroundNode == \A n : \A m \in Around(n) : m \in Node /\ m # n
<1>1. Inner \subseteq Node
  BY PoolAssumption DEF Inner, Node
<1> QED
  BY <1>1 DEF Around

-----------------------------------------------------------------------------
(* An end that is moved outwards leaves the pool at the latest after as    *)
(* many steps as the pool has nodes on its two sides, so there is a first  *)
(* place that is free or outside.                                          *)
LEMMA LeavesPool ==
  ASSUME NEW side \in {-1, 1}, half \in (Nat \X Nat) \ {<<0, 0>>}
  PROVE  Index(Outwards(side, PoolX + PoolY)) \notin Node
<1> DEFINE n == PoolX + PoolY
           h == Outwards(side, n)
<1>1. half[1] \in Nat /\ half[2] \in Nat /\ (half[1] > 0 \/ half[2] > 0)
  OBVIOUS
<1>2. n \in Nat /\ n >= PoolX /\ n >= PoolY
  BY PoolAssumption
<1>3. ASSUME half[1] > 0 PROVE Index(h) \notin Node
  <2>1. h[1] = side * (half[1] + 2 * n)
    BY <1>1, <1>2, <1>3 DEF Outwards, Sign
  <2>2. CASE side = 1
    <3>1. Cut(h[1] + 1) >= n
      BY <2>1, <2>2, <1>1, <1>2 DEF Cut
    <3> QED
      BY <3>1, <1>1, <1>2, <2>1, <2>2, PoolAssumption DEF Index, Node, Cut
  <2>3. CASE side = -1
    <3>1. Cut(h[1] + 1) <= -n
      BY <2>1, <2>3, <1>1, <1>2, <1>3 DEF Cut
    <3> QED
      BY <3>1, <1>1, <1>2, <2>1, <2>3, PoolAssumption DEF Index, Node, Cut
  <2> QED
    BY <2>2, <2>3
<1>4. ASSUME half[2] > 0 PROVE Index(h) \notin Node
  <2>1. h[2] = side * (half[2] + 2 * n)
    BY <1>1, <1>2, <1>4 DEF Outwards, Sign
  <2>2. CASE side = 1
    <3>1. Cut(h[2] + 1) >= n
      BY <2>1, <2>2, <1>1, <1>2 DEF Cut
    <3> QED
      BY <3>1, <1>1, <1>2, <2>1, <2>2, PoolAssumption DEF Index, Node, Cut
  <2>3. CASE side = -1
    <3>1. Cut(h[2] + 1) <= -n
      BY <2>1, <2>3, <1>1, <1>2, <1>4 DEF Cut
    <3> QED
      BY <3>1, <1>1, <1>2, <2>1, <2>3, PoolAssumption DEF Index, Node, Cut
  <2> QED
    BY <2>2, <2>3
<1> QED
  BY <1>1, <1>3, <1>4

(* A set of naturals that is not empty has a least element.                *)
LEMMA Least ==
  ASSUME NEW T, T \subseteq Nat, T # {}
  PROVE  \E n \in T : \A m \in T : n <= m
<1>1. \E n \in T : \A m \in T : ~(<<m, n>> \in OpToRel(<, Nat))
  BY NatLessThanWellFounded, WFMin
<1>2. PICK n \in T : \A m \in T : ~(<<m, n>> \in OpToRel(<, Nat))
  BY <1>1
<1>3. ASSUME NEW m \in T PROVE n <= m
  <2>1. <<m, n>> \in Nat \X Nat
    BY <1>2
  <2>2. ~(m < n)
    BY <1>2, <2>1 DEF OpToRel
  <2>3. n \in Nat /\ m \in Nat
    OBVIOUS
  <2> QED
    BY <2>2, <2>3
<1> QED
  BY <1>3

LEMMA AdjustedFree ==
  ASSUME NEW side \in {-1, 1}, half \in (Nat \X Nat) \ {<<0, 0>>}
  PROVE  Adjusted(side) = None \/ Adjusted(side) \in Node \ occupied
<1> DEFINE N == PoolX + PoolY
           Free(n) == Index(Outwards(side, n)) \notin Node \cap occupied
           T == {n \in 0 .. N : Free(n)}
<1>1. N \in 0 .. N
  BY PoolAssumption
<1>2. N \in T
  BY <1>1, LeavesPool
<1>3. \E n \in T : \A m \in T : n <= m
  <2>1. T \subseteq Nat
    BY PoolAssumption
  <2> HIDE DEF T
  <2> QED
    BY <1>2, <2>1, Least
<1>4. \E n \in 0 .. N : Free(n) /\ \A m \in 0 .. n - 1 : ~Free(m)
  <2>1. PICK n \in T : \A m \in T : n <= m
    BY <1>3
  <2>2. \A m \in 0 .. n - 1 : m \in 0 .. N /\ ~(n <= m)
    BY <2>1, PoolAssumption
  <2>3. \A m \in 0 .. n - 1 : m \notin T
    BY <2>1, <2>2
  <2> HIDE DEF Free
  <2> QED
    BY <2>1, <2>2, <2>3
<1>5. FirstFree(side) \notin Node \cap occupied
  <2> DEFINE P(n) == /\ Index(Outwards(side, n)) \notin Node \cap occupied
                     /\ \A m \in 0 .. n - 1 : Index(Outwards(side, m)) \in Node \cap occupied
  <2>1. \E n \in 0 .. N : P(n)
    BY <1>4
  <2>2. P(CHOOSE n \in 0 .. N : P(n))
    <3> HIDE DEF P, N
    <3> QED
      BY <2>1
  <2>3. FirstFree(side) = Index(Outwards(side, CHOOSE n \in 0 .. N : P(n)))
    BY DEF FirstFree
  <2> QED
    BY <2>2, <2>3
<1> QED
  BY <1>5 DEF Adjusted
-----------------------------------------------------------------------------
(* Type correctness.                                                       *)

LEMMA TypeBegin == TypeOK /\ Begin => TypeOK'
<1> SUFFICES ASSUME TypeOK, Begin PROVE TypeOK'
  OBVIOUS
<1> USE DEF TypeOK
<1>1. rounds_' \in 0 .. MaxRounds
  BY PoolAssumption DEF Begin
<1>2. UNCHANGED input
  BY DEF Begin
<1>3. CASE Adjusted(-1) = None \/ Adjusted(1) = None
  BY <1>1, <1>2, <1>3 DEF Begin, input, nodes
<1>4. CASE ~(Adjusted(-1) = None \/ Adjusted(1) = None)
  <2>1. start' \in Node /\ end' \in Node
    BY <1>4 DEF Begin, Adjusted
  <2>2. fScore' = [fScore EXCEPT ![start'] = F(0, DiagHeu(start', end'))]
    BY <1>4 DEF Begin
  <2>3. F(0, DiagHeu(start', end')) \in Nat
    BY <2>1, FNat, DiagHeuNat
  <2>4. fScore' \in [Node -> Nat]
    BY <2>2, <2>3
  <2>5. cameFrom' \in [Node -> Node \cup {None}]
    BY <1>4 DEF Begin, StartParents
  <2>6. rounds' \in [Node -> 0 .. MaxRounds] /\ gScore' \in [Node -> Nat]
    BY <1>1, <1>4 DEF Begin
  <2>7. state' \in [Node -> {"OPENSET", "CLOSEDSET", "UNDEFINED"}]
    BY <1>4 DEF Begin
  <2>8. openSet_' \subseteq Node /\ lowered' \subseteq openSet_'
    BY <1>4, <2>1 DEF Begin
  <2>9. phase' = "search" /\ outcome' = outcome
    BY <1>4 DEF Begin
  <2> QED
    BY <1>1, <1>2, <2>1, <2>4, <2>5, <2>6, <2>7, <2>8, <2>9 DEF input
<1> QED
  BY <1>3, <1>4

(* The sets that one round of the loop forms.                              *)
Seen(n) == {m \in Around(n) : ~(Explored(m) /\ state[m] = "CLOSEDSET")}
Unoccupied(n) == Seen(n) \ occupied
New(n)  == {m \in Unoccupied(n) : ~Explored(m)}
Through(n, m) == gScore[n] + StepCost(n, m)
Less(n) == {m \in Unoccupied(n) : Explored(m) /\ Through(n, m) < gScore[m]}

LEMMA ExpandSets ==
  ASSUME NEW n \in Node, Expand(n)
  PROVE  /\ phase = "search" /\ n \in openSet_ /\ n # end
         /\ rounds' = [m \in Node |-> IF m \in Seen(n) THEN rounds_ ELSE rounds[m]]
         /\ state' = [m \in Node |-> IF m = n THEN "CLOSEDSET"
                                     ELSE IF m \in New(n) THEN "OPENSET" ELSE state[m]]
         /\ gScore' = [m \in Node |-> IF m \in New(n) \cup Less(n) THEN Through(n, m) ELSE gScore[m]]
         /\ fScore' = [m \in Node |-> IF m \in New(n) \cup Less(n)
                                      THEN F(Through(n, m), DiagHeu(m, end)) ELSE fScore[m]]
         /\ cameFrom' = [m \in Node |-> IF m \in New(n) \cup Less(n) THEN n ELSE cameFrom[m]]
         /\ openSet_' = (openSet_ \ {n}) \cup New(n)
         /\ lowered' = (lowered \ {n}) \cup Less(n)
         /\ UNCHANGED <<occupied, half, rounds_, start, end, phase, outcome>>
  BY DEF Expand, IsTop, Reached, Seen, Unoccupied, New, Through, Less, input
-----------------------------------------------------------------------------
(* One round of the loop keeps the records.                                *)

LEMMA ExpandFacts ==
  ASSUME IInv, NEW n \in Node, Expand(n)
  PROVE  /\ Records /\ Valid(n) /\ state[n] = "OPENSET"
         /\ New(n) \subseteq Node \ {n} /\ Less(n) \subseteq openSet_ \ {n}
         /\ \A m \in Node : Valid(m)' <=> Valid(m) \/ m \in New(n)
         /\ \A m \in New(n) : ~Valid(m) /\ m \notin occupied /\ m \in Around(n)
         /\ \A m \in Less(n) : Valid(m) /\ state[m] = "OPENSET" /\ m \in Around(n) /\ m # start
         /\ \A m \in Node : Through(n, m) \in Nat
<1> USE DEF TypeOK
<1>1. Records
  BY ExpandSets DEF IInv
<1>2. Valid(n) /\ state[n] = "OPENSET"
  BY <1>1, ExpandSets DEF Records, HeapIsOpen
<1>3. New(n) \subseteq Node \ {n}
  BY AroundNode DEF New, Unoccupied, Seen
<1>4. \A m \in Node : Through(n, m) \in Nat /\ Through(n, m) >= 10
  <2>1. gScore[n] \in Nat
    BY DEF IInv
  <2> QED
    BY <2>1, StepCostPositive DEF Through
<1>5. \A m \in Less(n) : Valid(m) /\ state[m] = "OPENSET" /\ m \in Around(n) /\ m # start
  <2> SUFFICES ASSUME NEW m \in Less(n)
               PROVE  Valid(m) /\ state[m] = "OPENSET" /\ m \in Around(n) /\ m # start
    OBVIOUS
  <2>1. m \in Around(n) /\ m \in Node /\ Valid(m) /\ state[m] # "CLOSEDSET"
    BY AroundNode DEF Less, Unoccupied, Seen, Explored, Valid
  <2>2. Found(m)
    BY <1>1, <2>1 DEF Records, AllFound
  <2>3. Through(n, m) < gScore[m]
    BY DEF Less
  <2>4. m # start
    BY <1>1, <1>4, <2>1, <2>3 DEF Records, StartRecord
  <2> QED
    BY <2>1, <2>2, <2>4 DEF Found
<1>6. Less(n) \subseteq openSet_ \ {n}
  <2>1. \A m \in Less(n) : m \in Node /\ m # n
    BY <1>5, AroundNode
  <2> QED
    BY <1>1, <1>5, <2>1 DEF Records, HeapIsOpen
<1>7. \A m \in New(n) : ~Valid(m) /\ m \notin occupied /\ m \in Around(n)
  BY DEF New, Unoccupied, Seen, Explored, Valid
<1>8. ASSUME NEW m \in Node PROVE Valid(m)' <=> Valid(m) \/ m \in New(n)
  <2>1. rounds'[m] = IF m \in Seen(n) THEN rounds_ ELSE rounds[m]
    BY ExpandSets
  <2>2. rounds_' = rounds_ /\ occupied' = occupied
    BY ExpandSets
  <2> QED
    BY <2>1, <2>2 DEF Valid, New, Unoccupied, Explored
<1> QED
  BY <1>1, <1>2, <1>3, <1>4, <1>5, <1>6, <1>7, <1>8

LEMMA ClosedExpand ==
  ASSUME IInv, NEW n \in Node, Expand(n)
  PROVE  Closed' = Closed \cup {n}
<1>1. ASSUME NEW m \in Node PROVE m \in Closed' <=> m \in Closed \/ m = n
  <2>1. state'[m] = IF m = n THEN "CLOSEDSET" ELSE IF m \in New(n) THEN "OPENSET" ELSE state[m]
    BY ExpandSets
  <2> QED
    BY <2>1, ExpandFacts DEF Closed
<1> QED
  BY <1>1 DEF Closed

LEMMA ExpandKeepsRecords ==
  ASSUME IInv, NEW n \in Node, Expand(n)
  PROVE  Records'
<1> USE DEF TypeOK
<1>1. Records /\ Valid(n) /\ n \in openSet_ /\ n # end
  BY ExpandFacts, ExpandSets
<1>2. UNCHANGED <<occupied, rounds_, start, end, phase>>
  BY ExpandSets
<1>3. \A m \in Node : state'[m] = IF m = n THEN "CLOSEDSET"
                                 ELSE IF m \in New(n) THEN "OPENSET" ELSE state[m]
  BY ExpandSets
<1>4. \A m \in Node : Found(m) => Found(m)'
  BY <1>3, ExpandFacts DEF Found
<1>5. \A m \in New(n) : Found(m)'
  BY <1>3, ExpandFacts DEF Found
<1>6. Found(n)'
  BY <1>1, <1>3, ExpandFacts DEF Found
<1>7. StartRecord' /\ StartsHere'
  <2>1. start \in Node /\ start \notin New(n) /\ start \notin Less(n)
    BY <1>1, ExpandFacts DEF Records, StartRecord
  <2>2. gScore'[start] = gScore[start] /\ cameFrom'[start] = cameFrom[start]
    BY <2>1, ExpandSets
  <2> QED
    BY <1>1, <1>2, <2>1, <2>2, ExpandFacts DEF Records, StartRecord, StartsHere
<1>8. HeapIsOpen'
  <2>1. openSet_' = (openSet_ \ {n}) \cup New(n)
    BY ExpandSets
  <2>2. openSet_ = {m \in Node : Valid(m) /\ state[m] = "OPENSET"}
    BY <1>1 DEF Records, HeapIsOpen
  <2>3. New(n) \subseteq Node
    BY ExpandFacts
  <2>4. ASSUME NEW m \in Node
        PROVE  m \in openSet_' <=> Valid(m)' /\ state'[m] = "OPENSET"
    BY <1>3, <2>1, <2>2, ExpandFacts
  <2>5. openSet_' \subseteq Node
    BY <2>1, <2>2, <2>3
  <2> QED
    BY <2>4, <2>5 DEF HeapIsOpen
<1>9. AllFound'
  <2> SUFFICES ASSUME NEW m \in Node, Valid(m)' PROVE Found(m)'
    BY DEF AllFound
  <2>1. Valid(m) \/ m \in New(n)
    BY ExpandFacts
  <2>2. Valid(m) => Found(m)
    BY <1>1 DEF Records, AllFound
  <2> QED
    BY <1>4, <1>5, <2>1, <2>2
<1>10. AroundFound'
  <2> SUFFICES ASSUME NEW c \in Closed', NEW m \in Around(c) \ occupied PROVE Found(m)'
    BY <1>2 DEF AroundFound, Around
  <2>1. CASE c \in Closed
    <3>1. Found(m)
      BY <1>1, <2>1 DEF Records, AroundFound
    <3> QED
      BY <1>4, <3>1, AroundNode
  <2>2. CASE c = n
    <3>1. m \in Node
      BY AroundNode
    <3>2. m \in New(n) \/ Valid(m)
      BY <2>2 DEF New, Unoccupied, Seen, Explored, Valid
    <3>3. Valid(m) => Found(m)
      BY <1>1, <3>1 DEF Records, AllFound
    <3> QED
      BY <1>4, <1>5, <3>1, <3>2, <3>3
  <2> QED
    BY <2>1, <2>2, ClosedExpand
<1>11. EndIsOpen'
  BY <1>1, <1>2, ClosedExpand DEF Records, EndIsOpen
<1>12. ScoresAddUp'
  <2> SUFFICES ASSUME NEW m \in Node, Valid(m)', m # start
               PROVE  /\ cameFrom'[m] \in Node /\ m \in Around(cameFrom'[m])
                      /\ Valid(cameFrom[m])' /\ state'[cameFrom'[m]] = "CLOSEDSET"
                      /\ gScore'[m] = gScore'[cameFrom'[m]] + StepCost(cameFrom'[m], m)
    BY <1>2 DEF ScoresAddUp, Around, StepCost
  <2>1. CASE m \in New(n) \cup Less(n)
    <3>1. cameFrom'[m] = n /\ gScore'[m] = gScore[n] + StepCost(n, m)
      BY <2>1, ExpandSets DEF Through
    <3>2. gScore'[n] = gScore[n]
      BY ExpandSets, ExpandFacts
    <3>3. Valid(n)' /\ state'[n] = "CLOSEDSET"
      BY <1>1, <1>3, ExpandFacts
    <3>4. Valid(cameFrom[m])'
      BY <3>1, <3>3 DEF Valid
    <3> QED
      BY <2>1, <3>1, <3>2, <3>3, <3>4, ExpandFacts
  <2>2. CASE m \notin New(n) \cup Less(n)
    <3>1. Valid(m)
      BY <2>2, ExpandFacts
    <3>2. cameFrom'[m] = cameFrom[m] /\ gScore'[m] = gScore[m]
      BY <2>2, ExpandSets
    <3>3. /\ cameFrom[m] \in Node /\ m \in Around(cameFrom[m])
          /\ Valid(cameFrom[m]) /\ state[cameFrom[m]] = "CLOSEDSET"
          /\ gScore[m] = gScore[cameFrom[m]] + StepCost(cameFrom[m], m)
      BY <1>1, <3>1, ExpandSets DEF Records, ScoresAddUp
    <3>4. cameFrom[m] \notin New(n) \cup Less(n)
      BY <3>3, ExpandFacts
    <3>5. gScore'[cameFrom[m]] = gScore[cameFrom[m]]
      BY <3>3, <3>4, ExpandSets
    <3>6. state'[cameFrom[m]] = "CLOSEDSET"
      BY <1>3, <3>3, <3>4
    <3>7. Valid(cameFrom[m])'
      <4>1. \A k \in Node : Valid(k) => rounds'[k] = rounds_' /\ k \notin occupied'
        BY ExpandFacts DEF Valid
      <4> QED
        BY <3>2, <3>3, <4>1 DEF Valid
    <3> QED
      BY <3>2, <3>3, <3>5, <3>6, <3>7
  <2> QED
    BY <2>1, <2>2
<1> QED
  BY <1>7, <1>8, <1>9, <1>10, <1>11, <1>12 DEF Records
-----------------------------------------------------------------------------
(* A search begins: no record is of its round but the start's.             *)
LEMMA BeginMakesRecords ==
  ASSUME IInv, Begin, phase' = "search"
  PROVE  Records'
<1> USE DEF TypeOK, IInv
<1>1. Adjusted(-1) # None /\ Adjusted(1) # None
  BY DEF Begin
<1>2. half \in (Nat \X Nat) \ {<<0, 0>>}
  BY MapAssumption
<1>3. /\ start' = Adjusted(-1) /\ end' = Adjusted(1) /\ occupied' = occupied
      /\ rounds_' = rounds_ + 1 /\ openSet_' = {start'}
      /\ rounds' = [rounds EXCEPT ![start'] = rounds_']
      /\ gScore' = [gScore EXCEPT ![start'] = 0]
      /\ state' = [state EXCEPT ![start'] = "OPENSET"]
      /\ cameFrom' = [cameFrom EXCEPT ![start'] = None]
  BY <1>1 DEF Begin, StartParents, input
<1>4. start' \in Node \ occupied /\ end' \in Node
  BY <1>1, <1>2, <1>3, AdjustedFree
<1>5. \A m \in Node : Valid(m)' <=> m = start'
  <2>1. \A m \in Node : m # start' => rounds'[m] = rounds[m] /\ rounds[m] < rounds_'
    BY <1>3 DEF RoundsPassed
  <2>2. \A m \in Node : rounds[m] \in Int
    OBVIOUS
  <2>3. rounds'[start'] = rounds_'
    BY <1>3, <1>4
  <2> QED
    BY <1>3, <1>4, <2>1, <2>2, <2>3 DEF Valid
<1>6. gScore'[start'] = 0 /\ state'[start'] = "OPENSET"
  BY <1>3, <1>4
<1>7. Closed' = {}
  BY <1>5, <1>6 DEF Closed
<1>8. Valid(start)'
  BY <1>3, <1>4 DEF Valid
<1>9. StartRecord'
  BY <1>4, <1>6, <1>8 DEF StartRecord
<1>10. HeapIsOpen'
  BY <1>3, <1>4, <1>5, <1>6 DEF HeapIsOpen
<1>11. AllFound'
  BY <1>5, <1>6 DEF AllFound, Found
<1>12. AroundFound' /\ EndIsOpen'
  BY <1>7 DEF AroundFound, EndIsOpen
<1>13. ScoresAddUp'
  BY <1>5 DEF ScoresAddUp
<1>14. StartsHere'
  BY <1>3, <1>4 DEF StartsHere
<1> QED
  BY <1>9, <1>10, <1>11, <1>12, <1>13, <1>14 DEF Records

(* With an empty heap every free node of the round is closed.              *)
LEMMA ExhaustedIsCutOff ==
  ASSUME IInv, Exhausted
  PROVE  ExhaustedMeansCutOff'
<1>1. Records /\ openSet_ = {}
  BY DEF IInv, Exhausted
<1>2. UNCHANGED <<occupied, rounds_, rounds, state, start, end>>
  BY DEF Exhausted, input, nodes
<1>3. \A m \in Node : Found(m) => m \in Closed
  BY <1>1 DEF Records, HeapIsOpen, Found, Closed
<1>4. start \in Closed
  BY <1>1, <1>3 DEF Records, StartRecord, AllFound
<1>5. \A c \in Closed : Around(c) \ occupied \subseteq Closed
  BY <1>1, <1>3, AroundNode DEF Records, AroundFound
<1>6. end \notin Closed
  BY <1>1 DEF Records, EndIsOpen
<1>7. Closed' = Closed
  BY <1>2 DEF Closed, Valid
<1> QED
  BY <1>2, <1>4, <1>5, <1>6, <1>7 DEF ExhaustedMeansCutOff, Around

LEMMA TypeExpand ==
  ASSUME IInv, NEW n \in Node, Expand(n)
  PROVE  TypeOK'
<1> USE DEF TypeOK
<1>0. TypeOK
  BY DEF IInv
<1>1. UNCHANGED <<occupied, half, rounds_, start, end, phase, outcome>>
  BY ExpandSets
<1>2. end \in Node
  BY ExpandFacts DEF Records, StartRecord
<1>3. \A m \in Node : F(Through(n, m), DiagHeu(m, end)) \in Nat
  BY <1>2, ExpandFacts, DiagHeuNat, FNat
<1>4. fScore' \in [Node -> Nat]
  BY <1>0, <1>3, ExpandSets
<1>5. gScore' \in [Node -> Nat]
  BY <1>0, ExpandSets, ExpandFacts
<1>6. rounds' \in [Node -> 0 .. MaxRounds]
  BY <1>0, ExpandSets
<1>7. state' \in [Node -> {"OPENSET", "CLOSEDSET", "UNDEFINED"}]
  BY <1>0, ExpandSets
<1>8. cameFrom' \in [Node -> Node \cup {None}]
  BY <1>0, ExpandSets
<1>9. openSet_' \subseteq Node /\ lowered' \subseteq openSet_'
  BY <1>0, ExpandSets, ExpandFacts
<1> QED
  BY <1>0, <1>1, <1>4, <1>5, <1>6, <1>7, <1>8, <1>9

-----------------------------------------------------------------------------
LEMMA InitIInv == Init => IInv
<1> SUFFICES ASSUME Init PROVE IInv
  OBVIOUS
<1> USE DEF Init
<1>1. TypeOK
  BY MapAssumption, PoolAssumption DEF TypeOK
<1>2. RoundsPassed
  BY DEF RoundsPassed
<1>3. phase # "search" /\ phase # "done"
  OBVIOUS
<1> QED
  BY <1>1, <1>2, <1>3 DEF IInv, ExhaustedMeansCutOff

LEMMA NextIInv == IInv /\ [Next]_vars => IInv'
<1> SUFFICES ASSUME IInv, [Next]_vars PROVE IInv'
  OBVIOUS
<1>0. TypeOK /\ RoundsPassed
  BY DEF IInv
<1>1. CASE Begin
  <2>1. TypeOK'
    BY <1>0, <1>1, TypeBegin
  <2>2. RoundsPassed'
    <3>1. rounds_' = rounds_ + 1 /\ (rounds' = rounds \/ rounds' = [rounds EXCEPT ![start'] = rounds_'])
      BY <1>1 DEF Begin, nodes
    <3>2. \A m \in Node : rounds[m] \in Int /\ rounds_ \in Int
      BY <1>0 DEF TypeOK
    <3>3. ASSUME NEW m \in Node PROVE rounds'[m] <= rounds_'
      <4>1. rounds'[m] = rounds[m] \/ rounds'[m] = rounds_'
        BY <1>0, <3>1 DEF TypeOK
      <4>2. rounds[m] <= rounds_
        BY <1>0 DEF RoundsPassed
      <4> QED
        BY <3>1, <3>2, <4>1, <4>2
    <3> QED
      BY <3>3 DEF RoundsPassed
  <2>3. phase' = "search" => Records'
    BY <1>1, BeginMakesRecords
  <2>4. phase' = "search" \/ outcome' = "unable"
    BY <1>1 DEF Begin
  <2> QED
    BY <2>1, <2>2, <2>3, <2>4 DEF IInv, ExhaustedMeansCutOff
<1>2. CASE \E n \in Node : Expand(n)
  <2>1. PICK n \in Node : Expand(n)
    BY <1>2
  <2>2. TypeOK' /\ Records'
    BY <2>1, TypeExpand, ExpandKeepsRecords
  <2>3. RoundsPassed'
    <3>1. /\ rounds_' = rounds_
          /\ rounds' = [m \in Node |-> IF m \in Seen(n) THEN rounds_ ELSE rounds[m]]
      BY <2>1, ExpandSets
    <3> QED
      BY <1>0, <3>1 DEF RoundsPassed, TypeOK
  <2>4. phase' = "search"
    BY <2>1, ExpandSets
  <2> QED
    BY <2>2, <2>3, <2>4 DEF IInv, ExhaustedMeansCutOff
<1>3. CASE Reach
  <2>1. TypeOK'
    BY <1>0, <1>3 DEF Reach, TypeOK, input, nodes
  <2>2. RoundsPassed' /\ phase' = "done" /\ outcome' = "found"
    BY <1>0, <1>3 DEF Reach, RoundsPassed, nodes
  <2> QED
    BY <2>1, <2>2 DEF IInv, ExhaustedMeansCutOff
<1>4. CASE Exhausted
  <2>1. TypeOK' /\ RoundsPassed' /\ phase' = "done"
    BY <1>0, <1>4 DEF Exhausted, TypeOK, RoundsPassed, input, nodes
  <2> QED
    BY <1>4, <2>1, ExhaustedIsCutOff DEF IInv
<1>5. CASE TimeLimit
  <2>1. TypeOK' /\ RoundsPassed' /\ phase' = "done" /\ outcome' = "late"
    BY <1>0, <1>5 DEF TimeLimit, TypeOK, RoundsPassed, input, nodes
  <2> QED
    BY <2>1 DEF IInv, ExhaustedMeansCutOff
<1>6. CASE Again
  <2>1. TypeOK' /\ RoundsPassed' /\ phase' = "ready"
    BY <1>0, <1>6, MapAssumption DEF Again, TypeOK, RoundsPassed, nodes
  <2> QED
    BY <2>1 DEF IInv, ExhaustedMeansCutOff
<1>7. CASE UNCHANGED vars
  <2>1. UNCHANGED <<occupied, half, rounds_, openSet_, lowered, rounds, state, gScore, fScore,
                    cameFrom, start, end, phase, outcome>>
    BY <1>7 DEF vars, input, nodes
  <2> QED
    BY <2>1 DEF IInv, TypeOK, RoundsPassed, Records, StartRecord, HeapIsOpen, AllFound, Found,
               AroundFound, EndIsOpen, StartsHere, Closed, ScoresAddUp, ExhaustedMeansCutOff, Valid, Around,
               StepCost
<1> QED
  BY <1>1, <1>2, <1>3, <1>4, <1>5, <1>6, <1>7 DEF Next, Search

THEOREM Invariant == Spec => []IInv
  BY InitIInv, NextIInv, PTL DEF Spec

(* The nodes' records keep their types through every search.               *)
THEOREM TypeCorrect == Spec => []TypeOK
  BY Invariant, PTL DEF IInv

(* The way a search came is what its records say (AstarSearch:219-233).    *)
THEOREM RecordsAddUp == Spec => []ScoresAddUp
<1>1. IInv => ScoresAddUp
  BY DEF IInv, Records, ScoresAddUp
<1> QED
  BY <1>1, Invariant, PTL

(* A search that gives up for want of nodes was cut off from the end.      *)
THEOREM GivesUpCutOff == Spec => []ExhaustedMeansCutOff
  BY Invariant, PTL DEF IInv
-----------------------------------------------------------------------------
(* What is defined one step after another exists.                          *)
Runs(f, k, S, s0, step) ==
  /\ f \in [0 .. k -> S]
  /\ f[0] = s0 /\ \A n \in 1 .. k : f[n] = step[<<f[n - 1], n>>]

LEMMA StepByStep ==
  ASSUME NEW N \in Nat, NEW S, NEW s0 \in S, NEW step \in [S \X (1 .. N) -> S]
  PROVE  \E f : Runs(f, N, S, s0, step)
<1> DEFINE T == {k \in 0 .. N : ~\E f : Runs(f, k, S, s0, step)}
<1>1. T \subseteq Nat
  OBVIOUS
<1>2. ASSUME T # {} PROVE FALSE
  <2>1. PICK k \in T : \A m \in T : k <= m
    BY <1>1, <1>2, Least
  <2>2. k # 0
    <3>1. Runs([n \in 0 .. 0 |-> s0], 0, S, s0, step)
      BY DEF Runs
    <3> QED
      BY <2>1, <3>1
  <2>3. k - 1 \in 0 .. N /\ k \in Nat /\ k \in 1 .. N /\ ~(k <= k - 1)
    BY <1>1, <2>1, <2>2
  <2>4. PICK f : Runs(f, k - 1, S, s0, step)
    BY <2>1, <2>3
  <2> DEFINE g == [n \in 0 .. k |-> IF n = k THEN step[<<f[k - 1], k>>] ELSE f[n]]
  <2>5. f[k - 1] \in S
    BY <2>3, <2>4 DEF Runs
  <2>6. step[<<f[k - 1], k>>] \in S
    BY <2>3, <2>5
  <2>7. \A n \in 0 .. k - 1 : n \in 0 .. k /\ n # k /\ f[n] \in S
    BY <2>3, <2>4 DEF Runs
  <2>8. g \in [0 .. k -> S]
    <3>1. \A n \in 0 .. k : n # k => n \in 0 .. k - 1
      BY <2>3
    <3> QED
      BY <2>6, <2>7, <3>1
  <2>9. \A n \in 0 .. k - 1 : g[n] = f[n]
    BY <2>7
  <2>10. g[k] = step[<<f[k - 1], k>>]
    <3>1. k \in 0 .. k
      BY <2>3
    <3> QED
      BY <3>1
  <2> HIDE DEF g
  <2>11. g[0] = s0
    <3>1. 0 \in 0 .. k - 1
      BY <2>3
    <3> QED
      BY <2>4, <2>9, <3>1 DEF Runs
  <2>12. ASSUME NEW n \in 1 .. k PROVE g[n] = step[<<g[n - 1], n>>]
    <3>1. n - 1 \in 0 .. k - 1
      BY <2>3
    <3>2. g[n - 1] = f[n - 1]
      BY <2>9, <3>1
    <3>3. CASE n = k
      BY <2>10, <3>2, <3>3
    <3>4. CASE n # k
      <4>1. n \in 1 .. k - 1 /\ n \in 0 .. k - 1
        BY <2>3, <3>4
      <4> QED
        BY <2>4, <2>9, <3>2, <4>1 DEF Runs
    <3> QED
      BY <3>3, <3>4
  <2>13. Runs(g, k, S, s0, step)
    BY <2>8, <2>11, <2>12 DEF Runs
  <2> QED
    BY <2>1, <2>13
<1>3. \E f : Runs(f, N, S, s0, step)
  <2>1. N \in 0 .. N
    OBVIOUS
  <2> QED
    BY <1>2, <2>1
<1> QED
  BY <1>3

(* The path that is retrieved.  Scores fall from a node to the one it came *)
(* from, so fewer and fewer nodes have a smaller score, and the start is   *)
(* reached in less steps than the pool has nodes.                          *)

Extended(came, before) ==
  [n \in Node |-> IF came[n] = None THEN <<n>> ELSE <<n>> \o before[came[n]]]

WaysOf(came) ==
  CHOOSE from : from =
    [left \in 0 .. PoolX * PoolY |->
       [n \in Node |-> IF came[n] = None \/ left = 0 THEN <<n>>
                       ELSE <<n>> \o from[left - 1][came[n]]]]

LEMMA Retrieved == retrievePath = WaysOf(cameFrom)[PoolX * PoolY][end]
  BY Zenon DEF retrievePath, WaysOf

LEMMA RetrievedNext == retrievePath' = WaysOf(cameFrom')[(PoolX * PoolY)'][end']
  BY Zenon DEF retrievePath, WaysOf

LEMMA PoolSize == PoolX * PoolY \in Nat /\ IsFiniteSet(Node) /\ Cardinality(Node) = PoolX * PoolY
<1>1. PoolX \in Nat \ {0} /\ PoolY \in Nat \ {0} /\ 0 \in Int /\ PoolX - 1 \in Int /\ PoolY - 1 \in Int
  BY PoolAssumption
<1>2. IsFiniteSet(0 .. PoolX - 1) /\ Cardinality(0 .. PoolX - 1) = PoolX
  BY <1>1, FS_Interval
<1>3. IsFiniteSet(0 .. PoolY - 1) /\ Cardinality(0 .. PoolY - 1) = PoolY
  BY <1>1, FS_Interval
<1>4. IsFiniteSet(Node) /\ Cardinality(Node) = PoolX * PoolY
  <2> DEFINE A == 0 .. PoolX - 1
             B == 0 .. PoolY - 1
  <2>1. Node = A \X B /\ IsFiniteSet(A) /\ IsFiniteSet(B)
    BY <1>2, <1>3 DEF Node
  <2>2. Cardinality(A) = PoolX /\ Cardinality(B) = PoolY
    BY <1>2, <1>3
  <2> HIDE DEF A, B
  <2>3. IsFiniteSet(A \X B) /\ Cardinality(A \X B) = Cardinality(A) * Cardinality(B)
    BY <2>1, FS_Product
  <2> QED
    BY <2>1, <2>2, <2>3
<1>5. PoolX * PoolY \in Nat
  BY <1>1
<1> QED
  BY <1>4, <1>5

(* A node put before a path.                                               *)
LEMMA Single == \A n \in Node : <<n>> \in Seq(Node) /\ Len(<<n>>) = 1 /\ <<n>>[1] = n
<1> SUFFICES ASSUME NEW n \in Node PROVE <<n>> \in Seq(Node) /\ Len(<<n>>) = 1 /\ <<n>>[1] = n
  OBVIOUS
<1> HIDE DEF Node
<1> QED
  OBVIOUS

LEMMA Before ==
  ASSUME NEW n \in Node, NEW p \in Seq(Node)
  PROVE  /\ <<n>> \o p \in Seq(Node) /\ Len(<<n>> \o p) = Len(p) + 1
         /\ (<<n>> \o p)[1] = n
         /\ \A i \in 1 .. Len(p) : (<<n>> \o p)[i + 1] = p[i]
<1> DEFINE s == <<n>>
<1>1. s \in Seq(Node) /\ Len(s) = 1 /\ s[1] = n
  BY Single
<1>2. Len(p) \in Nat
  BY LenProperties
<1> HIDE DEF s
<1>3. /\ s \o p \in Seq(Node) /\ Len(s \o p) = 1 + Len(p)
      /\ \A i \in 1 .. 1 + Len(p) : (s \o p)[i] = IF i <= 1 THEN s[i] ELSE p[i - 1]
  <2>1. /\ s \o p \in Seq(Node) /\ Len(s \o p) = Len(s) + Len(p)
        /\ \A i \in 1 .. Len(s) + Len(p) : (s \o p)[i] = IF i <= Len(s) THEN s[i] ELSE p[i - Len(s)]
    BY <1>1, ConcatProperties, Zenon
  <2> QED
    BY <1>1, <2>1
<1>4. (s \o p)[1] = n
  BY <1>1, <1>2, <1>3
<1>5. ASSUME NEW i \in 1 .. Len(p) PROVE (s \o p)[i + 1] = p[i]
  <2>1. i + 1 \in 1 .. 1 + Len(p) /\ ~(i + 1 <= 1) /\ (i + 1) - 1 = i
    BY <1>2
  <2> QED
    BY <1>3, <2>1
<1>6. /\ s \o p \in Seq(Node) /\ Len(s \o p) = Len(p) + 1
      /\ (s \o p)[1] = n
      /\ \A i \in 1 .. Len(p) : (s \o p)[i + 1] = p[i]
  BY <1>2, <1>3, <1>4, <1>5
<1> QED
  BY <1>6 DEF s

(* The recursion of retrievePath, unfolded.                                *)
LEMMA WaysUnfold ==
  ASSUME NEW came \in [Node -> Node \cup {None}]
  PROVE  /\ \A n \in Node : WaysOf(came)[0][n] = <<n>>
         /\ \A left \in 1 .. PoolX * PoolY : \A n \in Node :
              WaysOf(came)[left][n] = IF came[n] = None THEN <<n>>
                                      ELSE <<n>> \o WaysOf(came)[left - 1][came[n]]
<1> DEFINE N == PoolX * PoolY
           S == [Node -> Seq(Node)]
           s0 == [n \in Node |-> <<n>>]
           step == [p \in S \X (1 .. N) |-> Extended(came, p[1])]
           Round(f, left) == [n \in Node |-> IF came[n] = None \/ left = 0 THEN <<n>>
                                             ELSE <<n>> \o f[left - 1][came[n]]]
           ways == CHOOSE from : from = [left \in 0 .. N |->
                     [n \in Node |-> IF came[n] = None \/ left = 0 THEN <<n>>
                                     ELSE <<n>> \o from[left - 1][came[n]]]]
<1>1. N \in Nat
  BY PoolSize
<1>2. s0 \in S
  BY Single
<1>3. ASSUME NEW before \in S PROVE Extended(came, before) \in S
  <2>1. ASSUME NEW n \in Node
        PROVE  (IF came[n] = None THEN <<n>> ELSE <<n>> \o before[came[n]]) \in Seq(Node)
    <3>1. CASE came[n] = None
      BY <3>1, Single
    <3>2. CASE came[n] # None
      <4>1. came[n] \in Node
        BY <3>2
      <4>2. before[came[n]] \in Seq(Node)
        BY <4>1
      <4> QED
        BY <3>2, <4>2, Before
    <3> QED
      BY <3>1, <3>2
  <2> QED
    BY <2>1 DEF Extended
<1>4. step \in [S \X (1 .. N) -> S]
  <2>1. \A p \in S \X (1 .. N) : p[1] \in S
    OBVIOUS
  <2> HIDE DEF S
  <2> QED
    BY <1>3, <2>1
<1> HIDE DEF S
<1>5. \A b \in S, k \in 1 .. N : step[<<b, k>>] = Extended(came, b)
  OBVIOUS
<1> HIDE DEF step
<1>6. PICK f : Runs(f, N, S, s0, step)
  BY <1>1, <1>2, <1>4, StepByStep
<1>7. ASSUME NEW left \in 0 .. N PROVE f[left] = Round(f, left)
  <2>1. CASE left = 0
    BY <1>6, <2>1 DEF Runs
  <2>2. CASE left # 0
    <3>1. left \in 1 .. N /\ left - 1 \in 0 .. N
      BY <1>1, <2>2
    <3>2. f[left - 1] \in S
      BY <1>6, <3>1 DEF Runs
    <3>3. f[left] = Extended(came, f[left - 1])
      BY <1>5, <1>6, <3>1, <3>2 DEF Runs
    <3>4. \A n \in Node : (came[n] = None \/ left = 0) <=> came[n] = None
      BY <2>2
    <3> QED
      BY <3>3, <3>4 DEF Extended
  <2> QED
    BY <2>1, <2>2
<1>8. f = [left \in 0 .. N |-> Round(f, left)]
  <2> HIDE DEF Round
  <2> QED
    BY <1>6, <1>7 DEF Runs
<1>9. ways = [left \in 0 .. N |-> Round(ways, left)]
  BY <1>8, Zenon
<1>10. WaysOf(came) = ways
  BY Zenon DEF WaysOf
<1> HIDE DEF ways
<1>11. ASSUME NEW left \in 0 .. N, NEW n \in Node
       PROVE  ways[left][n] = IF came[n] = None \/ left = 0 THEN <<n>>
                              ELSE <<n>> \o ways[left - 1][came[n]]
  <2>1. ways[left] = Round(ways, left)
    <3> HIDE DEF Round
    <3> QED
      BY <1>9
  <2> QED
    BY <2>1
<1>12. \A n \in Node : ways[0][n] = <<n>>
  <2>1. 0 \in 0 .. N
    BY <1>1
  <2> QED
    BY <1>11, <2>1
<1>13. ASSUME NEW left \in 1 .. N, NEW n \in Node
       PROVE  ways[left][n] = IF came[n] = None THEN <<n>> ELSE <<n>> \o ways[left - 1][came[n]]
  <2>1. left \in 0 .. N /\ left # 0
    BY <1>1
  <2> QED
    BY <1>11, <2>1
<1> QED
  BY <1>10, <1>12, <1>13

(* A way from n back to the start.                                         *)
WayFrom(p, n) ==
  /\ p \in Seq(Node) /\ Len(p) >= 1
  /\ p[1] = n /\ p[Len(p)] = start
  /\ \A i \in 1 .. Len(p) : p[i] \notin occupied
  /\ \A i \in 1 .. Len(p) - 1 : p[i] \in Around(p[i + 1])

LEMMA WayFromStart == Valid(start) /\ start \in Node => WayFrom(<<start>>, start)
<1> SUFFICES ASSUME Valid(start), start \in Node PROVE WayFrom(<<start>>, start)
  OBVIOUS
<1> DEFINE p == <<start>>
<1>1. p \in Seq(Node) /\ Len(p) = 1 /\ p[1] = start
  BY Single
<1>2. start \notin occupied
  BY DEF Valid
<1> HIDE DEF p
<1>3. WayFrom(p, start)
  BY <1>1, <1>2 DEF WayFrom
<1> QED
  BY <1>3 DEF p

LEMMA WayExtends ==
  ASSUME NEW n \in Node, Valid(n), NEW c \in Node, n \in Around(c), NEW p, WayFrom(p, c)
  PROVE  WayFrom(<<n>> \o p, n)
<1> DEFINE q == <<n>> \o p
<1>1. p \in Seq(Node) /\ Len(p) \in Nat /\ Len(p) >= 1 /\ p[1] = c /\ p[Len(p)] = start
  BY LenProperties DEF WayFrom
<1>2. /\ q \in Seq(Node) /\ Len(q) = Len(p) + 1 /\ q[1] = n
      /\ \A i \in 1 .. Len(p) : q[i + 1] = p[i]
  BY <1>1, Before
<1>3. n \notin occupied
  BY DEF Valid
<1> HIDE DEF q
<1>4. \A i \in 1 .. Len(q) : i # 1 => i - 1 \in 1 .. Len(p) /\ (i - 1) + 1 = i
  BY <1>1, <1>2
<1>5. \A i \in 1 .. Len(q) : i # 1 => q[i] = p[i - 1]
  BY <1>2, <1>4
<1>6. q[Len(q)] = start
  <2>1. Len(q) \in 1 .. Len(q) /\ Len(q) # 1 /\ Len(q) - 1 = Len(p)
    BY <1>1, <1>2
  <2> QED
    BY <1>1, <1>5, <2>1
<1>7. ASSUME NEW i \in 1 .. Len(q) PROVE q[i] \notin occupied
  BY <1>2, <1>3, <1>4, <1>5 DEF WayFrom
<1>8. ASSUME NEW i \in 1 .. Len(q) - 1 PROVE q[i] \in Around(q[i + 1])
  <2>1. i \in 1 .. Len(p) /\ q[i + 1] = p[i]
    BY <1>1, <1>2
  <2>2. CASE i = 1
    BY <1>1, <1>2, <2>1, <2>2
  <2>3. CASE i # 1
    <3>1. i - 1 \in 1 .. Len(p) - 1 /\ (i - 1) + 1 = i /\ i \in 1 .. Len(q)
      BY <1>1, <1>2, <2>1, <2>3
    <3>2. p[i - 1] \in Around(p[(i - 1) + 1])
      BY <3>1 DEF WayFrom
    <3>3. q[i] = p[i - 1]
      BY <1>5, <2>3, <3>1
    <3> QED
      BY <2>1, <3>1, <3>2, <3>3
  <2> QED
    BY <2>2, <2>3
<1>9. Len(q) >= 1
  BY <1>1, <1>2
<1>10. WayFrom(q, n)
  BY <1>2, <1>6, <1>7, <1>8, <1>9 DEF WayFrom
<1> QED
  BY <1>10 DEF q

(* The nodes that are nearer to the start.                                 *)
Nearer(n) == {m \in Node : gScore[m] < gScore[n]}

LEMMA NearerShrinks ==
  ASSUME TypeOK, Records, phase = "search", NEW n \in Node, Valid(n), n # start
  PROVE  /\ cameFrom[n] \in Node
         /\ Cardinality(Nearer(cameFrom[n])) \in Nat /\ Cardinality(Nearer(n)) \in Nat
         /\ Cardinality(Nearer(cameFrom[n])) < Cardinality(Nearer(n))
<1> DEFINE c == cameFrom[n]
<1>1. c \in Node /\ gScore[n] = gScore[c] + StepCost(c, n)
  BY DEF Records, ScoresAddUp
<1>2. \A m \in Node : gScore[m] \in Nat
  BY DEF TypeOK
<1>3. gScore[c] < gScore[n]
  BY <1>1, <1>2, StepCostPositive
<1> HIDE DEF c
<1>4. Nearer(c) \subseteq Nearer(n) /\ c \in Nearer(n) /\ c \notin Nearer(c)
  BY <1>1, <1>2, <1>3 DEF Nearer
<1>5. IsFiniteSet(Nearer(n))
  <2>1. Nearer(n) \in SUBSET Node
    BY DEF Nearer
  <2> QED
    BY <2>1, PoolSize, FS_Subset
<1>6. /\ IsFiniteSet(Nearer(c)) /\ Cardinality(Nearer(c)) <= Cardinality(Nearer(n))
      /\ Cardinality(Nearer(n)) = Cardinality(Nearer(c)) => Nearer(n) = Nearer(c)
  BY <1>4, <1>5, FS_Subset
<1>7. Cardinality(Nearer(c)) \in Nat /\ Cardinality(Nearer(n)) \in Nat
  BY <1>5, <1>6, FS_CardinalityType
<1>8. Cardinality(Nearer(c)) < Cardinality(Nearer(n))
  BY <1>4, <1>6, <1>7
<1> QED
  BY <1>1, <1>7, <1>8 DEF c

LEMMA WayBack ==
  ASSUME TypeOK, Records, phase = "search", NEW n \in Node, Valid(n)
  PROVE  WayFrom(WaysOf(cameFrom)[PoolX * PoolY][n], n)
<1> DEFINE N == PoolX * PoolY
           way(left, m) == WaysOf(cameFrom)[left][m]
           T == {left \in 0 .. N : \E m \in Node : /\ Valid(m) /\ Cardinality(Nearer(m)) <= left
                                                   /\ ~WayFrom(way(left, m), m)}
<1>1. N \in Nat /\ cameFrom \in [Node -> Node \cup {None}]
  BY PoolSize DEF TypeOK
<1>2. /\ \A m \in Node : way(0, m) = <<m>>
      /\ \A left \in 1 .. N : \A m \in Node :
           way(left, m) = IF cameFrom[m] = None THEN <<m>> ELSE <<m>> \o way(left - 1, cameFrom[m])
  BY <1>1, WaysUnfold
<1>3. None \notin Node
  BY PoolAssumption DEF None, Node
<1>4. start \in Node /\ Valid(start) /\ cameFrom[start] = None
  BY DEF Records, StartRecord, StartsHere
<1> HIDE DEF way, N
<1>5. ASSUME T # {} PROVE FALSE
  <2>1. T \subseteq Nat
    BY <1>1
  <2>2. PICK left \in T : \A k \in T : left <= k
    BY <1>5, <2>1, Least
  <2>3. left \in 0 .. N /\ left \in Nat
    BY <1>1, <2>1, <2>2
  <2>4. PICK m \in Node : Valid(m) /\ Cardinality(Nearer(m)) <= left /\ ~WayFrom(way(left, m), m)
    BY <2>2
  <2>5. m # start
    <3>1. way(left, start) = <<start>>
      <4>1. CASE left = 0
        BY <1>2, <1>4, <4>1
      <4>2. CASE left # 0
        <5>1. left \in 1 .. N
          BY <1>1, <2>3, <4>2
        <5> QED
          BY <1>2, <1>4, <5>1
      <4> QED
        BY <4>1, <4>2
    <3> QED
      BY <1>4, <2>4, <3>1, WayFromStart
  <2>6. /\ cameFrom[m] \in Node /\ Valid(cameFrom[m]) /\ m \in Around(cameFrom[m])
    BY <2>4, <2>5 DEF Records, ScoresAddUp
  <2>7. /\ Cardinality(Nearer(cameFrom[m])) \in Nat /\ Cardinality(Nearer(m)) \in Nat
        /\ Cardinality(Nearer(cameFrom[m])) < Cardinality(Nearer(m))
    BY <2>4, <2>5, NearerShrinks
  <2>8. left \in 1 .. N /\ left - 1 \in 0 .. N /\ Cardinality(Nearer(cameFrom[m])) <= left - 1
    BY <1>1, <2>3, <2>4, <2>7
  <2>9. WayFrom(way(left - 1, cameFrom[m]), cameFrom[m])
    <3>1. ~(left <= left - 1)
      BY <2>3
    <3> QED
      BY <2>2, <2>6, <2>8, <3>1
  <2>10. way(left, m) = <<m>> \o way(left - 1, cameFrom[m])
    BY <1>2, <1>3, <2>6, <2>8
  <2> QED
    BY <2>4, <2>6, <2>9, <2>10, WayExtends
<1>6. Cardinality(Nearer(n)) <= N
  <2>1. Nearer(n) \in SUBSET Node
    BY DEF Nearer
  <2> QED
    BY <2>1, PoolSize, FS_Subset DEF N
<1>7. N \in 0 .. N
  BY <1>1
<1>8. WayFrom(way(N, n), n)
  BY <1>5, <1>6, <1>7
<1> QED
  BY <1>8 DEF way, N

LEMMA ReachesFreely == IInv /\ Reach => PathIsFree'
<1> SUFFICES ASSUME IInv, Reach PROVE PathIsFree'
  OBVIOUS
<1>1. TypeOK /\ Records /\ phase = "search" /\ end \in openSet_
  BY DEF IInv, Reach, IsTop
<1>2. UNCHANGED <<occupied, start, end, cameFrom>>
  BY DEF Reach, input, nodes
<1>3. end \in Node /\ Valid(end)
  BY <1>1 DEF Records, StartRecord, HeapIsOpen
<1>4. WayFrom(retrievePath, end)
  BY <1>1, <1>3, WayBack, Retrieved
<1>5. retrievePath' = retrievePath
  BY <1>2, Retrieved, RetrievedNext
<1> DEFINE p == retrievePath
<1> HIDE DEF p
<1>6. /\ p[1] = end /\ p[Len(p)] = start
      /\ \A i \in DOMAIN p : p[i] \notin occupied
      /\ \A i \in 1 .. Len(p) - 1 : p[i] \in Around(p[i + 1])
  <2>1. WayFrom(p, end)
    BY <1>4 DEF p
  <2>2. DOMAIN p = 1 .. Len(p)
    BY <2>1, LenProperties DEF WayFrom
  <2> QED
    BY <2>1, <2>2 DEF WayFrom
<1>7. retrievePath' = p
  BY <1>5 DEF p
<1> QED
  BY <1>2, <1>6, <1>7 DEF PathIsFree, Around

LEMMA PathKept == IInv /\ PathIsFree /\ [Next]_vars => PathIsFree'
<1> SUFFICES ASSUME IInv, PathIsFree, [Next]_vars PROVE PathIsFree'
  OBVIOUS
<1>1. CASE Reach
  BY <1>1, ReachesFreely
<1>2. CASE UNCHANGED vars
  <2>1. UNCHANGED <<occupied, start, end, cameFrom, phase, outcome>>
    BY <1>2 DEF vars, input, nodes
  <2>2. retrievePath' = retrievePath
    BY <2>1, Retrieved, RetrievedNext
  <2> QED
    BY <2>1, <2>2 DEF PathIsFree, Around
<1>3. CASE Begin \/ (\E n \in Node : Expand(n)) \/ Exhausted \/ TimeLimit \/ Again
  <2>1. phase' # "done" \/ outcome' # "found"
    BY <1>3, ExpandSets DEF Begin, Exhausted, TimeLimit, Again
  <2> QED
    BY <2>1 DEF PathIsFree
<1> QED
  BY <1>1, <1>2, <1>3 DEF Next, Search

(* retrievePath (dyn_a_star.cpp:77-89) returns a free way from the end to   *)
(* the start, whatever earlier searches have left in the nodes.            *)
THEOREM WaysAreFree == Spec => []PathIsFree
<1>1. Init => PathIsFree
  BY DEF Init, PathIsFree
<1> QED
  BY <1>1, Invariant, PathKept, PTL DEF Spec
-----------------------------------------------------------------------------
(* What it means that a search runs out of nodes, and that it must.        *)

(* A way the search could take: from the start to the end, each node a     *)
(* free neighbour of the one before.                                       *)
IsWay(way, n) ==
  /\ way \in [1 .. n -> Node] /\ way[1] = start /\ way[n] = end
  /\ \A i \in 1 .. n - 1 : way[i + 1] \in Around(way[i]) \ occupied

NoWayIsLeft ==
  phase = "done" /\ outcome = "exhausted" =>
    ~\E n \in Nat \ {0} : \E way \in [1 .. n -> Node] : IsWay(way, n)

(* A search says that there is no path (AstarSearch:248) only where there  *)
(* is none: what an earlier search has left in the nodes hides none.       *)
THEOREM NoPathOnlyIfNone == Spec => []NoWayIsLeft
<1>1. ExhaustedMeansCutOff => NoWayIsLeft
  <2> SUFFICES ASSUME ExhaustedMeansCutOff, phase = "done", outcome = "exhausted",
                      NEW n \in Nat \ {0}, NEW way, IsWay(way, n)
               PROVE  FALSE
    BY DEF NoWayIsLeft
  <2>1. start \in Closed /\ end \notin Closed /\ \A m \in Closed : Around(m) \ occupied \subseteq Closed
    BY DEF ExhaustedMeansCutOff
  <2> DEFINE Out == {i \in 1 .. n : way[i] \notin Closed}
  <2>2. n \in Out /\ Out \subseteq Nat /\ 1 \notin Out
    BY <2>1 DEF IsWay
  <2>3. PICK i \in Out : \A j \in Out : i <= j
    <3> HIDE DEF Out
    <3> QED
      BY <2>2, Least
  <2>4. i \in 1 .. n /\ i # 1 /\ way[i] \notin Closed
    BY <2>2, <2>3
  <2>5. i - 1 \in 1 .. n - 1 /\ i - 1 \in 1 .. n /\ i - 1 + 1 = i /\ ~(i <= i - 1)
    BY <2>4
  <2>6. way[i - 1] \in Closed
    BY <2>3, <2>5
  <2>7. way[i] \in Around(way[i - 1]) \ occupied
    <3>1. way[i - 1 + 1] \in Around(way[i - 1]) \ occupied
      BY <2>5, Zenon DEF IsWay
    <3> QED
      BY <2>5, <3>1, Zenon
  <2> QED
    BY <2>1, <2>4, <2>6, <2>7
<1> QED
  BY <1>1, GivesUpCutOff, PTL

NotClosed == Cardinality(Node \ Closed)

(* Every round of the loop closes one node more, and none that is closed   *)
(* is opened again, though a shorter way to it may turn up (the estimate   *)
(* with its tie breaker is not consistent): the loop (AstarSearch:162-241) *)
(* ends after as many rounds as the pool has nodes, also without its limit.*)
RoundsCloseNodes ==
  [][phase = "search" /\ phase' = "search" =>
       /\ Closed \subseteq Closed' /\ NotClosed \in Nat /\ NotClosed' = NotClosed - 1]_vars

THEOREM EachRoundCloses == Spec => RoundsCloseNodes
<1>1. IInv /\ [Next]_vars =>
        [phase = "search" /\ phase' = "search" =>
           Closed \subseteq Closed' /\ NotClosed \in Nat /\ NotClosed' = NotClosed - 1]_vars
  <2> SUFFICES ASSUME IInv, Next, phase = "search", phase' = "search"
               PROVE  Closed \subseteq Closed' /\ NotClosed \in Nat /\ NotClosed' = NotClosed - 1
    OBVIOUS
  <2>1. PICK n \in Node : Expand(n)
    BY DEF Next, Search, Begin, Reach, Exhausted, TimeLimit, Again
  <2>2. Closed' = Closed \cup {n}
    BY <2>1, ClosedExpand
  <2>3. n \in Node \ Closed
    <3>1. state[n] = "OPENSET"
      BY <2>1, ExpandFacts
    <3> QED
      BY <3>1 DEF Closed
  <2>4. IsFiniteSet(Node \ Closed)
    <3>1. IsFiniteSet(Node) /\ Node \ Closed \in SUBSET Node
      BY PoolSize
    <3> QED
      BY <3>1, FS_Subset
  <2>5. (Node \ Closed)' = (Node \ Closed) \ {n}
    <3>1. Node' = Node
      BY DEF Node
    <3> QED
      BY <2>2, <3>1
  <2>6. Cardinality(Node \ Closed) \in Nat
        /\ Cardinality((Node \ Closed) \ {n}) = Cardinality(Node \ Closed) - 1
    BY <2>3, <2>4, FS_RemoveElement, FS_CardinalityType
  <2>7. NotClosed' = Cardinality((Node \ Closed)')
    BY DEF NotClosed
  <2> QED
    BY <2>2, <2>5, <2>6, <2>7 DEF NotClosed
<1> QED
  BY <1>1, Invariant, PTL DEF Spec, RoundsCloseNodes
=============================================================================
