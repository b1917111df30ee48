------------------------ MODULE ReboundOptimizeProofs ------------------------
(***************************************************************************)
(* Proofs about ReboundOptimize for every number of control points, every  *)
(* obstacle on the path and every outcome of the solver.                   *)
(***************************************************************************)
EXTENDS ReboundOptimize, SequenceTheorems, FiniteSetTheorems, WellFoundedInduction, TLAPS

(* The scan: its fields, and what they say of one another.                 *)
ScanRecord ==
  [i : Int, last_occ : BOOLEAN, same : 0 .. ENOUGH_INTERVAL + 1, in_id : Int, out_id : Int,
   start : BOOLEAN, maybe : BOOLEAN, hit : SUBSET Int, segs : Seq(Int \X Int)]

(* Segments in the order they were found, which may touch.                 *)
InOrder(segs) ==
  \A j, k \in DOMAIN segs :
    j < k => segs[j][1] <= segs[k][1] /\ segs[j][2] <= segs[k][2] /\ segs[j][2] <= segs[k][1] + 1

WithinScan(segs, i) ==
  \A k \in DOMAIN segs : order_ - 1 <= segs[k][1] /\ segs[k][1] < segs[k][2] /\ segs[k][2] <= i

(* An obstacle that was hit opens a segment, which stays open until enough *)
(* free samples have followed the last.                                    *)
Closed(sc) == ~sc.start => ~sc.last_occ /\ ~sc.maybe /\ sc.same = ENOUGH_INTERVAL + 1 /\ sc.hit = {}

Open(sc) ==
  sc.start => /\ sc.in_id \in order_ - 1 .. sc.i - 1
              /\ \A h \in sc.hit : sc.in_id < h
              /\ \A k \in DOMAIN sc.segs : sc.segs[k][2] <= sc.in_id + 1

AboutToClose(sc) ==
  /\ sc.maybe => ~sc.last_occ
  /\ sc.start /\ ~sc.last_occ => /\ sc.maybe /\ sc.same <= ENOUGH_INTERVAL
                                 /\ sc.in_id < sc.out_id /\ sc.out_id <= sc.i
                                 /\ \A h \in sc.hit : h <= sc.out_id

ScanOK(sc) ==
  /\ sc \in ScanRecord
  /\ \A h \in sc.hit : h \in order_ .. sc.i
  /\ InOrder(sc.segs) /\ WithinScan(sc.segs, sc.i)
  /\ Closed(sc) /\ Open(sc) /\ AboutToClose(sc)

(* Between two lines: the point reached has not been looked at.            *)
ScanAt ==
  /\ ScanOK(scan) /\ scan.i \in order_ .. i_end + 1
  /\ \A h \in scan.hit : h \in order_ .. i_end
  /\ WithinScan(scan.segs, scan.i - 1)

-----------------------------------------------------------------------------
(* Numbers.                                                                *)

LEMMA LeastElement ==
  ASSUME NEW T, T \subseteq Nat, T # {}
  PROVE  \E n \in T : \A m \in T : n <= m
<1>1. PICK n \in T : \A m \in T : ~(<<m, n>> \in OpToRel(<, Nat))
  BY NatLessThanWellFounded, WFMin
<1>2. ASSUME NEW m \in T PROVE n <= m
  <2>1. <<m, n>> \in Nat \X Nat /\ ~(m < n)
    BY <1>1 DEF OpToRel
  <2> QED
    BY <2>1
<1> QED
  BY <1>2

(* What is defined one step after another exists.                          *)
Runs(f, k, S, s0, step) ==
  /\ f \in [0 .. k -> S]
  /\ f[0] = s0 /\ \A n \in 1 .. k : f[n] = step[<<f[n - 1], n>>]

LEMMA StepByStep ==
  ASSUME NEW N \in Nat, NEW S, NEW s0 \in S, NEW step \in [S \X (1 .. N) -> S]
  PROVE  \E f : Runs(f, N, S, s0, step)
<1> DEFINE T == {k \in 0 .. N : ~\E f : Runs(f, k, S, s0, step)}
<1>1. T \subseteq Nat
  OBVIOUS
<1>2. ASSUME T # {} PROVE FALSE
  <2>1. PICK k \in T : \A m \in T : k <= m
    BY <1>1, <1>2, LeastElement
  <2>2. k # 0
    <3>1. Runs([n \in 0 .. 0 |-> s0], 0, S, s0, step)
      BY DEF Runs
    <3> QED
      BY <2>1, <3>1
  <2>3. k - 1 \in 0 .. N /\ k \in Nat /\ k \in 1 .. N /\ ~(k <= k - 1)
    BY <1>1, <2>1, <2>2
  <2>4. PICK f : Runs(f, k - 1, S, s0, step)
    BY <2>1, <2>3
  <2> DEFINE g == [n \in 0 .. k |-> IF n = k THEN step[<<f[k - 1], k>>] ELSE f[n]]
  <2>5. f[k - 1] \in S
    BY <2>3, <2>4 DEF Runs
  <2>6. step[<<f[k - 1], k>>] \in S
    BY <2>3, <2>5
  <2>7. \A n \in 0 .. k - 1 : n \in 0 .. k /\ n # k /\ f[n] \in S
    BY <2>3, <2>4 DEF Runs
  <2>8. g \in [0 .. k -> S]
    <3>1. \A n \in 0 .. k : n # k => n \in 0 .. k - 1
      BY <2>3
    <3> QED
      BY <2>6, <2>7, <3>1
  <2>9. \A n \in 0 .. k - 1 : g[n] = f[n]
    BY <2>7
  <2>10. g[k] = step[<<f[k - 1], k>>]
    <3>1. k \in 0 .. k
      BY <2>3
    <3> QED
      BY <3>1
  <2> HIDE DEF g
  <2>11. g[0] = s0
    <3>1. 0 \in 0 .. k - 1
      BY <2>3
    <3> QED
      BY <2>4, <2>9, <3>1 DEF Runs
  <2>12. ASSUME NEW n \in 1 .. k PROVE g[n] = step[<<g[n - 1], n>>]
    <3>1. n - 1 \in 0 .. k - 1
      BY <2>3
    <3>2. g[n - 1] = f[n - 1]
      BY <2>9, <3>1
    <3>3. CASE n = k
      BY <2>10, <3>2, <3>3
    <3>4. CASE n # k
      <4>1. n \in 1 .. k - 1 /\ n \in 0 .. k - 1
        BY <2>3, <3>4
      <4> QED
        BY <2>4, <2>9, <3>2, <4>1 DEF Runs
    <3> QED
      BY <3>3, <3>4
  <2>13. Runs(g, k, S, s0, step)
    BY <2>8, <2>11, <2>12 DEF Runs
  <2> QED
    BY <2>1, <2>13
<1>3. \E f : Runs(f, N, S, s0, step)
  <2>1. N \in 0 .. N
    OBVIOUS
  <2> QED
    BY <1>2, <2>1
<1> QED
  BY <1>3

(* The scanned part ends before the last points.                           *)
LEMMA EndOfScan == /\ i_end \in Nat /\ i_end >= order_ /\ i_end < NumPoints - order_
                   /\ NumPoints \in Nat /\ order_ = 3 /\ ENOUGH_INTERVAL = 2
  BY SizeAssumption DEF i_end, order_, ENOUGH_INTERVAL

-----------------------------------------------------------------------------
(* The scan of initControlPoints.                                          *)

LEMMA SampledFields ==
  ASSUME NEW sc \in ScanRecord, NEW occ \in BOOLEAN
  PROVE  /\ Sampled(sc, occ).i = sc.i
         /\ Sampled(sc, occ).last_occ = occ
         /\ Sampled(sc, occ).same = Same(sc, occ)
         /\ Sampled(sc, occ).in_id = Segment(sc, occ)[1]
         /\ Sampled(sc, occ).out_id = Segment(sc, occ)[2]
         /\ Sampled(sc, occ).start <=> ((sc.start \/ Starts(sc, occ)) /\ ~Pushes(sc, occ))
         /\ Sampled(sc, occ).maybe <=> (MayEnd(sc, occ) /\ ~Ends(sc, occ))
         /\ Sampled(sc, occ).hit = {i \in IF occ THEN sc.hit \cup {sc.i} ELSE sc.hit :
              ~(Pushes(sc, occ) /\ i \in Segment(sc, occ)[1] + 1 .. Segment(sc, occ)[2])}
         /\ Sampled(sc, occ).segs = IF Pushes(sc, occ) THEN Append(sc.segs, Segment(sc, occ)) ELSE sc.segs
  BY Zenon DEF Sampled

(* An occupied sample: the segment stays open, or one opens here.          *)
LEMMA Occupied ==
  ASSUME NEW sc, ScanOK(sc), sc.i \in order_ .. i_end
  PROVE  ScanOK(Sampled(sc, TRUE))
<1> DEFINE t == Sampled(sc, TRUE)
<1>1. sc \in ScanRecord /\ TRUE \in BOOLEAN
  BY DEF ScanOK
<1>2. /\ sc.i \in Int /\ sc.same \in 0 .. 3 /\ sc.in_id \in Int /\ sc.out_id \in Int
      /\ sc.segs \in Seq(Int \X Int) /\ sc.hit \subseteq Int
      /\ sc.last_occ \in BOOLEAN /\ sc.start \in BOOLEAN /\ sc.maybe \in BOOLEAN
  BY <1>1, EndOfScan DEF ScanRecord
<1>3. order_ = 3 /\ ENOUGH_INTERVAL = 2 /\ sc.i < NumPoints - order_ /\ i_end \in Nat /\ NumPoints \in Nat
  BY EndOfScan
<1>4. ~Ends(sc, TRUE) /\ ~Pushes(sc, TRUE)
  <2>1. CASE sc.last_occ
    <3>1. ~sc.maybe
      BY <2>1 DEF ScanOK, AboutToClose
    <3> QED
      BY <2>1, <3>1 DEF Ends, Pushes, MayEnd
  <2>2. CASE ~sc.last_occ
    <3>1. ~MayEnd(sc, TRUE)
      BY <2>2, Zenon DEF MayEnd
    <3> QED
      BY <3>1 DEF Ends, Pushes
  <2> QED
    BY <2>1, <2>2
<1>5. /\ t.i = sc.i /\ t.last_occ = TRUE /\ t.same = Same(sc, TRUE)
      /\ t.in_id = Segment(sc, TRUE)[1] /\ t.out_id = Segment(sc, TRUE)[2]
      /\ t.start <=> sc.start \/ Starts(sc, TRUE)
      /\ t.maybe <=> MayEnd(sc, TRUE)
  BY <1>1, <1>4, SampledFields, Zenon
<1>6. t.segs = sc.segs
  BY <1>1, <1>4, SampledFields, Zenon
<1>7. t.hit = sc.hit \cup {sc.i}
  <2>1. t.hit = {i \in IF TRUE THEN sc.hit \cup {sc.i} ELSE sc.hit :
              ~(Pushes(sc, TRUE) /\ i \in Segment(sc, TRUE)[1] + 1 .. Segment(sc, TRUE)[2])}
    BY <1>1, SampledFields, Zenon
  <2> QED
    BY <2>1, <1>4, Zenon
<1>8. t.in_id = IF Starts(sc, TRUE) THEN sc.i - 1 ELSE sc.in_id
  BY <1>5 DEF Segment
<1>9. t.out_id = sc.out_id
  BY <1>5 DEF Segment
<1>10. Same(sc, TRUE) \in 0 .. 3
  BY <1>2, <1>3 DEF Same
<1>11. t.start /\ t.maybe = FALSE
  <2>1. t.start
    <3>1. CASE sc.start
      BY <3>1, <1>5
    <3>2. CASE ~sc.start
      <4>1. ~sc.last_occ /\ sc.same = 3
        BY <3>2, <1>3 DEF ScanOK, Closed
      <4>2. Starts(sc, TRUE)
        BY <4>1, <1>3 DEF Starts
      <4> QED
        BY <4>2, <1>5
    <3> QED
      BY <3>1, <3>2, <1>2
  <2>2. ~MayEnd(sc, TRUE)
    <3>1. CASE sc.last_occ
      <4>1. ~sc.maybe
        BY <3>1 DEF ScanOK, AboutToClose
      <4> QED
        BY <3>1, <4>1, <1>2 DEF MayEnd
    <3>2. CASE ~sc.last_occ
      BY <3>2, <1>2, Zenon DEF MayEnd
    <3> QED
      BY <3>1, <3>2
  <2>3. t.maybe \in BOOLEAN
    BY Zenon DEF Sampled
  <2>4. t.start \in BOOLEAN
    BY Zenon DEF Sampled
  <2> QED
    BY <2>1, <2>2, <2>3, <1>5
<1> HIDE DEF t
<1>12. t.in_id \in order_ - 1 .. sc.i - 1 /\ (\A h \in sc.hit : t.in_id < h)
        /\ \A k \in DOMAIN sc.segs : sc.segs[k][2] <= t.in_id + 1
  <2>1. CASE sc.start /\ ~Starts(sc, TRUE)
    BY <2>1, <1>8, <1>2, <1>3 DEF ScanOK, Open
  <2>2. CASE sc.start /\ Starts(sc, TRUE)
    <3>1. ~sc.last_occ /\ (sc.same > 2 \/ sc.i = 3)
      BY <2>2, <1>3 DEF Starts
    <3>2. sc.same <= 2
      BY <2>2, <3>1, <1>3 DEF ScanOK, AboutToClose
    <3>3. sc.i = 3 /\ sc.in_id \in 2 .. 2
      BY <3>1, <3>2, <1>2, <2>2, <1>3 DEF ScanOK, Open
    <3>4. t.in_id = 2 /\ sc.in_id = 2
      <4>1. t.in_id = sc.i - 1
        BY <2>2, <1>8
      <4> QED
        BY <4>1, <3>3, <1>2
    <3> QED
      BY <3>4, <3>3, <2>2, <1>3 DEF ScanOK, Open
  <2>3. CASE ~sc.start
    <3>1. sc.hit = {}
      BY <2>3 DEF ScanOK, Closed
    <3>2. Starts(sc, TRUE)
      BY <2>3, <1>11, <1>5
    <3>3. t.in_id = sc.i - 1
      BY <3>2, <1>8
    <3>4. \A k \in DOMAIN sc.segs : sc.segs[k][2] <= sc.i /\ sc.segs[k][2] \in Int
      <4>1. \A k \in DOMAIN sc.segs : sc.segs[k] \in Int \X Int
        BY <1>2, ElementOfSeq, LenProperties
      <4> QED
        BY <4>1, <1>2 DEF ScanOK, WithinScan
    <3>5. sc.i - 1 \in order_ - 1 .. sc.i - 1 /\ \A k \in DOMAIN sc.segs : sc.segs[k][2] <= sc.i - 1 + 1
      BY <3>4, <1>2, <1>3
    <3> QED
      BY <3>1, <3>3, <3>5
  <2> QED
    BY <2>1, <2>2, <2>3, <1>2
<1>13. \A h \in t.hit : t.in_id < h /\ h \in order_ .. t.i
  <2> TAKE h \in t.hit
  <2>1. CASE h \in sc.hit
    BY <2>1, <1>5, <1>12 DEF ScanOK
  <2>2. CASE h = sc.i
    <3>1. t.in_id < sc.i
      BY <1>12, <1>2, <1>3
    <3>2. sc.i \in order_ .. sc.i
      BY <1>2, <1>3
    <3> QED
      BY <2>2, <1>5, <3>1, <3>2
  <2> QED
    BY <2>1, <2>2, <1>7
<1>14. t \in ScanRecord
  <2>1. t \in [i : Int, last_occ : BOOLEAN, same : 0 .. 3, in_id : Int, out_id : Int,
   start : BOOLEAN, maybe : BOOLEAN, hit : SUBSET Int, segs : Seq(Int \X Int)]
    <3>1. t = [i |-> t.i, last_occ |-> t.last_occ, same |-> t.same, in_id |-> t.in_id,
               out_id |-> t.out_id, start |-> t.start, maybe |-> t.maybe, hit |-> t.hit,
               segs |-> t.segs]
      BY DEF t, Sampled
    <3>2. t.i \in Int /\ t.last_occ \in BOOLEAN /\ t.same \in 0 .. 3 /\ t.in_id \in Int
           /\ t.out_id \in Int /\ t.start \in BOOLEAN /\ t.maybe \in BOOLEAN
           /\ t.hit \in SUBSET Int /\ t.segs \in Seq(Int \X Int)
      <4>1. t.i \in Int /\ t.last_occ \in BOOLEAN /\ t.same \in 0 .. 3 /\ t.out_id \in Int
        BY <1>2, <1>5, <1>9, <1>10
      <4>2. t.in_id \in Int /\ t.hit \in SUBSET Int
        BY <1>12, <1>7, <1>2, <1>3
      <4>3. t.start \in BOOLEAN /\ t.maybe \in BOOLEAN
        BY <1>11, Zenon DEF t, Sampled
      <4> QED
        BY <4>1, <4>2, <4>3, <1>6, <1>2
    <3> QED
      BY <3>1, <3>2, Zenon
  <2> QED
    BY <2>1, <1>3 DEF ScanRecord
<1>15. InOrder(t.segs) /\ WithinScan(t.segs, t.i)
  BY <1>5, <1>6 DEF ScanOK
<1>16. Closed(t)
  BY <1>11 DEF Closed
<1>17. Open(t)
  BY <1>12, <1>13, <1>6, <1>5 DEF Open
<1>18. AboutToClose(t)
  BY <1>11, <1>5 DEF AboutToClose
<1>19. ScanOK(t)
  BY <1>13, <1>14, <1>15, <1>16, <1>17, <1>18 DEF ScanOK
<1> QED
  BY <1>19 DEF t

(* A free one after an occupied one: the segment that is open ends here,   *)
(* if no obstacle follows soon.                                            *)
LEMMA FreeAfterOccupied ==
  ASSUME NEW sc, ScanOK(sc), sc.i \in order_ .. i_end, sc.last_occ
  PROVE  ScanOK(Sampled(sc, FALSE))
<1> DEFINE t == Sampled(sc, FALSE)
<1>1. sc \in ScanRecord /\ FALSE \in BOOLEAN
  BY DEF ScanOK
<1>2. /\ sc.i \in Int /\ sc.same \in 0 .. 3 /\ sc.in_id \in Int /\ sc.out_id \in Int
      /\ sc.segs \in Seq(Int \X Int) /\ sc.hit \subseteq Int
      /\ sc.last_occ \in BOOLEAN /\ sc.start \in BOOLEAN /\ sc.maybe \in BOOLEAN
  BY <1>1, EndOfScan DEF ScanRecord
<1>3. order_ = 3 /\ ENOUGH_INTERVAL = 2 /\ sc.i < NumPoints - order_ /\ i_end \in Nat /\ NumPoints \in Nat
  BY EndOfScan
<1>4. Same(sc, FALSE) = 0 /\ MayEnd(sc, FALSE) /\ ~Starts(sc, FALSE)
  BY <1>2, Zenon DEF Same, MayEnd, Starts
<1>5. ~Ends(sc, FALSE) /\ ~Pushes(sc, FALSE)
  <2>1. ~(Same(sc, FALSE) > ENOUGH_INTERVAL) /\ ~(sc.i = NumPoints - order_)
    <3>1. Same(sc, FALSE) = 0
      BY <1>4
    <3>2. ~(0 > ENOUGH_INTERVAL)
      BY <1>3
    <3>3. ~(sc.i = NumPoints - order_)
      BY <1>2, <1>3
    <3> QED
      BY <3>1, <3>2, <3>3
  <2> QED
    BY <2>1 DEF Ends, Pushes
<1>6. /\ t.i = sc.i /\ t.last_occ = FALSE /\ t.same = 0
      /\ t.in_id = Segment(sc, FALSE)[1] /\ t.out_id = Segment(sc, FALSE)[2]
      /\ t.start <=> sc.start
      /\ t.maybe
  BY <1>1, <1>4, <1>5, SampledFields, Zenon
<1>7. t.segs = sc.segs
  BY <1>1, <1>5, SampledFields, Zenon
<1>8. t.hit = sc.hit
  <2>1. t.hit = {i \in IF FALSE THEN sc.hit \cup {sc.i} ELSE sc.hit :
              ~(Pushes(sc, FALSE) /\ i \in Segment(sc, FALSE)[1] + 1 .. Segment(sc, FALSE)[2])}
    BY <1>1, SampledFields, Zenon
  <2> QED
    BY <2>1, <1>5, Zenon
<1>9. t.in_id = sc.in_id /\ t.out_id = sc.i
  BY <1>4, <1>6 DEF Segment
<1>10. t.start \in BOOLEAN /\ t.maybe \in BOOLEAN
  BY Zenon DEF Sampled
<1>11. sc.start
  BY DEF ScanOK, Closed
<1>12. t = [i |-> t.i, last_occ |-> t.last_occ, same |-> t.same, in_id |-> t.in_id,
            out_id |-> t.out_id, start |-> t.start, maybe |-> t.maybe, hit |-> t.hit, segs |-> t.segs]
  BY DEF Sampled
<1> HIDE DEF t
<1>13. t \in ScanRecord
  <2>1. t.i \in Int /\ t.same \in 0 .. 3 /\ t.in_id \in Int /\ t.out_id \in Int
    <3>1. t.i = sc.i /\ t.same = 0
      BY <1>6
    <3>2. 0 \in 0 .. 3
      OBVIOUS
    <3> QED
      BY <3>1, <3>2, <1>2, <1>9
  <2>2. t.last_occ \in BOOLEAN /\ t.hit \in SUBSET Int /\ t.segs \in Seq(Int \X Int)
    BY <1>2, <1>6, <1>7, <1>8
  <2>3. t \in [i : Int, last_occ : BOOLEAN, same : 0 .. 3, in_id : Int, out_id : Int,
   start : BOOLEAN, maybe : BOOLEAN, hit : SUBSET Int, segs : Seq(Int \X Int)]
    BY <2>1, <2>2, <1>10, <1>12, Zenon
  <2> QED
    BY <2>3, <1>3 DEF ScanRecord
<1>14. \A h \in t.hit : h \in order_ .. t.i
  BY <1>6, <1>8 DEF ScanOK
<1>15. InOrder(t.segs) /\ WithinScan(t.segs, t.i)
  BY <1>6, <1>7 DEF ScanOK
<1>16. Closed(t)
  BY <1>6, <1>11 DEF Closed
<1>17. Open(t)
  <2>1. Open(sc)
    BY DEF ScanOK
  <2> QED
    BY <2>1, <1>6, <1>7, <1>8, <1>9, <1>11 DEF Open
<1>18. AboutToClose(t)
  <2>1. t.in_id < t.out_id /\ t.out_id <= t.i
    <3>1. sc.in_id \in order_ - 1 .. sc.i - 1
      BY <1>11 DEF ScanOK, Open
    <3>2. sc.in_id < sc.i /\ sc.i <= sc.i
      BY <3>1, <1>2, <1>3
    <3> QED
      BY <3>2, <1>6, <1>9
  <2>2. \A h \in t.hit : h <= t.out_id
    BY <1>2, <1>8, <1>9 DEF ScanOK
  <2>3. t.same <= ENOUGH_INTERVAL
    BY <1>3, <1>6
  <2> QED
    BY <1>6, <2>1, <2>2, <2>3 DEF AboutToClose
<1>19. ScanOK(t)
  BY <1>13, <1>14, <1>15, <1>16, <1>17, <1>18 DEF ScanOK
<1> QED
  BY <1>19 DEF t

(* A segment goes to the list after all that are there.                    *)
LEMMA SegmentAdded ==
  ASSUME NEW segs \in Seq(Int \X Int), NEW a \in Int, NEW b \in Int, NEW i \in Int,
         InOrder(segs), WithinScan(segs, i), order_ - 1 <= a, a < b, b <= i,
         \A k \in DOMAIN segs : segs[k][2] <= a + 1
  PROVE  /\ Append(segs, <<a, b>>) \in Seq(Int \X Int)
         /\ InOrder(Append(segs, <<a, b>>)) /\ WithinScan(Append(segs, <<a, b>>), i)
<1> DEFINE t == Append(segs, <<a, b>>)
           n == Len(segs)
<1>1. t \in Seq(Int \X Int) /\ Len(t) = n + 1 /\ t[n + 1] = <<a, b>> /\ \A k \in 1 .. n : t[k] = segs[k]
  BY AppendProperties
<1>2. n \in Nat /\ DOMAIN segs = 1 .. n /\ DOMAIN t = 1 .. n + 1
  BY <1>1, LenProperties
<1>3. \A k \in 1 .. n : /\ segs[k][1] \in Int /\ segs[k][2] \in Int
                        /\ order_ - 1 <= segs[k][1] /\ segs[k][1] < segs[k][2] /\ segs[k][2] <= i
                        /\ segs[k][2] <= a + 1
  <2>1. \A k \in 1 .. n : segs[k] \in Int \X Int
    BY ElementOfSeq
  <2> QED
    BY <2>1, <1>2 DEF WithinScan
<1> HIDE DEF t, n
<1>4. WithinScan(t, i)
  <2> SUFFICES ASSUME NEW k \in 1 .. n + 1
               PROVE  order_ - 1 <= t[k][1] /\ t[k][1] < t[k][2] /\ t[k][2] <= i
    BY <1>2 DEF WithinScan
  <2>1. CASE k \in 1 .. n
    BY <2>1, <1>1, <1>3
  <2>2. CASE k = n + 1
    BY <2>2, <1>1
  <2> QED
    BY <2>1, <2>2, <1>2
<1>5. InOrder(t)
  <2> SUFFICES ASSUME NEW j \in 1 .. n + 1, NEW k \in 1 .. n + 1, j < k
               PROVE  t[j][1] <= t[k][1] /\ t[j][2] <= t[k][2] /\ t[j][2] <= t[k][1] + 1
    BY <1>2 DEF InOrder
  <2>0. j \in 1 .. n
    BY <1>2
  <2>1. j \in 1 .. n /\ t[j] = segs[j]
    BY <2>0, <1>1
  <2>2. CASE k \in 1 .. n
    <3>1. t[k] = segs[k]
      BY <2>2, <1>1
    <3> QED
      BY <2>1, <2>2, <3>1, <1>2 DEF InOrder
  <2>3. CASE k = n + 1
    <3>1. t[k][1] = a /\ t[k][2] = b
      BY <2>3, <1>1
    <3>2. segs[j][1] < segs[j][2] /\ segs[j][2] <= a + 1 /\ segs[j][1] \in Int /\ segs[j][2] \in Int
      BY <2>1, <1>3
    <3> QED
      BY <2>1, <3>1, <3>2
  <2> QED
    BY <2>2, <2>3, <1>2
<1> QED
  BY <1>1, <1>4, <1>5 DEF t

(* A free one after a free one: with enough of them the open segment is    *)
(* closed, and covers all that was hit.                                    *)
LEMMA FreeAfterFree ==
  ASSUME NEW sc, ScanOK(sc), sc.i \in order_ .. i_end, ~sc.last_occ
  PROVE  ScanOK(Sampled(sc, FALSE))
<1> DEFINE t == Sampled(sc, FALSE)
           n == Same(sc, FALSE)
<1>1. sc \in ScanRecord /\ FALSE \in BOOLEAN
  BY DEF ScanOK
<1>2. /\ sc.i \in Int /\ sc.same \in 0 .. 3 /\ sc.in_id \in Int /\ sc.out_id \in Int
      /\ sc.segs \in Seq(Int \X Int) /\ sc.hit \subseteq Int
      /\ sc.last_occ = FALSE /\ sc.start \in BOOLEAN /\ sc.maybe \in BOOLEAN
  <2>1. sc.last_occ \in BOOLEAN
    BY <1>1 DEF ScanRecord
  <2> QED
    BY <1>1, <2>1, EndOfScan DEF ScanRecord
<1>3. order_ = 3 /\ ENOUGH_INTERVAL = 2 /\ sc.i < NumPoints - order_ /\ i_end \in Nat /\ NumPoints \in Nat
  BY EndOfScan
<1>4. MayEnd(sc, FALSE) = sc.maybe /\ ~Starts(sc, FALSE)
  BY <1>2, Zenon DEF MayEnd, Starts
<1>5. n = IF sc.same > 2 THEN sc.same ELSE sc.same + 1
  <2>1. n = IF sc.same > ENOUGH_INTERVAL THEN sc.same ELSE sc.same + 1
    BY <1>2, Zenon DEF Same
  <2> HIDE DEF n
  <2> QED
    BY <2>1, <1>3
<1>6. n \in 0 .. 3
  <2> HIDE DEF n
  <2> QED
    BY <1>2, <1>5
<1>7. Pushes(sc, FALSE) <=> sc.start /\ sc.maybe /\ n = 3
  <2>1. ~(sc.i = NumPoints - order_)
    BY <1>2, <1>3
  <2>2. Ends(sc, FALSE) <=> sc.maybe /\ n > ENOUGH_INTERVAL
    BY <2>1, <1>4, Zenon DEF Ends
  <2>3. n > ENOUGH_INTERVAL <=> n = 3
    <3> HIDE DEF n
    <3> QED
      BY <1>3, <1>6
  <2> QED
    BY <2>2, <2>3, <1>4, Zenon DEF Pushes
<1>8. /\ t.i = sc.i /\ t.last_occ = FALSE /\ t.same = n
      /\ t.in_id = Segment(sc, FALSE)[1] /\ t.out_id = Segment(sc, FALSE)[2]
      /\ t.start <=> sc.start /\ ~Pushes(sc, FALSE)
      /\ t.maybe <=> sc.maybe /\ ~Ends(sc, FALSE)
  BY <1>1, <1>4, SampledFields, Zenon
<1>9. Segment(sc, FALSE) = <<sc.in_id, sc.out_id>>
  BY <1>2, <1>4 DEF Segment
<1>10. t.segs = IF Pushes(sc, FALSE) THEN Append(sc.segs, <<sc.in_id, sc.out_id>>) ELSE sc.segs
  BY <1>1, <1>9, SampledFields, Zenon
<1>11. t.hit = {i \in sc.hit : ~(Pushes(sc, FALSE) /\ i \in sc.in_id + 1 .. sc.out_id)}
  <2>1. t.hit = {i \in IF FALSE THEN sc.hit \cup {sc.i} ELSE sc.hit :
              ~(Pushes(sc, FALSE) /\ i \in Segment(sc, FALSE)[1] + 1 .. Segment(sc, FALSE)[2])}
    BY <1>1, SampledFields, Zenon
  <2>2. Segment(sc, FALSE)[1] = sc.in_id /\ Segment(sc, FALSE)[2] = sc.out_id
    <3> DEFINE seg == Segment(sc, FALSE)
    <3>1. seg = <<sc.in_id, sc.out_id>>
      BY <1>9
    <3> HIDE DEF seg
    <3>2. seg[1] = sc.in_id /\ seg[2] = sc.out_id
      BY <3>1
    <3> QED
      BY <3>2 DEF seg
  <2> QED
    BY <2>1, <2>2, Zenon
<1>12. t.in_id = sc.in_id /\ t.out_id = sc.out_id
  <2> DEFINE seg == Segment(sc, FALSE)
  <2>1. seg = <<sc.in_id, sc.out_id>>
    BY <1>9
  <2>2. t.in_id = seg[1] /\ t.out_id = seg[2]
    BY <1>8, Zenon
  <2> HIDE DEF seg
  <2> QED
    BY <2>1, <2>2
<1>13. t.start \in BOOLEAN /\ t.maybe \in BOOLEAN
  BY Zenon DEF Sampled
<1>14. t = [i |-> t.i, last_occ |-> t.last_occ, same |-> t.same, in_id |-> t.in_id,
            out_id |-> t.out_id, start |-> t.start, maybe |-> t.maybe, hit |-> t.hit, segs |-> t.segs]
  BY DEF Sampled
<1>15. t.maybe <=> sc.maybe /\ ~(n = 3)
  <2>1. ~(sc.i = NumPoints - order_)
    BY <1>2, <1>3
  <2>2. n > ENOUGH_INTERVAL <=> n = 3
    <3> HIDE DEF n
    <3> QED
      BY <1>3, <1>6
  <2>3. Ends(sc, FALSE) <=> sc.maybe /\ n = 3
    BY <2>1, <2>2, <1>4, Zenon DEF Ends
  <2> QED
    BY <2>3, <1>8, Zenon
<1> HIDE DEF t, n
<1>16. t.hit \subseteq sc.hit
  BY <1>11
<1>17. t.segs \in Seq(Int \X Int) /\ InOrder(t.segs) /\ WithinScan(t.segs, t.i)
  <2>1. CASE ~Pushes(sc, FALSE)
    BY <2>1, <1>2, <1>8, <1>10 DEF ScanOK
  <2>2. CASE Pushes(sc, FALSE)
    <3>1. sc.start
      BY <2>2, <1>7
    <3>2. /\ sc.in_id \in order_ - 1 .. sc.i - 1
          /\ \A k \in DOMAIN sc.segs : sc.segs[k][2] <= sc.in_id + 1
      BY <3>1 DEF ScanOK, Open
    <3>3. sc.in_id < sc.out_id /\ sc.out_id <= sc.i
      BY <3>1, <1>2 DEF ScanOK, AboutToClose
    <3>4. order_ - 1 <= sc.in_id
      BY <3>2, <1>2, <1>3
    <3>5. InOrder(sc.segs) /\ WithinScan(sc.segs, sc.i)
      BY DEF ScanOK
    <3>6. /\ Append(sc.segs, <<sc.in_id, sc.out_id>>) \in Seq(Int \X Int)
          /\ InOrder(Append(sc.segs, <<sc.in_id, sc.out_id>>))
          /\ WithinScan(Append(sc.segs, <<sc.in_id, sc.out_id>>), sc.i)
      BY <3>2, <3>3, <3>4, <3>5, <1>2, SegmentAdded
    <3>7. t.segs = Append(sc.segs, <<sc.in_id, sc.out_id>>) /\ t.i = sc.i
      BY <2>2, <1>8, <1>10
    <3> QED
      BY <3>6, <3>7
  <2> QED
    BY <2>1, <2>2
<1>18. t \in ScanRecord
  <2>1. t.i \in Int /\ t.same \in 0 .. 3
    <3>1. t.i = sc.i /\ t.same = n
      BY <1>8
    <3> QED
      BY <3>1, <1>2, <1>6
  <2>2. t.in_id \in Int /\ t.out_id \in Int
    BY <1>2, <1>12
  <2>3. t.last_occ \in BOOLEAN /\ t.hit \in SUBSET Int /\ t.segs \in Seq(Int \X Int)
    BY <1>2, <1>8, <1>16, <1>17
  <2>4. t \in [i : Int, last_occ : BOOLEAN, same : 0 .. 3, in_id : Int, out_id : Int,
   start : BOOLEAN, maybe : BOOLEAN, hit : SUBSET Int, segs : Seq(Int \X Int)]
    BY <2>1, <2>2, <2>3, <1>13, <1>14, Zenon
  <2> QED
    BY <2>4, <1>3 DEF ScanRecord
<1>19. \A h \in t.hit : h \in order_ .. t.i
  BY <1>8, <1>16 DEF ScanOK
<1>20. Closed(t)
  <2> SUFFICES ASSUME ~t.start
               PROVE  ~t.last_occ /\ ~t.maybe /\ t.same = ENOUGH_INTERVAL + 1 /\ t.hit = {}
    BY DEF Closed
  <2>1. CASE ~sc.start
    <3>1. ~sc.maybe /\ sc.same = ENOUGH_INTERVAL + 1 /\ sc.hit = {}
      BY <2>1 DEF ScanOK, Closed
    <3>2. sc.same = 3
      BY <3>1, <1>3
    <3>3. n = 3
      BY <3>2, <1>5
    <3>4. t.same = ENOUGH_INTERVAL + 1
      BY <3>3, <1>3, <1>8
    <3> QED
      BY <3>1, <3>4, <1>8, <1>16
  <2>2. CASE sc.start
    <3>1. Pushes(sc, FALSE)
      BY <2>2, <1>8
    <3>2. sc.maybe /\ n = 3
      BY <3>1, <1>7
    <3>3. ~t.maybe
      BY <3>2, <1>15
    <3>4. t.same = ENOUGH_INTERVAL + 1
      BY <3>2, <1>3, <1>8
    <3>5. \A h \in sc.hit : h \in sc.in_id + 1 .. sc.out_id
      <4>1. \A h \in sc.hit : sc.in_id < h
        BY <2>2 DEF ScanOK, Open
      <4>2. \A h \in sc.hit : h <= sc.out_id
        BY <2>2, <1>2 DEF ScanOK, AboutToClose
      <4> QED
        BY <4>1, <4>2, <1>2
    <3>6. t.hit = {}
      BY <3>1, <3>5, <1>11, Zenon
    <3> QED
      BY <3>3, <3>4, <3>6, <1>8
  <2> QED
    BY <2>1, <2>2
<1>21. ASSUME t.start
       PROVE  /\ sc.start /\ t.segs = sc.segs /\ t.maybe /\ t.same <= ENOUGH_INTERVAL
  <2>1. sc.start /\ ~Pushes(sc, FALSE)
    BY <1>21, <1>8
  <2>2. sc.maybe
    BY <2>1, <1>2 DEF ScanOK, AboutToClose
  <2>3. ~(n = 3)
    BY <2>1, <2>2, <1>7
  <2>4. n <= 2
    BY <2>3, <1>6
  <2>5. t.same <= ENOUGH_INTERVAL
    BY <2>4, <1>3, <1>8
  <2> QED
    BY <2>1, <2>2, <2>3, <2>5, <1>10, <1>15
<1>22. Open(t)
  <2>1. Open(sc)
    BY DEF ScanOK
  <2>2. ASSUME t.start
        PROVE  /\ t.in_id \in order_ - 1 .. t.i - 1
               /\ \A h \in t.hit : t.in_id < h
               /\ \A k \in DOMAIN t.segs : t.segs[k][2] <= t.in_id + 1
    BY <2>1, <2>2, <1>21, <1>8, <1>12, <1>16 DEF Open
  <2> QED
    BY <2>2 DEF Open
<1>23. AboutToClose(t)
  <2>1. AboutToClose(sc)
    BY DEF ScanOK
  <2>2. ASSUME t.start
        PROVE  t.in_id < t.out_id /\ t.out_id <= t.i /\ \A h \in t.hit : h <= t.out_id
    BY <2>1, <2>2, <1>2, <1>21, <1>8, <1>12, <1>16 DEF AboutToClose
  <2> QED
    BY <2>2, <1>8, <1>21 DEF AboutToClose
<1>24. ScanOK(t)
  BY <1>17, <1>18, <1>19, <1>20, <1>22, <1>23 DEF ScanOK
<1> QED
  BY <1>24 DEF t

LEMMA SampledKeeps ==
  ASSUME NEW sc, ScanOK(sc), sc.i \in order_ .. i_end, NEW occ \in BOOLEAN
  PROVE  ScanOK(Sampled(sc, occ)) /\ Sampled(sc, occ).i = sc.i
<1>1. ScanOK(Sampled(sc, TRUE))
  BY Occupied
<1>2. ScanOK(Sampled(sc, FALSE))
  BY FreeAfterOccupied, FreeAfterFree
<1>3. occ = TRUE \/ occ = FALSE
  OBVIOUS
<1>4. Sampled(sc, occ).i = sc.i
  BY SampledFields DEF ScanOK
<1> QED
  BY <1>1, <1>2, <1>3, <1>4, Zenon

(* The samples of a line are looked at one after another.                  *)
LEMMA LineKeeps ==
  ASSUME ScanOK(scan), scan.i \in order_ .. i_end, NEW line \in [1 .. Samples -> BOOLEAN]
  PROVE  ScanOK(Line(line)) /\ Line(line).i = scan.i
<1> DEFINE S == {sc \in ScanRecord : ScanOK(sc) /\ sc.i = scan.i}
           after == CHOOSE f : f = [n \in 0 .. Samples |->
                      IF n = 0 THEN scan ELSE Sampled(f[n - 1], line[n])]
           step == [p \in S \X (1 .. Samples) |-> Sampled(p[1], line[p[2]])]
<1>1. Line(line) = after[Samples]
  BY Zenon DEF Line
<1>2. scan \in S /\ Samples \in Nat
  BY SizeAssumption DEF ScanOK
<1>3. ASSUME NEW sc \in S, NEW n \in 1 .. Samples PROVE Sampled(sc, line[n]) \in S
  <2>1. line[n] \in BOOLEAN
    OBVIOUS
  <2>2. ScanOK(sc) /\ sc.i = scan.i
    OBVIOUS
  <2>3. sc.i \in order_ .. i_end
    BY <2>2
  <2>4. ScanOK(Sampled(sc, line[n])) /\ Sampled(sc, line[n]).i = sc.i
    BY <2>1, <2>2, <2>3, SampledKeeps
  <2>5. Sampled(sc, line[n]) \in ScanRecord
    BY <2>4 DEF ScanOK
  <2> QED
    BY <2>2, <2>4, <2>5
<1>4. step \in [S \X (1 .. Samples) -> S]
  <2>1. \A p \in S \X (1 .. Samples) : p[1] \in S /\ p[2] \in 1 .. Samples
    OBVIOUS
  <2> HIDE DEF S
  <2> QED
    BY <1>3, <2>1
<1> HIDE DEF S
<1>5. \A sc \in S, n \in 1 .. Samples : step[<<sc, n>>] = Sampled(sc, line[n])
  OBVIOUS
<1> HIDE DEF step
<1>6. PICK f : Runs(f, Samples, S, scan, step)
  BY <1>2, <1>4, StepByStep
<1>7. \A n \in 0 .. Samples : f[n] = IF n = 0 THEN scan ELSE Sampled(f[n - 1], line[n])
  <2> TAKE n \in 0 .. Samples
  <2>1. CASE n = 0
    BY <1>6, <2>1 DEF Runs
  <2>2. CASE n # 0
    <3>1. n \in 1 .. Samples /\ n - 1 \in 0 .. Samples
      BY <1>2, <2>2
    <3>2. f[n - 1] \in S
      BY <1>6, <3>1 DEF Runs
    <3> QED
      BY <1>5, <1>6, <2>2, <3>1, <3>2 DEF Runs
  <2> QED
    BY <2>1, <2>2
<1>8. f = [n \in 0 .. Samples |-> IF n = 0 THEN scan ELSE Sampled(f[n - 1], line[n])]
  BY <1>6, <1>7 DEF Runs
<1>9. after = [n \in 0 .. Samples |-> IF n = 0 THEN scan ELSE Sampled(after[n - 1], line[n])]
  BY <1>8, Zenon
<1> HIDE DEF after
<1>10. \A n \in 0 .. Samples : after[n] \in S
  <2> DEFINE T == {n \in 0 .. Samples : after[n] \notin S}
  <2>1. ASSUME T # {} PROVE FALSE
    <3>1. T \subseteq Nat
      OBVIOUS
    <3>2. PICK n \in T : \A m \in T : n <= m
      BY <2>1, <3>1, LeastElement
    <3>3. after[n] = IF n = 0 THEN scan ELSE Sampled(after[n - 1], line[n])
      BY <1>9, <3>2
    <3>4. n # 0
      BY <1>2, <3>2, <3>3
    <3>5. n \in 1 .. Samples /\ n - 1 \in 0 .. Samples /\ ~(n <= n - 1)
      BY <1>2, <3>2, <3>4
    <3>6. after[n - 1] \in S
      BY <3>2, <3>5
    <3>7. after[n] \in S
      BY <1>3, <3>3, <3>4, <3>5, <3>6
    <3> QED
      BY <3>2, <3>7
  <2> QED
    BY <2>1
<1>11. Line(line) \in S
  <2>1. Samples \in 0 .. Samples
    BY <1>2
  <2> QED
    BY <1>1, <1>10, <2>1
<1> QED
  BY <1>11 DEF S

LEMMA OnToNextLine ==
  ASSUME NEW sc, ScanOK(sc), sc.i \in order_ .. i_end, NEW t, t = [sc EXCEPT !.i = sc.i + 1]
  PROVE  /\ ScanOK(t) /\ t.i \in order_ .. i_end + 1
         /\ \A h \in t.hit : h \in order_ .. i_end
         /\ WithinScan(t.segs, t.i - 1)
<1>1. sc \in ScanRecord
  BY DEF ScanOK
<1>2. sc.i \in Int /\ sc.in_id \in Int /\ sc.out_id \in Int /\ sc.hit \subseteq Int /\ sc.segs \in Seq(Int \X Int)
  BY <1>1 DEF ScanRecord
<1>3. /\ t.i = sc.i + 1 /\ t.last_occ = sc.last_occ /\ t.same = sc.same /\ t.in_id = sc.in_id
      /\ t.out_id = sc.out_id /\ t.start = sc.start /\ t.maybe = sc.maybe
      /\ t.hit = sc.hit /\ t.segs = sc.segs
  BY <1>1 DEF ScanRecord
<1>4. t \in ScanRecord
  <2>1. sc.i + 1 \in Int
    BY <1>2
  <2> QED
    BY <1>1, <2>1, Zenon DEF ScanRecord
<1>5. order_ \in Int /\ i_end \in Int
  BY EndOfScan
<1>6. \A h \in t.hit : h \in order_ .. i_end /\ h \in order_ .. t.i
  <2> TAKE h \in t.hit
  <2>1. h \in order_ .. sc.i
    BY <1>3 DEF ScanOK
  <2> QED
    BY <2>1, <1>2, <1>3, <1>5
<1>7. WithinScan(t.segs, t.i - 1)
  <2>1. t.i - 1 = sc.i
    BY <1>2, <1>3
  <2> QED
    BY <2>1, <1>3 DEF ScanOK
<1>8. WithinScan(t.segs, t.i)
  <2>1. \A k \in DOMAIN sc.segs : sc.segs[k] \in Int \X Int
    BY <1>2, LenProperties, ElementOfSeq
  <2> QED
    BY <2>1, <1>2, <1>3 DEF ScanOK, WithinScan
<1>9. Closed(t)
  BY <1>3, Zenon DEF ScanOK, Closed
<1>10. Open(t)
  <2>1. sc.in_id \in order_ - 1 .. sc.i - 1 => t.in_id \in order_ - 1 .. t.i - 1
    BY <1>2, <1>3, <1>5
  <2> QED
    BY <2>1, <1>3, Zenon DEF ScanOK, Open
<1>11. AboutToClose(t)
  <2>1. sc.out_id <= sc.i => t.out_id <= t.i
    BY <1>2, <1>3
  <2> QED
    BY <2>1, <1>3, Zenon DEF ScanOK, AboutToClose
<1>12. t.i \in order_ .. i_end + 1
  BY <1>3, <1>5
<1>13. InOrder(t.segs)
  BY <1>3 DEF ScanOK
<1> QED
  BY <1>4, <1>6, <1>7, <1>8, <1>9, <1>10, <1>11, <1>12, <1>13 DEF ScanOK

LEMMA ScanStarts == scan = StartOfScan => ScanAt
<1> SUFFICES ASSUME scan = StartOfScan PROVE ScanAt
  OBVIOUS
<1>1. StartOfScan \in ScanRecord
  <2>1. order_ \in Int /\ ENOUGH_INTERVAL + 1 \in 0 .. ENOUGH_INTERVAL + 1 /\ -1 \in Int
    BY EndOfScan
  <2>2. <<>> \in Seq(Int \X Int)
    BY EmptySeq
  <2>3. {} \in SUBSET Int
    OBVIOUS
  <2> QED
    BY <2>1, <2>2, <2>3, Zenon DEF StartOfScan, ScanRecord
<1>2. /\ scan.i = order_ /\ scan.last_occ = FALSE /\ scan.same = ENOUGH_INTERVAL + 1
      /\ scan.start = FALSE /\ scan.maybe = FALSE /\ scan.hit = {} /\ scan.segs = <<>>
  BY DEF StartOfScan
<1>3. DOMAIN <<>> = {}
  BY EmptySeq, LenProperties
<1>4. InOrder(scan.segs) /\ WithinScan(scan.segs, scan.i) /\ WithinScan(scan.segs, scan.i - 1)
  BY <1>2, <1>3, Zenon DEF InOrder, WithinScan
<1>5. Closed(scan) /\ Open(scan) /\ AboutToClose(scan)
  BY <1>2, Zenon DEF Closed, Open, AboutToClose
<1>6. scan.i \in order_ .. i_end + 1
  BY <1>2, EndOfScan
<1> QED
  BY <1>1, <1>2, <1>4, <1>5, <1>6 DEF ScanAt, ScanOK

LEMMA ScanInit == Init => ScanAt
  BY ScanStarts DEF Init

LEMMA ScanNext == ScanAt /\ [Next]_vars => ScanAt'
<1> SUFFICES ASSUME ScanAt, [Next]_vars PROVE ScanAt'
  OBVIOUS
<1>1. scan' = scan => ScanAt'
  BY DEF ScanAt
<1>2. scan' = StartOfScan => ScanAt'
  <2>1. (scan = StartOfScan => ScanAt)'
    BY ScanStarts, PTL
  <2> QED
    BY <2>1
<1>3. CASE Sample
  <2>1. PICK line \in Lines : scan' = [Line(line) EXCEPT !.i = scan.i + 1]
    BY <1>3 DEF Sample
  <2>2. line \in [1 .. Samples -> BOOLEAN]
    BY <2>1, InputAssumption
  <2>3. scan.i \in order_ .. i_end
    BY <1>3, EndOfScan DEF Sample, ScanAt
  <2>4. ScanOK(Line(line)) /\ Line(line).i = scan.i
    BY <2>2, <2>3, LineKeeps DEF ScanAt
  <2>5. scan' = [Line(line) EXCEPT !.i = Line(line).i + 1]
    BY <2>1, <2>4
  <2>6. Line(line).i \in order_ .. i_end
    BY <2>3, <2>4
  <2> QED
    BY <2>4, <2>5, <2>6, OnToNextLine DEF ScanAt
<1>4. CASE Replan \/ SwarmVerdict \/ CurveVerdict
  BY <1>1, <1>2, <1>4 DEF Replan, SwarmVerdict, CurveVerdict, Restart, StartInit
<1>5. CASE FindPaths
  BY <1>2, <1>5 DEF FindPaths
<1>6. ASSUME NEW smooth \in BOOLEAN, Evaluate(smooth) PROVE ScanAt'
  BY <1>1, <1>6 DEF Evaluate
<1>7. CASE Assign \/ Assigned \/ Vary \/ Select
  BY <1>1, <1>7 DEF Assign, Assigned, Vary, Select
<1>8. CASE Prepare \/ TryAgain \/ SolverFails \/ Converges
  BY <1>1, <1>8 DEF Prepare, TryAgain, SolverFails, Converges
<1>9. CASE Loop \/ NextTraj \/ Refine
  BY <1>1, <1>9 DEF Loop, NextTraj, Refine
<1>10. CASE UNCHANGED vars
  BY <1>1, <1>10 DEF vars
<1> QED
  BY <1>3, <1>4, <1>5, <1>6, <1>7, <1>8, <1>9, <1>10 DEF Next, Step

(* SegmentsCover: whatever the samples show, an occupied line is in a      *)
(* segment or in the one that is still open.                               *)
THEOREM ObstaclesCovered == Spec => []SegmentsCover
<1>1. ScanAt => SegmentsCover
  <2> SUFFICES ASSUME ScanAt, NEW h \in scan.hit PROVE scan.start /\ scan.in_id < h
    BY DEF SegmentsCover
  <2>1. scan.start
    BY Zenon DEF ScanAt, ScanOK, Closed
  <2> QED
    BY <2>1, Zenon DEF ScanAt, ScanOK, Open
<1> QED
  BY <1>1, ScanInit, ScanNext, PTL DEF Spec

-----------------------------------------------------------------------------
(* "Avoid overlap".                                                        *)

(* In order, and with no control point in common.                          *)
Apart(segs) == \A j, k \in DOMAIN segs : j < k => segs[j][2] < segs[k][1]

First(segs, k) == IF k = 1 THEN segs[1][1] ELSE Cut(segs[k - 1], segs[k]).first
Second(segs, k) == IF k = Len(segs) THEN segs[k][2] ELSE Cut(segs[k], segs[k + 1]).second

LEMMA AdjustedIs ==
  ASSUME NEW segs \in Seq(Int \X Int)
  PROVE  /\ Adjusted(segs) = [k \in 1 .. Len(segs) |-> <<First(segs, k), Second(segs, k)>>]
         /\ Len(segs) \in Nat
<1> DEFINE first == [k \in 1 .. Len(segs) |-> IF k = 1 THEN segs[1][1] ELSE Cut(segs[k - 1], segs[k]).first]
<1>1. Adjusted(segs) = [k \in 1 .. Len(segs) |->
        <<first[k], IF k = Len(segs) THEN segs[k][2] ELSE Cut(segs[k], segs[k + 1]).second>>]
  BY Zenon DEF Adjusted
<1>2. \A k \in 1 .. Len(segs) : first[k] = First(segs, k)
  BY Zenon DEF First
<1> HIDE DEF first
<1>3. \A k \in 1 .. Len(segs) :
        <<first[k], IF k = Len(segs) THEN segs[k][2] ELSE Cut(segs[k], segs[k + 1]).second>>
          = <<First(segs, k), Second(segs, k)>>
  BY <1>2, Zenon DEF Second
<1>4. Len(segs) \in Nat
  BY LenProperties
<1> QED
  BY <1>1, <1>3, <1>4, Zenon

(* The middle of what two neighbours share.                                *)
LEMMA CutMiddle ==
  ASSUME NEW left \in Int \X Int, NEW right \in Int \X Int
  PROVE  /\ Cut(left, right).first \in Int /\ Cut(left, right).second \in Int
         /\ Cut(left, right).second < Cut(left, right).first \/ left[2] < right[1]
         /\ Cut(left, right).second <= left[2] /\ right[1] <= Cut(left, right).first
         /\ left[2] < right[1] => Cut(left, right).second = left[2] /\ Cut(left, right).first = right[1]
         /\ left[2] = right[1] => Cut(left, right).second = left[2] - 1 /\ Cut(left, right).first = right[1] + 1
         /\ left[2] = right[1] + 1 => Cut(left, right).second = left[2] - 1 /\ Cut(left, right).first = right[1] + 1
         /\ left[2] >= right[1] => Cut(left, right).first <= left[2] + 1
         /\ left[2] >= 0 /\ right[1] >= 0 => Cut(left, right).second >= -1
<1>1. PICK a \in Int, b \in Int : a = left[2] /\ b = right[1]
  OBVIOUS
<1> DEFINE sum == a + b
           c == Cut(left, right)
<1>2. c = IF a >= b
          THEN [second |-> IF sum % 2 = 0 THEN sum \div 2 - 1 ELSE sum \div 2, first |-> sum \div 2 + 1]
          ELSE [second |-> a, first |-> b]
  BY <1>1, Zenon DEF Cut
<1>3. c.second = IF a >= b THEN (IF sum % 2 = 0 THEN sum \div 2 - 1 ELSE sum \div 2) ELSE a
  <2>1. CASE a >= b
    BY <1>2, <2>1
  <2>2. CASE ~(a >= b)
    BY <1>2, <2>2
  <2> QED
    BY <2>1, <2>2
<1>4. c.first = IF a >= b THEN sum \div 2 + 1 ELSE b
  <2>1. CASE a >= b
    BY <1>2, <2>1
  <2>2. CASE ~(a >= b)
    BY <1>2, <2>2
  <2> QED
    BY <2>1, <2>2
<1> HIDE DEF c
<1>5. PICK f \in Int, s \in Int : f = c.first /\ s = c.second
  <2>1. c.first \in Int
    BY <1>4
  <2>2. c.second \in Int
    BY <1>3
  <2> QED
    BY <2>1, <2>2
<1>6. PICK q \in Int, r \in 0 .. 1 : sum = 2 * q + r /\ sum \div 2 = q /\ sum % 2 = r
  <2>0. sum \in Int
    OBVIOUS
  <2> HIDE DEF sum
  <2>1. PICK q \in Int : q = sum \div 2
    BY <2>0
  <2>2. 2 * q <= sum /\ sum < 2 * q + 2
    BY <2>0, <2>1
  <2>3. PICK r \in 0 .. 1 : sum = 2 * q + r
    <3>1. sum - 2 * q \in 0 .. 1 /\ sum = 2 * q + (sum - 2 * q)
      BY <2>0, <2>2
    <3> QED
      BY <3>1
  <2>4. sum % 2 = r
    BY <2>0, <2>3
  <2> QED
    BY <2>1, <2>3, <2>4
<1>7. s = IF a >= b THEN (IF r = 0 THEN q - 1 ELSE q) ELSE a
  BY <1>3, <1>5, <1>6
<1>8. f = IF a >= b THEN q + 1 ELSE b
  BY <1>4, <1>5, <1>6
<1>9. a + b = 2 * q + r
  BY <1>6
<1>10. /\ s < f \/ a < b
       /\ s <= a /\ b <= f
       /\ a < b => s = a /\ f = b
       /\ a = b => s = a - 1 /\ f = b + 1
       /\ a = b + 1 => s = a - 1 /\ f = b + 1
       /\ a >= b => f <= a + 1
       /\ a >= 0 /\ b >= 0 => s >= -1
  BY <1>7, <1>8, <1>9
<1> QED
  BY <1>1, <1>5, <1>10 DEF c

LEMMA SegmentFields ==
  ASSUME NEW segs \in Seq(Int \X Int)
  PROVE  /\ DOMAIN segs = 1 .. Len(segs) /\ Len(segs) \in Nat
         /\ \A k \in 1 .. Len(segs) : segs[k] \in Int \X Int /\ segs[k][1] \in Int /\ segs[k][2] \in Int
<1>1. DOMAIN segs = 1 .. Len(segs) /\ Len(segs) \in Nat
  BY LenProperties
<1>2. \A k \in 1 .. Len(segs) : segs[k] \in Int \X Int
  BY ElementOfSeq
<1> QED
  BY <1>1, <1>2

(* Each segment keeps to one side of the middle of what it shares.         *)
LEMMA AdjustedApart ==
  ASSUME NEW segs \in Seq(Int \X Int), InOrder(segs),
         \A k \in 1 .. Len(segs) : segs[k][1] < segs[k][2]
  PROVE  Apart(Adjusted(segs))
<1> DEFINE adj == Adjusted(segs)
           n == Len(segs)
<1>1. adj = [k \in 1 .. n |-> <<First(segs, k), Second(segs, k)>>] /\ n \in Nat
  BY AdjustedIs
<1> HIDE DEF adj
<1>2. DOMAIN adj = 1 .. n /\ \A k \in 1 .. n : adj[k][1] = First(segs, k) /\ adj[k][2] = Second(segs, k)
  BY <1>1
<1>3. DOMAIN segs = 1 .. n /\ \A k \in 1 .. n : segs[k] \in Int \X Int /\ segs[k][1] \in Int /\ segs[k][2] \in Int
  BY SegmentFields
<1> HIDE DEF n
<1>4. ASSUME NEW j \in 1 .. n, NEW k \in 1 .. n, j < k PROVE Second(segs, j) < First(segs, k)
  <2>1. j + 1 \in 1 .. n /\ k - 1 \in 1 .. n /\ j # n /\ k # 1
    BY <1>1, <1>4
  <2>2. Second(segs, j) = Cut(segs[j], segs[j + 1]).second
    BY <2>1 DEF Second, n
  <2>3. First(segs, k) = Cut(segs[k - 1], segs[k]).first
    BY <2>1 DEF First
  <2>4. PICK b1 \in Int, e1 \in Int, b2 \in Int, e2 \in Int, b3 \in Int, e3 \in Int, b4 \in Int, e4 \in Int :
          /\ b1 = segs[j][1] /\ e1 = segs[j][2] /\ b2 = segs[j + 1][1] /\ e2 = segs[j + 1][2]
          /\ b3 = segs[k - 1][1] /\ e3 = segs[k - 1][2] /\ b4 = segs[k][1] /\ e4 = segs[k][2]
    BY <1>3, <2>1
  <2>5. PICK s \in Int, f \in Int :
          s = Cut(segs[j], segs[j + 1]).second /\ f = Cut(segs[k - 1], segs[k]).first
    <3>1. segs[j] \in Int \X Int /\ segs[j + 1] \in Int \X Int /\ segs[k - 1] \in Int \X Int /\ segs[k] \in Int \X Int
      BY <1>3, <2>1
    <3>2. Cut(segs[j], segs[j + 1]).second \in Int
      BY <3>1, CutMiddle
    <3>3. Cut(segs[k - 1], segs[k]).first \in Int
      BY <3>1, CutMiddle
    <3> QED
      BY <3>2, <3>3
  <2>6. /\ s <= e1
        /\ e1 < b2 => s = e1
        /\ e1 = b2 => s = e1 - 1
        /\ e1 = b2 + 1 => s = e1 - 1
    <3>1. segs[j] \in Int \X Int /\ segs[j + 1] \in Int \X Int
      BY <1>3, <2>1
    <3>2. LET left == segs[j]
              right == segs[j + 1]
          IN  /\ Cut(left, right).second <= left[2]
              /\ left[2] < right[1] => Cut(left, right).second = left[2]
              /\ left[2] = right[1] => Cut(left, right).second = left[2] - 1
              /\ left[2] = right[1] + 1 => Cut(left, right).second = left[2] - 1
      BY <3>1, CutMiddle
    <3> QED
      BY <2>4, <2>5, <3>2
  <2>7. /\ b4 <= f
        /\ e3 = b4 => f = b4 + 1
        /\ e3 = b4 + 1 => f = b4 + 1
    <3>1. segs[k - 1] \in Int \X Int /\ segs[k] \in Int \X Int
      BY <1>3, <2>1
    <3>2. LET left == segs[k - 1]
              right == segs[k]
          IN  /\ right[1] <= Cut(left, right).first
              /\ left[2] = right[1] => Cut(left, right).first = right[1] + 1
              /\ left[2] = right[1] + 1 => Cut(left, right).first = right[1] + 1
      BY <3>1, CutMiddle
    <3> QED
      BY <2>4, <2>5, <3>2
  <2>8. /\ b2 < e2
        /\ e1 <= b2 + 1 /\ e3 <= b4 + 1 /\ e1 <= b4 + 1
        /\ j + 1 < k => e2 <= b4 + 1 /\ e2 <= e3
        /\ j + 1 = k => b2 = b4 /\ e1 = e3
    <3>1. b2 < e2
      BY <2>1, <2>4 DEF n
    <3>2. e1 <= b2 + 1 /\ e3 <= b4 + 1 /\ e1 <= b4 + 1
      <4>1. \A p, q \in 1 .. n : p < q => segs[p][2] <= segs[q][1] + 1
        BY <1>3 DEF InOrder
      <4>2. j < j + 1 /\ k - 1 < k
        OBVIOUS
      <4>3. segs[j][2] <= segs[j + 1][1] + 1 /\ segs[k - 1][2] <= segs[k][1] + 1 /\ segs[j][2] <= segs[k][1] + 1
        BY <1>4, <2>1, <4>1, <4>2
      <4> QED
        BY <2>4, <4>3
    <3>3. ASSUME j + 1 < k PROVE e2 <= b4 + 1 /\ e2 <= e3
      <4>1. \A p, q \in 1 .. n : p < q => segs[p][2] <= segs[q][1] + 1 /\ segs[p][2] <= segs[q][2]
        BY <1>3 DEF InOrder
      <4>2. segs[j + 1][2] <= segs[k][1] + 1
        BY <2>1, <3>3, <4>1
      <4>3. segs[j + 1][2] <= segs[k - 1][2]
        <5>1. CASE j + 1 < k - 1
          BY <2>1, <4>1, <5>1
        <5>2. CASE j + 1 = k - 1
          BY <1>3, <2>1, <5>2
        <5> QED
          BY <3>3, <5>1, <5>2
      <4> QED
        BY <2>4, <4>2, <4>3
    <3>4. ASSUME j + 1 = k PROVE b2 = b4 /\ e1 = e3
      <4>1. k - 1 = j
        BY <3>4
      <4> QED
        BY <2>4, <3>4, <4>1
    <3> QED
      BY <3>1, <3>2, <3>3, <3>4
  <2>9. s < f
    <3>1. CASE j + 1 = k
      BY <2>6, <2>7, <2>8, <3>1
    <3>2. CASE j + 1 < k
      BY <2>6, <2>7, <2>8, <3>2
    <3> QED
      BY <1>4, <3>1, <3>2
  <2> QED
    BY <2>2, <2>3, <2>5, <2>9
<1>5. Apart(adj)
  BY <1>2, <1>4 DEF Apart
<1> QED
  BY <1>5 DEF adj

(* What is kept of each is a part of it.                                   *)
LEMMA AdjustedInside ==
  ASSUME NEW segs \in Seq(Int \X Int), NEW m \in Int,
         \A k \in 1 .. Len(segs) : 0 <= segs[k][1] /\ 0 <= segs[k][2] /\ segs[k][2] <= m
  PROVE  /\ Len(Adjusted(segs)) = Len(segs)
         /\ Adjusted(segs) \in Seq(Int \X Int)
         /\ \A k \in 1 .. Len(segs) : 0 <= Adjusted(segs)[k][1] /\ Adjusted(segs)[k][2] <= m
<1> DEFINE adj == Adjusted(segs)
           n == Len(segs)
<1>1. adj = [k \in 1 .. n |-> <<First(segs, k), Second(segs, k)>>] /\ n \in Nat
  BY AdjustedIs
<1> HIDE DEF adj
<1>2. \A k \in 1 .. n : adj[k] = <<First(segs, k), Second(segs, k)>>
  BY <1>1
<1>3. \A k \in 1 .. n : segs[k] \in Int \X Int /\ segs[k][1] \in Int /\ segs[k][2] \in Int
  BY SegmentFields
<1>4. \A k \in 1 .. n : 0 <= segs[k][1] /\ 0 <= segs[k][2] /\ segs[k][2] <= m
  OBVIOUS
<1> HIDE DEF n
<1>5. ASSUME NEW k \in 1 .. n PROVE First(segs, k) \in Int /\ 0 <= First(segs, k)
  <2>1. CASE k = 1
    BY <1>3, <1>4, <2>1 DEF First
  <2>2. CASE k # 1
    <3>1. k - 1 \in 1 .. n /\ First(segs, k) = Cut(segs[k - 1], segs[k]).first
      BY <1>1, <2>2 DEF First
    <3>2. segs[k - 1] \in Int \X Int /\ segs[k] \in Int \X Int /\ segs[k][1] \in Int /\ 0 <= segs[k][1]
      BY <1>3, <1>4, <3>1
    <3>3. Cut(segs[k - 1], segs[k]).first \in Int /\ segs[k][1] <= Cut(segs[k - 1], segs[k]).first
      BY <3>2, CutMiddle
    <3> QED
      BY <3>1, <3>2, <3>3
  <2> QED
    BY <2>1, <2>2
<1>6. ASSUME NEW k \in 1 .. n PROVE Second(segs, k) \in Int /\ Second(segs, k) <= m
  <2>1. CASE k = n
    <3>1. Second(segs, k) = segs[k][2]
      BY <2>1 DEF Second, n
    <3> QED
      BY <1>3, <1>4, <3>1
  <2>2. CASE k # n
    <3>1. k + 1 \in 1 .. n /\ Second(segs, k) = Cut(segs[k], segs[k + 1]).second
      <4>1. k + 1 \in 1 .. n
        BY <1>1, <2>2
      <4>2. k # Len(segs)
        BY <2>2 DEF n
      <4> QED
        BY <4>1, <4>2 DEF Second
    <3>2. segs[k + 1] \in Int \X Int /\ segs[k] \in Int \X Int /\ segs[k][2] \in Int /\ segs[k][2] <= m
      BY <1>3, <1>4, <3>1
    <3>3. Cut(segs[k], segs[k + 1]).second \in Int /\ Cut(segs[k], segs[k + 1]).second <= segs[k][2]
      BY <3>2, CutMiddle
    <3> QED
      BY <3>1, <3>2, <3>3
  <2> QED
    BY <2>1, <2>2
<1>7. adj \in Seq(Int \X Int) /\ Len(adj) = n
  <2>1. adj = [k \in 1 .. n |-> <<First(segs, k), Second(segs, k)>>]
    BY <1>1
  <2>2. \A k \in 1 .. n : <<First(segs, k), Second(segs, k)>> \in Int \X Int
    BY <1>5, <1>6
  <2>3. adj \in [1 .. n -> Int \X Int]
    BY <2>1, <2>2
  <2> QED
    BY <1>1, <2>3, IsASeq, LenProperties
<1>8. \A k \in 1 .. n : 0 <= adj[k][1] /\ adj[k][2] <= m
  BY <1>2, <1>5, <1>6
<1> QED
  BY <1>7, <1>8 DEF adj, n

(* The segments of initControlPoints, adjusted.                            *)
LEMMA AdjustedTyped ==
  ASSUME NEW segs \in Seq(Int \X Int), InOrder(segs),
         \A k \in 1 .. Len(segs) : 0 <= segs[k][1] /\ segs[k][1] < segs[k][2] /\ segs[k][2] \in Points
  PROVE  /\ Adjusted(segs) \in Seq(Points \X Points) /\ Len(Adjusted(segs)) = Len(segs)
<1> DEFINE adj == Adjusted(segs)
           n == Len(segs)
<1>0. NumPoints \in Nat
  BY EndOfScan
<1>1. adj = [k \in 1 .. n |-> <<First(segs, k), Second(segs, k)>>] /\ n \in Nat
  BY AdjustedIs
<1> HIDE DEF adj
<1>2. \A k \in 1 .. n : segs[k] \in Int \X Int /\ segs[k][1] \in Int /\ segs[k][2] \in Int
  BY SegmentFields
<1>3. \A k \in 1 .. n : 0 <= segs[k][1] /\ segs[k][1] < segs[k][2] /\ segs[k][2] < NumPoints
  BY <1>0 DEF Points
<1>4. \A k \in 1 .. n : k + 1 \in 1 .. n => segs[k][2] <= segs[k + 1][1] + 1
  BY <1>1, SegmentFields DEF InOrder
<1>5. ASSUME NEW k \in 1 .. n, k + 1 \in 1 .. n
      PROVE  Cut(segs[k], segs[k + 1]).second \in Points /\ Cut(segs[k], segs[k + 1]).first \in Points
  <2>1. PICK a \in Int, b \in Int, e \in Int : a = segs[k][2] /\ b = segs[k + 1][1] /\ e = segs[k + 1][2]
    BY <1>2, <1>5
  <2>2. a >= 1 /\ a < NumPoints /\ b >= 0 /\ b < e /\ e < NumPoints /\ a <= b + 1
    <3>1. 0 <= segs[k][1] /\ segs[k][1] < segs[k][2] /\ segs[k][2] < NumPoints /\ segs[k][1] \in Int
      BY <1>2, <1>3
    <3>2. 0 <= segs[k + 1][1] /\ segs[k + 1][1] < segs[k + 1][2] /\ segs[k + 1][2] < NumPoints
      BY <1>3, <1>5
    <3>3. a <= b + 1
      BY <1>4, <1>5, <2>1
    <3> QED
      BY <2>1, <3>1, <3>2, <3>3
  <2>3. LET c == Cut(segs[k], segs[k + 1])
        IN  /\ c.first \in Int /\ c.second \in Int
            /\ a < b => c.second = a /\ c.first = b
            /\ a = b => c.second = a - 1 /\ c.first = b + 1
            /\ a = b + 1 => c.second = a - 1 /\ c.first = b + 1
    <3>1. segs[k] \in Int \X Int /\ segs[k + 1] \in Int \X Int
      BY <1>2, <1>5
    <3> QED
      BY <3>1, <2>1, CutMiddle
  <2>4. PICK f \in Int, s \in Int : f = Cut(segs[k], segs[k + 1]).first /\ s = Cut(segs[k], segs[k + 1]).second
    BY <2>3
  <2>5. /\ a < b => s = a /\ f = b
        /\ a = b => s = a - 1 /\ f = b + 1
        /\ a = b + 1 => s = a - 1 /\ f = b + 1
    BY <2>3, <2>4
  <2>6. f \in Points /\ s \in Points
    BY <1>0, <2>2, <2>5 DEF Points
  <2> QED
    BY <2>4, <2>6
<1>6. ASSUME NEW k \in 1 .. n PROVE First(segs, k) \in Points
  <2>1. CASE k = 1
    <3>1. segs[1][1] \in Points
      BY <1>0, <1>2, <1>3, <2>1 DEF Points
    <3> QED
      BY <2>1, <3>1 DEF First
  <2>2. CASE k # 1
    <3>1. k - 1 \in 1 .. n /\ (k - 1) + 1 = k /\ First(segs, k) = Cut(segs[k - 1], segs[k]).first
      BY <1>1, <2>2 DEF First
    <3> QED
      BY <1>5, <3>1
  <2> QED
    BY <2>1, <2>2
<1>7. ASSUME NEW k \in 1 .. n PROVE Second(segs, k) \in Points
  <2>1. CASE k = n
    <3>1. Second(segs, k) = segs[k][2]
      BY <2>1 DEF Second
    <3> QED
      BY <3>1
  <2>2. CASE k # n
    <3>1. k + 1 \in 1 .. n
      BY <1>1, <2>2
    <3>2. Second(segs, k) = Cut(segs[k], segs[k + 1]).second
      BY <2>2 DEF Second
    <3> QED
      BY <1>5, <3>1, <3>2
  <2> QED
    BY <2>1, <2>2
<1>8. adj \in [1 .. n -> Points \X Points]
  BY <1>1, <1>6, <1>7
<1>9. adj \in Seq(Points \X Points) /\ Len(adj) = n
  BY <1>1, <1>8, IsASeq, LenProperties
<1> QED
  BY <1>9 DEF adj

-----------------------------------------------------------------------------
(* check_collision_and_rebound gives base points to control points only.   *)

(* Its segments, of which the last may have no end.                        *)
Plain(segs, m) == \A k \in 1 .. Len(segs) : 0 <= segs[k][1] /\ 0 <= segs[k][2] /\ segs[k][2] <= m

LastMayBeEndless(segs) ==
  /\ segs \in Seq(Int \X Int) /\ Plain(segs, NumPoints)
  /\ \A k \in 1 .. Len(segs) : k < Len(segs) => segs[k][2] <= NumPoints - 1

LEMMA FreeAboveIs ==
  ASSUME NEW occ \in SUBSET Points, NEW i \in order_ - 1 .. i_end
  PROVE  FreeAbove(occ, i) \in i + 1 .. NumPoints
<1> DEFINE T == {j \in i + 1 .. NumPoints : j \notin occ}
<1>1. NumPoints \in T /\ T \subseteq Nat
  <2>1. NumPoints \notin occ
    BY EndOfScan DEF Points
  <2> QED
    BY <2>1, EndOfScan
<1>2. \E n \in T : \A m \in T : n <= m
  BY <1>1, LeastElement
<1>3. FreeAbove(occ, i) = CHOOSE x \in T : \A y \in T : x <= y
  BY Zenon DEF FreeAbove, SmallestOf
<1>4. FreeAbove(occ, i) \in T
  BY <1>2, <1>3, Zenon
<1> QED
  BY <1>4

LEMMA FreeBelowIs ==
  ASSUME NEW occ \in SUBSET Points, NEW i \in order_ - 1 .. i_end
  PROVE  FreeBelow(occ, i) \in 0 .. i - 1
<1> DEFINE T == {j \in 0 .. i - 1 : j \notin occ} \cup {0}
           U == {i - j : j \in T}
<1>1. T \subseteq 0 .. i - 1 /\ 0 \in T /\ i \in Nat
  BY EndOfScan
<1> HIDE DEF T
<1>2. U \subseteq Nat /\ U # {}
  BY <1>1
<1>3. PICK n \in U : \A m \in U : n <= m
  BY <1>2, LeastElement
<1>4. PICK j \in T : n = i - j
  BY <1>3
<1>5. \A y \in T : y <= j
  <2> TAKE y \in T
  <2>1. i - j <= i - y
    BY <1>3, <1>4
  <2> QED
    BY <2>1, <1>1
<1>6. FreeBelow(occ, i) = CHOOSE x \in T : \A y \in T : y <= x
  BY Zenon DEF FreeBelow, LargestOf, T
<1>7. FreeBelow(occ, i) \in T
  BY <1>5, <1>6, Zenon
<1> QED
  BY <1>1, <1>7

(* The segments from point i on, those from later points being known.      *)
From(occ, outside, later, i) ==
  IF i > i_end THEN <<>>
  ELSE IF i \notin occ \ outside THEN later[i + 1]
  ELSE <<<<FreeBelow(occ, i), FreeAbove(occ, i)>>>> \o later[FreeAbove(occ, i) + 2]

LEMMA FromLater ==
  ASSUME NEW occ \in SUBSET Points, NEW outside, NEW i \in order_ - 1 .. NumPoints + 2, NEW f, NEW g,
         \A n \in i + 1 .. NumPoints + 2 : f[n] = g[n]
  PROVE  From(occ, outside, f, i) = From(occ, outside, g, i)
<1>1. CASE i > i_end
  BY <1>1, Zenon DEF From
<1>2. CASE ~(i > i_end)
  <2>1. i \in order_ - 1 .. i_end /\ i \in Int
    BY <1>2, EndOfScan
  <2>2. FreeAbove(occ, i) \in i + 1 .. NumPoints
    BY <2>1, FreeAboveIs
  <2>3. FreeAbove(occ, i) + 2 \in i + 1 .. NumPoints + 2 /\ i + 1 \in i + 1 .. NumPoints + 2
    BY <2>1, <2>2, EndOfScan
  <2>4. f[i + 1] = g[i + 1] /\ f[FreeAbove(occ, i) + 2] = g[FreeAbove(occ, i) + 2]
    BY <2>3
  <2> QED
    BY <2>4, Zenon DEF From
<1> QED
  BY <1>1, <1>2

LEMMA NewSegmentsIs ==
  ASSUME NEW occ \in SUBSET Points, NEW outside
  PROVE  \E from : /\ from = [i \in order_ - 1 .. NumPoints + 2 |-> From(occ, outside, from, i)]
                   /\ NewSegments(occ, outside) = from[order_ - 1]
<1> DEFINE N == NumPoints + 2
           D == N - (order_ - 1)
           Known(f, i) == f = [n \in i .. N |-> From(occ, outside, f, n)]
           T == {d \in 0 .. D : ~\E f : Known(f, N - d)}
<1>0. N \in Nat /\ D \in Nat /\ order_ - 1 \in Nat /\ order_ - 1 + D = N /\ i_end \in Nat /\ i_end < N
  BY EndOfScan
<1>1. ASSUME T # {} PROVE FALSE
  <2>1. T \subseteq Nat
    BY <1>0
  <2>2. PICK d \in T : \A m \in T : d <= m
    BY <1>1, <2>1, LeastElement
  <2>3. PICK i \in Int : i = N - d
    BY <1>0, <2>2
  <2>4. i \in order_ - 1 .. N /\ d \in 0 .. D
    BY <1>0, <2>2, <2>3
  <2>5. ~\E f : Known(f, i)
    BY <2>2, <2>3
  <2> HIDE DEF T, Known, D
  <2>6. CASE d = 0
    <3> DEFINE f == [n \in i .. N |-> <<>>]
    <3>1. i = N
      BY <1>0, <2>3, <2>6
    <3>2. \A n \in i .. N : From(occ, outside, f, n) = <<>>
      <4>1. \A n \in i .. N : n > i_end
        BY <1>0, <3>1
      <4> QED
        BY <4>1, Zenon DEF From
    <3>3. f = [n \in i .. N |-> From(occ, outside, f, n)]
      BY <3>2, Zenon
    <3> QED
      BY <2>5, <3>3, Zenon DEF Known
  <2>7. CASE d # 0
    <3>1. d - 1 \in 0 .. D /\ d - 1 \in Int /\ ~(d <= d - 1) /\ N - (d - 1) = i + 1
      BY <1>0, <2>3, <2>4, <2>7
    <3>2. d - 1 \notin T
      BY <2>2, <3>1
    <3>3. PICK f : Known(f, i + 1)
      BY <3>1, <3>2 DEF T
    <3> DEFINE g == [n \in i .. N |-> IF n = i THEN From(occ, outside, f, i) ELSE f[n]]
    <3>4. i \in i .. N /\ \A n \in i + 1 .. N : n \in i .. N /\ n # i
      BY <1>0, <2>4
    <3>5. g[i] = From(occ, outside, f, i) /\ \A n \in i + 1 .. N : g[n] = f[n]
      BY <3>4, Zenon
    <3>6. \A n \in i + 1 .. N : f[n] = From(occ, outside, f, n)
      BY <3>3, Zenon DEF Known
    <3>6a. \A n \in i .. N : g[n] = IF n = i THEN From(occ, outside, f, i) ELSE f[n]
      BY Zenon
    <3>6b. g = [n \in i .. N |-> g[n]]
      BY <3>6a, Zenon
    <3> HIDE DEF g
    <3>7. ASSUME NEW n \in i .. N PROVE g[n] = From(occ, outside, g, n)
      <4>1. n \in order_ - 1 .. NumPoints + 2 /\ \A m \in n + 1 .. NumPoints + 2 : m \in i + 1 .. N
        BY <1>0, <2>4
      <4>2. \A m \in n + 1 .. NumPoints + 2 : f[m] = g[m]
        BY <3>5, <4>1
      <4>3. From(occ, outside, f, n) = From(occ, outside, g, n)
        BY <4>1, <4>2, FromLater
      <4>4. g[n] = From(occ, outside, f, n)
        <5>1. CASE n = i
          BY <3>5, <5>1
        <5>2. CASE n # i
          <6>1. n \in i + 1 .. N
            BY <1>0, <2>4, <5>2
          <6> QED
            BY <3>5, <3>6, <6>1
        <5> QED
          BY <5>1, <5>2
      <4> QED
        BY <4>3, <4>4
    <3>8. g = [n \in i .. N |-> From(occ, outside, g, n)]
      BY <3>6b, <3>7, Zenon
    <3> QED
      BY <2>5, <3>8, Zenon DEF Known
  <2> QED
    BY <2>6, <2>7
<1>2. D \in 0 .. D
  BY <1>0
<1>3. N - D = order_ - 1
  BY <1>0
<1>4. PICK f : f = [n \in order_ - 1 .. N |-> From(occ, outside, f, n)]
  <2>1. D \notin T
    BY <1>1
  <2>2. \E f : Known(f, N - D)
    BY <1>2, <2>1
  <2> QED
    BY <1>3, <2>2
<1> DEFINE from == CHOOSE h : h = [i \in order_ - 1 .. NumPoints + 2 |->
                     IF i > i_end THEN <<>>
                     ELSE IF i \notin occ \ outside THEN h[i + 1]
                     ELSE <<<<FreeBelow(occ, i), FreeAbove(occ, i)>>>> \o h[FreeAbove(occ, i) + 2]]
<1>5. NewSegments(occ, outside) = from[order_ - 1]
  BY Zenon DEF NewSegments
<1>6. from = [i \in order_ - 1 .. NumPoints + 2 |-> From(occ, outside, from, i)]
  BY <1>4, Zenon DEF From
<1> QED
  BY <1>5, <1>6, Zenon

LEMMA FromTyped ==
  ASSUME NEW occ \in SUBSET Points, NEW outside, NEW i \in order_ - 1 .. NumPoints + 2, NEW later,
         \A n \in i + 1 .. NumPoints + 2 :
           LastMayBeEndless(later[n]) /\ (n > i_end => later[n] = <<>>)
  PROVE  /\ LastMayBeEndless(From(occ, outside, later, i))
         /\ i > i_end => From(occ, outside, later, i) = <<>>
<1>1. CASE i > i_end
  <2>1. From(occ, outside, later, i) = <<>>
    BY <1>1, Zenon DEF From
  <2>2. <<>> \in Seq(Int \X Int) /\ Len(<<>>) = 0
    BY EmptySeq
  <2>3. \A k \in 1 .. 0 : FALSE
    OBVIOUS
  <2>4. LastMayBeEndless(<<>>)
    BY <2>2, <2>3, Zenon DEF LastMayBeEndless, Plain
  <2> QED
    BY <2>1, <2>4
<1>2. CASE ~(i > i_end)
  <2>1. i \in order_ - 1 .. i_end /\ i \in Int
    BY <1>2, EndOfScan
  <2>2. PICK above \in i + 1 .. NumPoints : above = FreeAbove(occ, i)
    BY <2>1, FreeAboveIs
  <2>3. PICK below \in 0 .. i - 1 : below = FreeBelow(occ, i)
    BY <2>1, FreeBelowIs
  <2>4. above + 2 \in i + 1 .. NumPoints + 2 /\ i + 1 \in i + 1 .. NumPoints + 2
    BY <2>1, <2>2, EndOfScan
  <2>5. CASE i \notin occ \ outside
    <3>1. From(occ, outside, later, i) = later[i + 1]
      BY <1>2, <2>5, Zenon DEF From
    <3> QED
      BY <1>2, <2>4, <3>1
  <2>6. CASE ~(i \notin occ \ outside)
    <3> DEFINE rest == later[above + 2]
               one == <<<<below, above>>>>
               both == one \o rest
    <3>1. From(occ, outside, later, i) = both
      BY <1>2, <2>2, <2>3, <2>6, Zenon DEF From
    <3>2. LastMayBeEndless(rest) /\ (above = NumPoints => rest = <<>>)
      <4>1. above = NumPoints => above + 2 > i_end
        BY EndOfScan
      <4> QED
        BY <2>4, <4>1
    <3>3. rest \in Seq(Int \X Int) /\ Len(rest) \in Nat
      BY <3>2, LenProperties DEF LastMayBeEndless
    <3> HIDE DEF rest
    <3>4. one \in Seq(Int \X Int) /\ Len(one) = 1 /\ one[1] = <<below, above>>
      <4>1. <<below, above>> \in Int \X Int
        BY <2>1, <2>2, <2>3, EndOfScan
      <4> QED
        BY <4>1
    <3> HIDE DEF one
    <3>5. /\ both \in Seq(Int \X Int) /\ Len(both) = 1 + Len(rest)
          /\ \A k \in 1 .. 1 + Len(rest) : both[k] = IF k <= 1 THEN one[k] ELSE rest[k - 1]
      <4>1. /\ both \in Seq(Int \X Int) /\ Len(both) = Len(one) + Len(rest)
            /\ \A k \in 1 .. Len(one) + Len(rest) : both[k] = IF k <= Len(one) THEN one[k] ELSE rest[k - Len(one)]
        BY <3>3, <3>4, ConcatProperties
      <4>2. Len(one) = 1
        BY <3>4
      <4> HIDE DEF both
      <4> QED
        BY <4>1, <4>2, Zenon
    <3> HIDE DEF both
    <3>6. both[1] = <<below, above>>
      BY <3>3, <3>4, <3>5
    <3>7. \A k \in 1 .. 1 + Len(rest) : k # 1 => k - 1 \in 1 .. Len(rest) /\ both[k] = rest[k - 1]
      BY <3>3, <3>5
    <3>8. Plain(both, NumPoints)
      <4> SUFFICES ASSUME NEW k \in 1 .. 1 + Len(rest)
                   PROVE  0 <= both[k][1] /\ 0 <= both[k][2] /\ both[k][2] <= NumPoints
        BY <3>5 DEF Plain
      <4>1. CASE k = 1
        BY <2>1, <2>2, <2>3, <3>6, <4>1, EndOfScan
      <4>2. CASE k # 1
        BY <3>2, <3>7, <4>2 DEF LastMayBeEndless, Plain
      <4> QED
        BY <4>1, <4>2
    <3>9. ASSUME NEW k \in 1 .. 1 + Len(rest), k < 1 + Len(rest) PROVE both[k][2] <= NumPoints - 1
      <4>1. CASE k = 1
        <5>1. rest # <<>>
          BY <3>3, <3>9, <4>1, EmptySeq
        <5>2. above # NumPoints
          BY <3>2, <5>1
        <5> QED
          BY <2>1, <2>2, <3>6, <4>1, <5>2, EndOfScan
      <4>2. CASE k # 1
        <5>1. k - 1 < Len(rest)
          BY <3>3, <3>9
        <5> QED
          BY <3>2, <3>7, <4>2, <5>1 DEF LastMayBeEndless
      <4> QED
        BY <4>1, <4>2
    <3>10. LastMayBeEndless(both)
      BY <3>5, <3>8, <3>9 DEF LastMayBeEndless
    <3> QED
      BY <1>2, <3>1, <3>10
  <2> QED
    BY <2>5, <2>6
<1> QED
  BY <1>1, <1>2

LEMMA NewSegmentsTyped ==
  ASSUME NEW occ \in SUBSET Points, NEW outside
  PROVE  LastMayBeEndless(NewSegments(occ, outside))
<1> DEFINE N == NumPoints + 2
           Right(from, n) == LastMayBeEndless(from[n]) /\ (n > i_end => from[n] = <<>>)
<1>1. PICK from : /\ from = [i \in order_ - 1 .. N |-> From(occ, outside, from, i)]
                  /\ NewSegments(occ, outside) = from[order_ - 1]
  BY NewSegmentsIs
<1>2. N \in Nat /\ order_ - 1 \in Nat /\ order_ - 1 <= N
  BY EndOfScan
<1> DEFINE T == {d \in 0 .. N - (order_ - 1) : ~Right(from, N - d)}
<1>3. T = {}
  <2> SUFFICES ASSUME T # {} PROVE FALSE
    OBVIOUS
  <2>1. T \subseteq Nat
    BY <1>2
  <2>2. PICK d \in T : \A m \in T : d <= m
    BY <2>1, LeastElement
  <2>3. PICK i \in Int : i = N - d
    BY <1>2, <2>2
  <2>4. i \in order_ - 1 .. N /\ d \in 0 .. N - (order_ - 1)
    BY <1>2, <2>2, <2>3
  <2>5. ~Right(from, i)
    BY <2>2, <2>3
  <2>6. ASSUME NEW n \in i + 1 .. N PROVE Right(from, n)
    <3>1. N - n \in 0 .. N - (order_ - 1) /\ ~(d <= N - n) /\ N - (N - n) = n
      BY <1>2, <2>3, <2>4
    <3>2. N - n \notin T
      BY <2>2, <3>1
    <3>3. Right(from, N - (N - n))
      BY <3>1, <3>2
    <3> QED
      BY <3>1, <3>3
  <2> HIDE DEF T
  <2>7. from[i] = From(occ, outside, from, i)
    BY <1>1, <2>4, Zenon
  <2>8. \A n \in i + 1 .. N : LastMayBeEndless(from[n]) /\ (n > i_end => from[n] = <<>>)
    BY <2>6
  <2>9. Right(from, i)
    BY <2>4, <2>7, <2>8, FromTyped
  <2> QED
    BY <2>5, <2>9
<1>4. Right(from, order_ - 1)
  <2>1. N - (order_ - 1) \in 0 .. N - (order_ - 1) /\ N - (N - (order_ - 1)) = order_ - 1
    BY <1>2
  <2>2. Right(from, N - (N - (order_ - 1)))
    BY <1>3, <2>1
  <2> QED
    BY <2>1, <2>2
<1> QED
  BY <1>1, <1>4

(* Those that have an end, or some of them, are within the path.           *)
LEMMA FoundTyped ==
  ASSUME NEW segs, LastMayBeEndless(segs), segs # <<>>, ~Endless(segs), NEW found \in Found(segs)
  PROVE  found \in Seq(Int \X Int) /\ Plain(found, NumPoints - 1)
<1>1. segs \in Seq(Int \X Int) /\ Len(segs) \in Nat /\ DOMAIN segs = 1 .. Len(segs)
  BY LenProperties DEF LastMayBeEndless
<1>2. \A k \in 1 .. Len(segs) : /\ segs[k] \in Int \X Int
                                /\ 0 <= segs[k][1] /\ 0 <= segs[k][2] /\ segs[k][2] <= NumPoints - 1
  <2> TAKE k \in 1 .. Len(segs)
  <2>1. segs[k] \in Int \X Int /\ segs[k][2] \in Int
    BY <1>1, SegmentFields
  <2>2. segs[k][2] <= NumPoints - 1
    <3>1. CASE k = Len(segs)
      <4>1. segs[k][2] # NumPoints /\ segs[k][2] <= NumPoints
        BY <3>1 DEF Endless, LastMayBeEndless, Plain
      <4> QED
        BY <2>1, <4>1, EndOfScan
    <3>2. CASE k # Len(segs)
      <4>0. Len(segs) \in Nat
        BY <1>1
      <4>1. k < Len(segs)
        BY <3>2, <4>0
      <4> QED
        BY <4>1 DEF LastMayBeEndless
    <3> QED
      BY <3>1, <3>2
  <2> QED
    BY <2>1, <2>2 DEF LastMayBeEndless, Plain
<1>3. PICK n \in 0 .. Len(segs) :
        \E rank \in [1 .. n -> DOMAIN segs] : found = [k \in 1 .. n |-> segs[rank[k]]]
  BY Zenon DEF Found
<1>4. PICK rank \in [1 .. n -> DOMAIN segs] : found = [k \in 1 .. n |-> segs[rank[k]]]
  BY <1>3
<1>5. n \in Nat /\ \A k \in 1 .. n : rank[k] \in 1 .. Len(segs)
  BY <1>1, <1>4
<1>6. \A k \in 1 .. n : found[k] = segs[rank[k]]
  BY <1>4
<1>7. found \in [1 .. n -> Int \X Int]
  <2>1. \A k \in 1 .. n : segs[rank[k]] \in Int \X Int
    BY <1>2, <1>5
  <2> QED
    BY <1>4, <2>1
<1>8. found \in Seq(Int \X Int) /\ Len(found) = n
  BY <1>5, <1>7, IsASeq, LenProperties
<1>9. Plain(found, NumPoints - 1)
  BY <1>2, <1>5, <1>6, <1>8 DEF Plain
<1> QED
  BY <1>8, <1>9

LEMMA GivenInside ==
  ASSUME NEW seg \in Int \X Int, 0 <= seg[1], seg[2] <= NumPoints - 1
  PROVE  Given(seg, seg) \subseteq SUBSET Points
<1>1. Whole(seg) \subseteq Points /\ Interior(seg) \subseteq Points
  BY EndOfScan DEF Whole, Interior, Points
<1>2. {} \in SUBSET Points
  OBVIOUS
<1> QED
  BY <1>1, <1>2, Zenon DEF Given

LEMMA SharesInside ==
  ASSUME NEW segs \in Seq(Int \X Int), Plain(segs, NumPoints - 1)
  PROVE  Shares(segs) \subseteq SUBSET Points
<1> DEFINE adj == Adjusted(segs)
           N == Len(adj)
           S == SUBSET SUBSET Points
           step == [p \in S \X (1 .. N) |-> Choices(p[1], adj[p[2]])]
           share == CHOOSE f : f = [k \in 0 .. N |-> IF k = 0 THEN {{}} ELSE Choices(f[k - 1], adj[k])]
<1>1. Shares(segs) = share[N]
  BY Zenon DEF Shares
<1>2. /\ N = Len(segs) /\ adj \in Seq(Int \X Int)
      /\ \A k \in 1 .. N : 0 <= adj[k][1] /\ adj[k][2] <= NumPoints - 1
  <2>1. NumPoints - 1 \in Int
    BY EndOfScan
  <2> QED
    BY <2>1, AdjustedInside DEF Plain
<1>3. N \in Nat /\ \A k \in 1 .. N : adj[k] \in Int \X Int
  BY <1>2, SegmentFields
<1> HIDE DEF adj, N
<1>4. \A k \in 1 .. N : Given(adj[k], adj[k]) \subseteq SUBSET Points
  BY <1>2, <1>3, GivenInside
<1>5. \A before \in S, k \in 1 .. N : Choices(before, adj[k]) \in S
  <2> TAKE before \in S, k \in 1 .. N
  <2>1. \A b \in before, given \in Given(adj[k], adj[k]) : b \cup given \in SUBSET Points
    BY <1>4
  <2> QED
    BY <2>1 DEF Choices
<1>6. {{}} \in S
  OBVIOUS
<1> HIDE DEF S
<1>7. step \in [S \X (1 .. N) -> S]
  <2>1. \A p \in S \X (1 .. N) : p[1] \in S /\ p[2] \in 1 .. N
    OBVIOUS
  <2> QED
    BY <1>5, <2>1
<1>8. \A before \in S, k \in 1 .. N : step[<<before, k>>] = Choices(before, adj[k])
  OBVIOUS
<1> HIDE DEF step
<1>9. PICK f : Runs(f, N, S, {{}}, step)
  BY <1>3, <1>6, <1>7, StepByStep
<1>10. \A k \in 0 .. N : f[k] = IF k = 0 THEN {{}} ELSE Choices(f[k - 1], adj[k])
  <2> TAKE k \in 0 .. N
  <2>1. CASE k = 0
    BY <1>9, <2>1 DEF Runs
  <2>2. CASE k # 0
    <3>1. k \in 1 .. N /\ k - 1 \in 0 .. N
      BY <1>3, <2>2
    <3>2. f[k - 1] \in S
      BY <1>9, <3>1 DEF Runs
    <3>3. f[k] = step[<<f[k - 1], k>>]
      BY <1>9, <3>1, Zenon DEF Runs
    <3> QED
      BY <1>8, <2>2, <3>1, <3>2, <3>3
  <2> QED
    BY <2>1, <2>2
<1>11. f = [k \in 0 .. N |-> IF k = 0 THEN {{}} ELSE Choices(f[k - 1], adj[k])]
  BY <1>9, <1>10 DEF Runs
<1>12. share = [k \in 0 .. N |-> IF k = 0 THEN {{}} ELSE Choices(share[k - 1], adj[k])]
  BY <1>11, Zenon
<1> HIDE DEF share
<1>13. \A k \in 0 .. N : share[k] \in S
  <2> DEFINE T == {k \in 0 .. N : share[k] \notin S}
  <2>1. ASSUME T # {} PROVE FALSE
    <3>1. T \subseteq Nat
      OBVIOUS
    <3>2. PICK k \in T : \A m \in T : k <= m
      BY <2>1, <3>1, LeastElement
    <3>3. share[k] = IF k = 0 THEN {{}} ELSE Choices(share[k - 1], adj[k])
      BY <1>12, <3>2, Zenon
    <3>4. k # 0
      BY <1>6, <3>2, <3>3
    <3>5. k \in 1 .. N /\ k - 1 \in 0 .. N /\ ~(k <= k - 1)
      BY <1>3, <3>2, <3>4
    <3>6. share[k - 1] \in S
      BY <3>2, <3>5
    <3>7. share[k] \in S
      BY <1>5, <3>3, <3>4, <3>5, <3>6
    <3> QED
      BY <3>2, <3>7
  <2> QED
    BY <2>1
<1>14. share[N] \in S
  <2>1. N \in 0 .. N
    BY <1>3
  <2> QED
    BY <1>13, <2>1
<1> QED
  BY <1>1, <1>14 DEF S

(* Whatever it finds, the points it gives a base point are on the path.    *)
LEMMA CheckTypes ==
  ASSUME NEW occ \in Occupancies, CheckCollisionAndRebound(occ), based \subseteq Points
  PROVE  /\ based' \subseteq Points /\ based \subseteq based'
         /\ force_stop_type_' \in {"DONT_STOP", "STOP_FOR_REBOUND", "STOP_FOR_ERROR"}
<1>1. PICK outside \in SUBSET (based \cap occ) :
        LET segs == NewSegments(occ, outside)
        IN IF segs = <<>> THEN force_stop_type_' = "DONT_STOP" /\ UNCHANGED based
           ELSE IF Endless(segs) THEN force_stop_type_' = "STOP_FOR_ERROR" /\ UNCHANGED based
           ELSE /\ force_stop_type_' = "STOP_FOR_REBOUND"
                /\ \E found \in Found(segs) : \E given \in Shares(found) : based' = based \cup given
  BY Zenon DEF CheckCollisionAndRebound
<1> DEFINE segs == NewSegments(occ, outside)
<1>2. LastMayBeEndless(segs)
  <2>1. occ \in SUBSET Points
    BY InputAssumption
  <2> QED
    BY <2>1, NewSegmentsTyped
<1> HIDE DEF segs
<1>3. CASE segs = <<>>
  BY <1>1, <1>3 DEF segs
<1>4. CASE segs # <<>> /\ Endless(segs)
  BY <1>1, <1>4 DEF segs
<1>5. CASE segs # <<>> /\ ~Endless(segs)
  <2>1. force_stop_type_' = "STOP_FOR_REBOUND"
    BY <1>1, <1>5 DEF segs
  <2>2. PICK found \in Found(segs) : \E given \in Shares(found) : based' = based \cup given
    BY <1>1, <1>5 DEF segs
  <2>3. PICK given \in Shares(found) : based' = based \cup given
    BY <2>2
  <2>4. found \in Seq(Int \X Int) /\ Plain(found, NumPoints - 1)
    BY <1>2, <1>5, FoundTyped
  <2>5. given \subseteq Points
    BY <2>3, <2>4, SharesInside
  <2> QED
    BY <2>1, <2>3, <2>5
<1> QED
  BY <1>3, <1>4, <1>5

-----------------------------------------------------------------------------
(* The inductive invariant, part by part.                                  *)

Phases ==
  /\ pc \in {"idle", "scan", "assign", "vary", "table", "prepare", "evaluate", "trial",
             "verdict", "loop", "next", "refine"}
  /\ use_distinctive_trajs \in Distinctive /\ flag_first_init \in BOOLEAN

(* The segments are there while they are used; those done and those still  *)
(* to do share no control point.                                           *)
SegmentsAt ==
  /\ segment_ids \in Segs /\ adjusted_segment_ids \in Segs /\ final_segment_ids \in Segs
  /\ Len(segment_ids) = Len(adjusted_segment_ids)
  /\ pc # "assign" => segment_ids = <<>> /\ adjusted_segment_ids = <<>>
  /\ final_segment_ids # <<>> => flag_first_init /\ pc \in {"assign", "vary"}
  /\ Apart(final_segment_ids) /\ Apart(adjusted_segment_ids)
  /\ \A j \in DOMAIN final_segment_ids, k \in DOMAIN adjusted_segment_ids :
       final_segment_ids[j][2] < adjusted_segment_ids[k][1]

(* A segment that is kept has all its base points.                         *)
BasesAt ==
  /\ based \subseteq Points /\ drawn \subseteq Points /\ twice \subseteq based
  /\ twice # {} => flag_first_init /\ pc \in {"assign", "vary"}
  /\ \A k \in DOMAIN final_segment_ids : Whole(final_segment_ids[k]) \subseteq based

(* The last restart allowed is followed by no optimisation: the check of   *)
(* the curve comes after a run that was not stopped.                       *)
CountsAt ==
  /\ restart_nums \in 0 .. MAX_RESART_NUMS_SET /\ rebound_times \in 0 .. MAX_REBOUNDS + 1
  /\ restart_nums = MAX_RESART_NUMS_SET =>
       ~flag_force_return /\ pc \notin {"prepare", "evaluate", "trial", "verdict"}
  /\ pc \in {"evaluate", "trial", "verdict"} => ~flag_force_return
  /\ iter_num_ \in 0 .. MaxEvaluations /\ (pc = "evaluate" => iter_num_ < MaxEvaluations)

SolverAt ==
  /\ min_ellip_dist_ \in {"init", "close", "apart"}
  /\ force_stop_type_ \in {"DONT_STOP", "STOP_FOR_REBOUND", "STOP_FOR_ERROR"}
  /\ result \in {"none", "converged", "canceled", "error"}
  /\ flag_occ \in BOOLEAN /\ flag_force_return \in BOOLEAN /\ success \in BOOLEAN
  /\ min_cost \in Costs \cup {0} /\ planned \in BOOLEAN

(* The rows of the table are the numbers from 0, written with the lowest   *)
(* digit first; the last one written is the selection.                     *)
Value(sel) ==
  sel[1] + (IF Len(sel) >= 2 THEN 2 * sel[2] ELSE 0) + (IF Len(sel) >= 3 THEN 4 * sel[3] ELSE 0)

Counting(sel, rows) ==
  /\ sel \in Seq({-1, 0, 1}) /\ Len(sel) \in 1 .. MAX_SEGMENTS
  /\ Len(rows) <= <<2, 4, 8>>[Len(sel)]
  /\ Value(sel) = Len(rows) - 1
  /\ \A d \in 1 .. Len(sel) : sel[d] = -1 => d = 1 /\ Len(rows) = 0
  /\ \A k \in 1 .. Len(rows) : rows[k] \in [1 .. Len(sel) -> {0, 1}] /\ Value(rows[k]) = k - 1

TableAt ==
  /\ selection \in Seq({-1, 0, 1}) /\ trajs \in Seq(Seq({0, 1}))
  /\ \A j, k \in DOMAIN trajs : trajs[j] = trajs[k] => j = k
  /\ pc = "table" => Counting(selection, trajs)

IInv == ScanAt /\ Phases /\ SegmentsAt /\ BasesAt /\ CountsAt /\ SolverAt /\ TableAt

-----------------------------------------------------------------------------
(* The segments, from step to step.                                        *)

LEMMA NoSegments ==
  /\ <<>> \in Segs /\ Len(<<>>) = 0 /\ Apart(<<>>) /\ DOMAIN <<>> = {}
<1>1. <<>> \in Segs /\ Len(<<>>) = 0
  BY EmptySeq DEF Segs
<1>2. DOMAIN <<>> = {}
  BY EmptySeq, LenProperties
<1>3. Apart(<<>>)
  BY <1>2, Zenon DEF Apart
<1> QED
  BY <1>1, <1>2, <1>3

LEMMA AllEmpty ==
  segment_ids = <<>> /\ adjusted_segment_ids = <<>> /\ final_segment_ids = <<>> => SegmentsAt
<1> SUFFICES ASSUME segment_ids = <<>>, adjusted_segment_ids = <<>>, final_segment_ids = <<>>
             PROVE  SegmentsAt
  OBVIOUS
<1>1. \A j \in DOMAIN final_segment_ids, k \in DOMAIN adjusted_segment_ids : FALSE
  BY NoSegments, Zenon
<1> QED
  BY <1>1, NoSegments, Zenon DEF SegmentsAt

LEMMA Elsewhere ==
  ASSUME SegmentsAt, BasesAt, pc \notin {"assign", "vary"}
  PROVE  /\ segment_ids = <<>> /\ adjusted_segment_ids = <<>> /\ final_segment_ids = <<>>
         /\ twice = {}
  BY Zenon DEF SegmentsAt, BasesAt

LEMMA EmptyStays ==
  ASSUME segment_ids' = <<>>, adjusted_segment_ids' = <<>>, final_segment_ids' = <<>>
  PROVE  SegmentsAt'
<1>1. (segment_ids = <<>> /\ adjusted_segment_ids = <<>> /\ final_segment_ids = <<>> => SegmentsAt)'
  BY AllEmpty, PTL
<1> QED
  BY <1>1

LEMMA SegmentsKept ==
  ASSUME SegmentsAt, BasesAt, pc \notin {"assign", "vary"}, UNCHANGED segments
  PROVE  SegmentsAt'
<1>1. segment_ids' = <<>> /\ adjusted_segment_ids' = <<>> /\ final_segment_ids' = <<>>
  BY Elsewhere DEF segments
<1> QED
  BY <1>1, EmptyStays

(* A segment that is done leaves the others as they are.                   *)
LEMMA TailApart ==
  ASSUME NEW segs \in Segs, segs # <<>>
  PROVE  /\ Tail(segs) \in Segs /\ Len(Tail(segs)) = Len(segs) - 1
         /\ Head(segs) = segs[1] /\ 1 \in DOMAIN segs
         /\ \A k \in DOMAIN Tail(segs) : k + 1 \in DOMAIN segs /\ 1 < k + 1 /\ Tail(segs)[k] = segs[k + 1]
         /\ Apart(segs) => Apart(Tail(segs))
<1>1. segs \in Seq(Points \X Points)
  BY DEF Segs
<1>2. /\ Tail(segs) \in Seq(Points \X Points) /\ Len(Tail(segs)) = Len(segs) - 1
      /\ \A i \in 1 .. Len(segs) - 1 : Tail(segs)[i] = segs[i + 1]
      /\ Head(segs) = segs[1]
  BY <1>1, HeadTailProperties
<1>3. DOMAIN segs = 1 .. Len(segs) /\ Len(segs) \in Nat /\ Len(segs) # 0
      /\ DOMAIN Tail(segs) = 1 .. Len(segs) - 1
  <2>1. DOMAIN segs = 1 .. Len(segs) /\ Len(segs) \in Nat
    BY <1>1, LenProperties
  <2>2. DOMAIN Tail(segs) = 1 .. Len(Tail(segs))
    BY <1>2, LenProperties
  <2>3. Len(segs) # 0
    BY <1>1, EmptySeq
  <2> QED
    BY <1>2, <2>1, <2>2, <2>3
<1> DEFINE t == Tail(segs)
           n == Len(segs)
<1> HIDE DEF t, n
<1>4. n \in Nat /\ n # 0 /\ DOMAIN t = 1 .. n - 1 /\ DOMAIN segs = 1 .. n /\ \A k \in 1 .. n - 1 : t[k] = segs[k + 1]
  BY <1>2, <1>3 DEF t, n
<1>5. \A k \in 1 .. n - 1 : k + 1 \in 1 .. n /\ 1 < k + 1
  BY <1>4
<1>6. ASSUME Apart(segs) PROVE Apart(t)
  <2> SUFFICES ASSUME NEW j \in 1 .. n - 1, NEW k \in 1 .. n - 1, j < k PROVE t[j][2] < t[k][1]
    BY <1>4 DEF Apart
  <2>1. j + 1 < k + 1 /\ j + 1 \in 1 .. n /\ k + 1 \in 1 .. n
    BY <1>4
  <2>2. segs[j + 1][2] < segs[k + 1][1]
    BY <1>4, <1>6, <2>1 DEF Apart
  <2> QED
    BY <1>4, <2>2
<1>7. 1 \in DOMAIN segs
  BY <1>4
<1>8. Tail(segs) \in Segs
  BY <1>2 DEF Segs
<1>9. \A k \in DOMAIN t : k + 1 \in DOMAIN segs /\ 1 < k + 1 /\ t[k] = segs[k + 1]
  BY <1>4, <1>5
<1> QED
  BY <1>2, <1>6, <1>7, <1>8, <1>9 DEF t

LEMMA AppendApart ==
  ASSUME NEW segs \in Segs, Apart(segs), NEW seg \in Points \X Points,
         \A j \in DOMAIN segs : segs[j][2] < seg[1]
  PROVE  /\ Append(segs, seg) \in Segs /\ Apart(Append(segs, seg))
         /\ DOMAIN segs = 1 .. Len(segs) /\ Len(segs) \in Nat
         /\ DOMAIN Append(segs, seg) = 1 .. Len(segs) + 1
         /\ \A j \in 1 .. Len(segs) : Append(segs, seg)[j] = segs[j]
         /\ Append(segs, seg)[Len(segs) + 1] = seg
<1> DEFINE t == Append(segs, seg)
           n == Len(segs)
<1>1. segs \in Seq(Points \X Points)
  BY DEF Segs
<1>2. t \in Seq(Points \X Points) /\ Len(t) = n + 1 /\ t[n + 1] = seg /\ \A k \in 1 .. n : t[k] = segs[k]
  BY <1>1, AppendProperties
<1>3. DOMAIN segs = 1 .. n /\ n \in Nat /\ DOMAIN t = 1 .. n + 1
  BY <1>1, <1>2, LenProperties
<1> HIDE DEF t, n
<1>4. Apart(t)
  <2> SUFFICES ASSUME NEW j \in 1 .. n + 1, NEW k \in 1 .. n + 1, j < k PROVE t[j][2] < t[k][1]
    BY <1>3 DEF Apart
  <2>1. j \in 1 .. n
    BY <1>3
  <2>2. CASE k \in 1 .. n
    BY <1>2, <1>3, <2>1, <2>2 DEF Apart
  <2>3. CASE k = n + 1
    BY <1>2, <1>3, <2>1, <2>3
  <2> QED
    BY <1>3, <2>2, <2>3
<1> QED
  BY <1>2, <1>3, <1>4 DEF t, n, Segs

(* What the scan found becomes the segments and, apart, the adjusted ones. *)
LEMMA ScannedSegments ==
  ASSUME ScanAt
  PROVE  /\ scan.segs \in Segs /\ Adjusted(scan.segs) \in Segs /\ Apart(Adjusted(scan.segs))
         /\ Len(Adjusted(scan.segs)) = Len(scan.segs)
<1> DEFINE segs == scan.segs
<1>1. segs \in Seq(Int \X Int) /\ InOrder(segs) /\ scan.i \in Int
  BY DEF ScanAt, ScanOK, ScanRecord
<1>2. scan.i - 1 <= i_end /\ i_end < NumPoints /\ i_end \in Nat /\ NumPoints \in Nat /\ order_ - 1 = 2
  BY <1>1, EndOfScan DEF ScanAt
<1>3. DOMAIN segs = 1 .. Len(segs) /\ Len(segs) \in Nat
       /\ \A k \in 1 .. Len(segs) : segs[k] \in Int \X Int /\ segs[k][1] \in Int /\ segs[k][2] \in Int
  BY <1>1, SegmentFields
<1>4. \A k \in 1 .. Len(segs) : 2 <= segs[k][1] /\ segs[k][1] < segs[k][2] /\ segs[k][2] <= scan.i - 1
  <2>1. WithinScan(segs, scan.i - 1)
    BY DEF ScanAt
  <2> QED
    BY <1>2, <1>3, <2>1 DEF WithinScan
<1>5. \A k \in 1 .. Len(segs) : 0 <= segs[k][1] /\ segs[k][1] < segs[k][2]
                                /\ segs[k][1] \in Points /\ segs[k][2] \in Points
  <2> TAKE k \in 1 .. Len(segs)
  <2>1. PICK a \in Int, b \in Int, i \in Int : a = segs[k][1] /\ b = segs[k][2] /\ i = scan.i
    BY <1>1, <1>3
  <2>2. 2 <= a /\ a < b /\ b <= i - 1 /\ i - 1 <= i_end
    BY <1>2, <1>4, <2>1
  <2>3. a \in Points /\ b \in Points /\ 0 <= a
    BY <1>2, <2>2 DEF Points
  <2> QED
    BY <2>1, <2>2, <2>3
<1> HIDE DEF segs
<1>6. Adjusted(segs) \in Seq(Points \X Points) /\ Len(Adjusted(segs)) = Len(segs)
  BY <1>1, <1>5, AdjustedTyped
<1>7. Apart(Adjusted(segs))
  BY <1>1, <1>5, AdjustedApart
<1>8. segs \in Seq(Points \X Points)
  <2>1. \A k \in 1 .. Len(segs) : segs[k] \in Points \X Points
    <3> TAKE k \in 1 .. Len(segs)
    <3>1. segs[k] \in Int \X Int /\ segs[k][1] \in Points /\ segs[k][2] \in Points
      BY <1>3, <1>5
    <3> QED
      BY <3>1
  <2>2. segs = [k \in 1 .. Len(segs) |-> segs[k]]
    BY <1>1
  <2>3. segs \in [1 .. Len(segs) -> Points \X Points]
    BY <2>1, <2>2
  <2> QED
    BY <1>3, <2>3, IsASeq
<1> QED
  BY <1>6, <1>7, <1>8 DEF Segs, segs

LEMMA FindPathsSegments ==
  ASSUME ScanAt, SegmentsAt, BasesAt, FindPaths
  PROVE  SegmentsAt' /\ BasesAt'
<1>1. pc = "scan" /\ UNCHANGED <<final_segment_ids, bases, choice>>
  BY DEF FindPaths
<1>2. segment_ids = <<>> /\ adjusted_segment_ids = <<>> /\ final_segment_ids = <<>> /\ twice = {}
  BY <1>1, Elsewhere, Zenon
<1>3. final_segment_ids' = <<>> /\ twice' = {} /\ based' = based /\ drawn' = drawn
  BY <1>1, <1>2 DEF bases, choice
<1>4. BasesAt'
  <2>1. \A k \in DOMAIN final_segment_ids' : FALSE
    BY <1>3, NoSegments, Zenon
  <2> QED
    BY <1>3, <2>1, Zenon DEF BasesAt
<1>5. CASE /\ scan.segs # <<>> /\ pc' = "assign"
           /\ segment_ids' = scan.segs /\ adjusted_segment_ids' = Adjusted(scan.segs)
  <2>1. \A j \in DOMAIN final_segment_ids' : FALSE
    BY <1>3, NoSegments, Zenon
  <2>2. Apart(final_segment_ids') /\ final_segment_ids' \in Segs
    BY <1>3, NoSegments
  <2>3. /\ segment_ids' \in Segs /\ adjusted_segment_ids' \in Segs /\ Apart(adjusted_segment_ids')
        /\ Len(segment_ids') = Len(adjusted_segment_ids')
    BY <1>5, ScannedSegments
  <2>4. SegmentsAt'
    BY <1>3, <1>5, <2>1, <2>2, <2>3, Zenon DEF SegmentsAt
  <2> QED
    BY <1>4, <2>4
<1>6. CASE pc' = AfterInit /\ UNCHANGED <<segment_ids, adjusted_segment_ids>>
  <2>1. SegmentsAt'
    BY <1>2, <1>3, <1>6, EmptyStays
  <2> QED
    BY <1>4, <2>1
<1> QED
  BY <1>5, <1>6 DEF FindPaths

(* Base points are given to points of the path, and to all of a segment    *)
(* that is kept.                                                           *)
LEMMA GivenWhole ==
  ASSUME NEW seg \in Points \X Points, NEW adjusted \in Points \X Points,
         NEW given \in Given(seg, adjusted) \cup GivenShort(seg, adjusted)
  PROVE  given \subseteq Points /\ (Complete(seg, given) => Whole(adjusted) \subseteq given)
<1>1. PICK a \in Int, b \in Int : a = seg[1] /\ b = seg[2]
  BY EndOfScan DEF Points
<1>2. Whole(adjusted) \subseteq Points
  BY EndOfScan DEF Whole, Points
<1>3. Interior(seg) \subseteq Points
  BY EndOfScan DEF Interior, Points
<1>4. CASE given \in Given(seg, adjusted)
  <2>1. CASE Interior(seg) = {}
    <3>1. given = {}
      BY <1>4, <2>1, Zenon DEF Given
    <3>2. ~Complete(seg, given)
      BY <3>1, Zenon DEF Complete
    <3> QED
      BY <3>1, <3>2
  <2>2. CASE Interior(seg) # {}
    <3>1. given = Whole(adjusted) \/ given \subseteq Interior(seg) \ {seg[2] - 1}
      BY <1>4, <2>2 DEF Given
    <3>2. seg[2] - seg[1] # 1
      <4>1. PICK i : i \in Interior(seg)
        BY <2>2
      <4>2. i \in a + 1 .. b - 1
        BY <1>1, <4>1 DEF Interior
      <4>3. b - a # 1
        BY <4>2
      <4> QED
        BY <1>1, <4>3
    <3>3. CASE given = Whole(adjusted)
      BY <1>2, <3>3
    <3>4. CASE given \subseteq Interior(seg) \ {seg[2] - 1}
      <4>1. seg[2] - 1 \notin given
        BY <3>4
      <4>2. ~Complete(seg, given)
        BY <3>2, <4>1, Zenon DEF Complete
      <4> QED
        BY <1>3, <3>4, <4>2
    <3> QED
      BY <3>1, <3>3, <3>4
  <2> QED
    BY <2>1, <2>2
<1>5. CASE given \in GivenShort(seg, adjusted)
  <2>1. given = {} \/ given = {seg[1]} \cup Whole(adjusted)
    BY <1>5, Zenon DEF GivenShort
  <2>2. CASE given = {}
    <3>1. ~Complete(seg, given)
      BY <2>2, Zenon DEF Complete
    <3> QED
      BY <2>2, <3>1
  <2>3. CASE given = {seg[1]} \cup Whole(adjusted)
    BY <1>2, <2>3
  <2> QED
    BY <2>1, <2>2, <2>3
<1> QED
  BY <1>4, <1>5

LEMMA AssignSegments ==
  ASSUME SegmentsAt, BasesAt, flag_first_init \in BOOLEAN, Assign
  PROVE  SegmentsAt' /\ BasesAt'
<1> DEFINE seg == Head(segment_ids)
           adjusted == Head(adjusted_segment_ids)
<1>1. /\ pc = "assign" /\ segment_ids # <<>> /\ pc' = pc /\ flag_first_init' = flag_first_init /\ drawn' = drawn
      /\ segment_ids' = Tail(segment_ids) /\ adjusted_segment_ids' = Tail(adjusted_segment_ids)
  BY DEF Assign, mode, choice
<1>2. PICK given \in Given(seg, adjusted) \cup GivenShort(seg, adjusted) :
        /\ twice' = IF flag_first_init THEN twice \cup (given \cap based) ELSE twice
        /\ based' = based \cup given
        /\ final_segment_ids' = IF flag_first_init /\ Complete(seg, given)
                                THEN Append(final_segment_ids, adjusted) ELSE final_segment_ids
  BY Zenon DEF Assign
<1>3. /\ segment_ids \in Segs /\ adjusted_segment_ids \in Segs /\ adjusted_segment_ids # <<>>
      /\ Len(segment_ids) = Len(adjusted_segment_ids) /\ final_segment_ids \in Segs
      /\ Apart(final_segment_ids) /\ Apart(adjusted_segment_ids)
  <2>1. segment_ids \in Segs /\ adjusted_segment_ids \in Segs /\ Len(segment_ids) = Len(adjusted_segment_ids)
    BY DEF SegmentsAt
  <2>2. adjusted_segment_ids # <<>>
    BY <1>1, <2>1, EmptySeq DEF Segs
  <2> QED
    BY <2>1, <2>2 DEF SegmentsAt
<1>4. /\ Tail(segment_ids) \in Segs /\ Len(Tail(segment_ids)) = Len(segment_ids) - 1
      /\ Head(segment_ids) = segment_ids[1] /\ 1 \in DOMAIN segment_ids
  BY <1>1, <1>3, TailApart
<1>5. /\ Tail(adjusted_segment_ids) \in Segs /\ Len(Tail(adjusted_segment_ids)) = Len(adjusted_segment_ids) - 1
      /\ Head(adjusted_segment_ids) = adjusted_segment_ids[1] /\ 1 \in DOMAIN adjusted_segment_ids
      /\ Apart(Tail(adjusted_segment_ids))
      /\ \A k \in DOMAIN Tail(adjusted_segment_ids) :
           /\ k + 1 \in DOMAIN adjusted_segment_ids /\ 1 < k + 1
           /\ Tail(adjusted_segment_ids)[k] = adjusted_segment_ids[k + 1]
  BY <1>3, TailApart
<1>6. seg \in Points \X Points /\ adjusted \in Points \X Points
  BY <1>3, <1>4, <1>5, ElementOfSeq, LenProperties DEF Segs
<1>7. given \subseteq Points /\ (Complete(seg, given) => Whole(adjusted) \subseteq given)
  BY <1>6, GivenWhole
<1>8. based' \subseteq Points /\ drawn' \subseteq Points /\ twice' \subseteq based' /\ based \subseteq based'
  BY <1>1, <1>2, <1>7 DEF BasesAt
<1>9. twice' # {} => flag_first_init' /\ pc' \in {"assign", "vary"}
  <2>1. flag_first_init \/ twice' = twice
    BY <1>2
  <2> QED
    BY <1>1, <2>1, Zenon DEF BasesAt
<1>10. final_segment_ids' # <<>> => flag_first_init' /\ pc' \in {"assign", "vary"}
  <2>1. flag_first_init \/ final_segment_ids' = final_segment_ids
    BY <1>2
  <2> QED
    BY <1>1, <2>1, Zenon DEF SegmentsAt
<1>11. \A j \in DOMAIN final_segment_ids : final_segment_ids[j][2] < adjusted[1]
  BY <1>5 DEF SegmentsAt
<1>12. \A k \in DOMAIN adjusted_segment_ids' : adjusted[2] < adjusted_segment_ids'[k][1]
  <2> TAKE k \in DOMAIN adjusted_segment_ids'
  <2>1. adjusted_segment_ids'[k] = adjusted_segment_ids[k + 1] /\ k + 1 \in DOMAIN adjusted_segment_ids /\ 1 < k + 1
    BY <1>1, <1>5
  <2>2. adjusted_segment_ids[1][2] < adjusted_segment_ids[k + 1][1]
    BY <1>3, <1>5, <2>1 DEF Apart
  <2> QED
    BY <1>5, <2>1, <2>2
<1>13. \A j \in DOMAIN final_segment_ids, k \in DOMAIN adjusted_segment_ids' :
         final_segment_ids[j][2] < adjusted_segment_ids'[k][1]
  <2> TAKE j \in DOMAIN final_segment_ids, k \in DOMAIN adjusted_segment_ids'
  <2>1. adjusted_segment_ids'[k] = adjusted_segment_ids[k + 1] /\ k + 1 \in DOMAIN adjusted_segment_ids
    BY <1>1, <1>5
  <2> QED
    BY <2>1 DEF SegmentsAt
<1>14. /\ segment_ids' \in Segs /\ adjusted_segment_ids' \in Segs /\ Apart(adjusted_segment_ids')
       /\ Len(segment_ids') = Len(adjusted_segment_ids')
  BY <1>1, <1>3, <1>4, <1>5
<1>15. CASE flag_first_init /\ Complete(seg, given)
  <2> DEFINE t == Append(final_segment_ids, adjusted)
             n == Len(final_segment_ids)
  <2>1. /\ t \in Segs /\ Apart(t) /\ DOMAIN final_segment_ids = 1 .. n /\ n \in Nat /\ DOMAIN t = 1 .. n + 1
        /\ (\A j \in 1 .. n : t[j] = final_segment_ids[j]) /\ t[n + 1] = adjusted
    BY <1>3, <1>6, <1>11, AppendApart
  <2>2. final_segment_ids' = t
    BY <1>2, <1>15
  <2> HIDE DEF t, n, adjusted
  <2>3. \A j \in 1 .. n + 1 : j \in 1 .. n \/ j = n + 1
    BY <2>1
  <2>4. ASSUME NEW j \in DOMAIN final_segment_ids', NEW k \in DOMAIN adjusted_segment_ids'
        PROVE  final_segment_ids'[j][2] < adjusted_segment_ids'[k][1]
    <3>1. CASE j \in 1 .. n
      BY <1>13, <2>1, <2>2, <3>1
    <3>2. CASE j = n + 1
      BY <1>12, <2>1, <2>2, <3>2
    <3> QED
      BY <2>1, <2>2, <2>3, <3>1, <3>2
  <2>5. ASSUME NEW k \in DOMAIN final_segment_ids' PROVE Whole(final_segment_ids'[k]) \subseteq based'
    <3>1. CASE k \in 1 .. n
      <4>1. Whole(final_segment_ids[k]) \subseteq based /\ final_segment_ids'[k] = final_segment_ids[k]
        BY <2>1, <2>2, <3>1 DEF BasesAt
      <4> QED
        BY <1>8, <4>1
    <3>2. CASE k = n + 1
      <4>1. Whole(adjusted) \subseteq given /\ final_segment_ids'[k] = adjusted
        BY <1>7, <1>15, <2>1, <2>2, <3>2
      <4> QED
        BY <1>2, <4>1
    <3> QED
      BY <2>1, <2>2, <2>3, <3>1, <3>2
  <2>6. SegmentsAt'
    BY <1>1, <1>10, <1>14, <2>1, <2>2, <2>4, Zenon DEF SegmentsAt
  <2>7. BasesAt'
    BY <1>8, <1>9, <2>5, Zenon DEF BasesAt
  <2> QED
    BY <2>6, <2>7
<1>16. CASE ~(flag_first_init /\ Complete(seg, given))
  <2>1. final_segment_ids' = final_segment_ids
    BY <1>2, <1>16, Zenon
  <2>2. SegmentsAt'
    BY <1>1, <1>3, <1>10, <1>13, <1>14, <2>1, Zenon DEF SegmentsAt
  <2>3. \A k \in DOMAIN final_segment_ids' : Whole(final_segment_ids'[k]) \subseteq based'
    BY <1>8, <2>1 DEF BasesAt
  <2>4. BasesAt'
    BY <1>8, <1>9, <2>3, Zenon DEF BasesAt
  <2> QED
    BY <2>2, <2>4
<1> QED
  BY <1>15, <1>16

LEMMA BasesKept ==
  ASSUME SegmentsAt, BasesAt, pc \notin {"assign", "vary"}, final_segment_ids' = final_segment_ids,
         twice' = twice, based' \subseteq Points, drawn' \subseteq Points
  PROVE  BasesAt'
<1>1. final_segment_ids' = <<>> /\ twice' = {}
  BY Elsewhere, Zenon
<1>2. \A k \in DOMAIN final_segment_ids' : FALSE
  BY <1>1, NoSegments, Zenon
<1> QED
  BY <1>1, <1>2, Zenon DEF BasesAt

LEMMA StartInitSegments ==
  ASSUME SegmentsAt, BasesAt, NEW first \in BOOLEAN, StartInit(first), drawn' = drawn
  PROVE  SegmentsAt' /\ BasesAt'
<1>1. /\ segment_ids' = <<>> /\ adjusted_segment_ids' = <<>> /\ final_segment_ids' = <<>> /\ twice' = {}
      /\ based' = IF first THEN {} ELSE based
  BY Zenon DEF StartInit
<1>2. based' \subseteq Points /\ drawn' \subseteq Points
  BY <1>1 DEF BasesAt
<1>3. \A k \in DOMAIN final_segment_ids' : FALSE
  BY <1>1, NoSegments, Zenon
<1>4. BasesAt'
  BY <1>1, <1>2, <1>3, Zenon DEF BasesAt
<1> QED
  BY <1>1, <1>4, EmptyStays

LEMMA VarySegments ==
  ASSUME SegmentsAt, BasesAt, Vary
  PROVE  SegmentsAt' /\ BasesAt'
<1>1. /\ pc = "vary" /\ final_segment_ids' = <<>> /\ twice' = {} /\ based' = based
      /\ drawn' = IF use_distinctive_trajs THEN based ELSE {}
      /\ segment_ids' = segment_ids /\ adjusted_segment_ids' = adjusted_segment_ids
  BY DEF Vary
<1>2. segment_ids = <<>> /\ adjusted_segment_ids = <<>>
  BY <1>1, Zenon DEF SegmentsAt
<1>3. based' \subseteq Points /\ drawn' \subseteq Points
  BY <1>1 DEF BasesAt
<1>4. \A k \in DOMAIN final_segment_ids' : FALSE
  BY <1>1, NoSegments, Zenon
<1>5. BasesAt'
  BY <1>1, <1>3, <1>4, Zenon DEF BasesAt
<1> QED
  BY <1>1, <1>2, <1>5, EmptyStays

LEMMA AssignedSegments ==
  ASSUME SegmentsAt, BasesAt, Phases, Assigned
  PROVE  SegmentsAt' /\ BasesAt'
<1>1. /\ pc = "assign" /\ segment_ids = <<>> /\ pc' = AfterInit /\ flag_first_init' = flag_first_init
      /\ UNCHANGED <<segments, bases, drawn>>
  BY DEF Assigned, mode, choice
<1>2. adjusted_segment_ids = <<>>
  BY <1>1, EmptySeq DEF SegmentsAt, Segs
<1>3. flag_first_init => pc' \in {"assign", "vary"}
  BY <1>1 DEF AfterInit
<1>4. /\ segment_ids' = segment_ids /\ adjusted_segment_ids' = adjusted_segment_ids
      /\ final_segment_ids' = final_segment_ids /\ based' = based /\ twice' = twice /\ drawn' = drawn
  BY <1>1 DEF segments, bases
<1>5. SegmentsAt'
  BY <1>1, <1>2, <1>3, <1>4, Zenon DEF SegmentsAt
<1>6. BasesAt'
  BY <1>1, <1>3, <1>4, Zenon DEF BasesAt
<1> QED
  BY <1>5, <1>6

LEMMA SegmentsInit == Init => SegmentsAt /\ BasesAt
<1> SUFFICES ASSUME Init PROVE SegmentsAt /\ BasesAt
  OBVIOUS
<1>1. /\ segment_ids = <<>> /\ adjusted_segment_ids = <<>> /\ final_segment_ids = <<>>
      /\ based = {} /\ twice = {} /\ drawn = {}
  BY DEF Init
<1>2. \A k \in DOMAIN final_segment_ids : FALSE
  BY <1>1, NoSegments, Zenon
<1>3. BasesAt
  BY <1>1, <1>2, SMT DEF BasesAt
<1> QED
  BY <1>1, <1>3, AllEmpty

LEMMA SegmentsNext == IInv /\ [Next]_vars => SegmentsAt' /\ BasesAt'
<1> SUFFICES ASSUME IInv, [Next]_vars PROVE SegmentsAt' /\ BasesAt'
  OBVIOUS
<1> USE DEF IInv
<1>1. ASSUME pc \notin {"assign", "vary"}, UNCHANGED segments, UNCHANGED bases, drawn' = drawn
      PROVE  SegmentsAt' /\ BasesAt'
  <2>1. based' \subseteq Points /\ drawn' \subseteq Points /\ twice' = twice
        /\ final_segment_ids' = final_segment_ids
    BY <1>1 DEF bases, segments, BasesAt
  <2> QED
    BY <1>1, <2>1, SegmentsKept, BasesKept
<1>2. CASE Replan
  <2>1. CASE StartInit(TRUE)
    <3>1. drawn' = drawn
      BY <1>2 DEF Replan, choice
    <3> QED
      BY <2>1, <3>1, StartInitSegments
  <2>2. CASE UNCHANGED <<pc, flag_first_init, scan, segments, bases>>
    BY <1>1, <1>2, <2>2 DEF Replan, choice
  <2> QED
    BY <1>2, <2>1, <2>2 DEF Replan
<1>3. CASE Sample
  BY <1>1, <1>3 DEF Sample, choice
<1>4. CASE FindPaths
  BY <1>4, FindPathsSegments
<1>5. CASE Assign
  BY <1>5, AssignSegments DEF Phases
<1>6. CASE Assigned
  BY <1>6, AssignedSegments
<1>7. CASE Vary
  BY <1>7, VarySegments
<1>8. CASE Select
  <2>1. pc = "table" /\ drawn' = drawn /\ UNCHANGED <<segments, bases>>
    BY <1>8 DEF Select
  <2> QED
    BY <1>1, <2>1
<1>9. CASE Prepare \/ TryAgain \/ SolverFails \/ Converges \/ Loop \/ Refine
  BY <1>1, <1>9 DEF Prepare, TryAgain, SolverFails, Converges, Loop, Refine, choice
<1>10. ASSUME NEW smooth \in BOOLEAN, Evaluate(smooth) PROVE SegmentsAt' /\ BasesAt'
  <2>1. pc = "evaluate" /\ twice' = twice /\ drawn' = drawn /\ UNCHANGED segments
    BY <1>10 DEF Evaluate, choice
  <2>2. based \subseteq Points /\ drawn \subseteq Points
    BY DEF BasesAt
  <2>3. based' \subseteq Points
    <3>1. CASE iter_num_ > 3 /\ smooth
      <4>1. PICK occ \in Occupancies : CheckCollisionAndRebound(occ)
        BY <1>10, <3>1 DEF Evaluate
      <4> QED
        BY <2>2, <4>1, CheckTypes
    <3>2. CASE ~(iter_num_ > 3 /\ smooth)
      BY <1>10, <2>2, <3>2 DEF Evaluate
    <3> QED
      BY <3>1, <3>2
  <2>4. final_segment_ids' = final_segment_ids
    BY <2>1 DEF segments
  <2> QED
    BY <2>1, <2>2, <2>3, <2>4, SegmentsKept, BasesKept
<1>11. CASE SwarmVerdict
  <2>1. StartInit(FALSE) /\ drawn' = drawn
    BY <1>11 DEF SwarmVerdict, Restart, choice
  <2> QED
    BY <2>1, StartInitSegments
<1>12. CASE CurveVerdict
  <2>1. pc = "verdict" /\ drawn' = drawn
    BY <1>12 DEF CurveVerdict, choice
  <2>2. CASE Restart
    BY <2>1, <2>2, StartInitSegments DEF Restart
  <2>3. CASE UNCHANGED segments /\ UNCHANGED bases
    BY <1>1, <2>1, <2>3
  <2> QED
    BY <1>12, <2>2, <2>3 DEF CurveVerdict
<1>13. CASE NextTraj
  <2>1. pc = "next" /\ UNCHANGED segments /\ twice' = twice /\ final_segment_ids' = final_segment_ids
    BY <1>13 DEF NextTraj, segments
  <2>2. based' \subseteq Points /\ drawn' \subseteq Points
    <3>1. \/ based' = drawn /\ drawn' = drawn
          \/ based' = {} /\ drawn' = {}
      BY <1>13, Zenon DEF NextTraj
    <3> QED
      BY <3>1 DEF BasesAt
  <2> QED
    BY <2>1, <2>2, SegmentsKept, BasesKept
<1>14. CASE UNCHANGED vars
  <2>1. /\ pc' = pc /\ flag_first_init' = flag_first_init /\ segment_ids' = segment_ids
        /\ adjusted_segment_ids' = adjusted_segment_ids /\ final_segment_ids' = final_segment_ids
        /\ based' = based /\ twice' = twice /\ drawn' = drawn
    BY <1>14 DEF vars, mode, segments, bases, choice
  <2> QED
    BY <2>1, Zenon DEF SegmentsAt, BasesAt
<1> QED
  BY <1>2, <1>3, <1>4, <1>5, <1>6, <1>7, <1>8, <1>9, <1>10, <1>11, <1>12, <1>13, <1>14
     DEF Next, Step

-----------------------------------------------------------------------------
(* The phases, the counts and what the solver leaves.                      *)

LEMMA PhasesNext == IInv /\ [Next]_vars => Phases'
<1> SUFFICES ASSUME IInv, [Next]_vars PROVE Phases'
  OBVIOUS
<1>1. Phases
  BY DEF IInv
<1>2. AfterInit \in {"vary", "loop"}
  BY <1>1, Zenon DEF AfterInit, Phases
<1>3. /\ use_distinctive_trajs' = use_distinctive_trajs
      /\ flag_first_init' \in {flag_first_init, TRUE, FALSE}
      /\ \/ pc' = pc
         \/ pc' \in {"idle", "scan", "assign", "vary", "table", "prepare", "evaluate", "trial",
                     "verdict", "loop", "next", "refine"}
  <2>1. CASE Sample \/ Assign \/ UNCHANGED vars
    BY <2>1, Zenon DEF Sample, Assign, vars, mode
  <2>2. CASE Replan
    BY <2>2, Zenon DEF Replan, StartInit
  <2>3. CASE SwarmVerdict
    BY <2>3, Zenon DEF SwarmVerdict, Restart, StartInit
  <2>4. CASE CurveVerdict
    BY <2>4, Zenon DEF CurveVerdict, Restart, StartInit
  <2>5. CASE FindPaths \/ Assigned
    <3>1. pc' = AfterInit \/ pc' = "assign"
      BY <2>5, Zenon DEF FindPaths, Assigned
    <3>2. pc' \in {"assign", "vary", "loop"}
      BY <1>2, <3>1
    <3> QED
      BY <2>5, <3>2, Zenon DEF FindPaths, Assigned, mode
  <2>6. CASE Vary
    <3>1. pc' \in {"prepare", "next", "table"}
      BY <2>6, Zenon DEF Vary, StartOptimizing
    <3> QED
      BY <2>6, <3>1, Zenon DEF Vary, mode
  <2>7. CASE Select
    <3>1. pc' = pc \/ pc' = "prepare"
      BY <2>7, Zenon DEF Select, StartOptimizing
    <3> QED
      BY <2>7, <3>1, Zenon DEF Select, mode
  <2>8. CASE Prepare \/ SolverFails \/ Converges
    BY <2>8, Zenon DEF Prepare, SolverFails, Converges, mode
  <2>9. ASSUME NEW smooth \in BOOLEAN, Evaluate(smooth)
        PROVE  /\ use_distinctive_trajs' = use_distinctive_trajs
               /\ flag_first_init' = flag_first_init /\ pc' = "trial"
    BY <2>9, Zenon DEF Evaluate, mode
  <2>10. CASE TryAgain
    <3>1. pc' \in {"evaluate", "loop"}
      BY <2>10, Zenon DEF TryAgain
    <3> QED
      BY <2>10, <3>1, Zenon DEF TryAgain, mode
  <2>11. CASE Loop
    <3>1. pc' \in {"prepare", "next"}
      BY <2>11, Zenon DEF Loop
    <3> QED
      BY <2>11, <3>1, Zenon DEF Loop, mode
  <2>12. CASE NextTraj
    <3>1. pc' \in {"prepare", "refine", "idle"}
      BY <2>12, Zenon DEF NextTraj, StartOptimizing
    <3> QED
      BY <2>12, <3>1, Zenon DEF NextTraj
  <2>13. CASE Refine
    BY <2>13, Zenon DEF Refine, mode
  <2> QED
    BY <2>1, <2>2, <2>3, <2>4, <2>5, <2>6, <2>7, <2>8, <2>9, <2>10, <2>11, <2>12, <2>13, Zenon
       DEF Next, Step
<1>4. flag_first_init' \in BOOLEAN
  BY <1>1, <1>3, Zenon DEF Phases
<1> QED
  BY <1>1, <1>3, <1>4, Zenon DEF Phases

LEMMA Limits ==
  /\ MAX_RESART_NUMS_SET \in Nat /\ MAX_RESART_NUMS_SET # 0 /\ MAX_REBOUNDS \in Nat
  /\ MaxEvaluations \in Nat /\ MaxEvaluations # 0
  BY LimitAssumption

(* One restart more, after a run that came to its end.                     *)
LEMMA RestartCounts ==
  ASSUME CountsAt, pc = "verdict", Restart, rebound_times' = rebound_times, flag_force_return' = flag_force_return
  PROVE  CountsAt'
<1>1. restart_nums' = restart_nums + 1 /\ pc' = "scan" /\ iter_num_' = 0
  BY DEF Restart, StartInit
<1>2. restart_nums \in 0 .. MAX_RESART_NUMS_SET /\ restart_nums # MAX_RESART_NUMS_SET /\ ~flag_force_return
  BY DEF CountsAt
<1>3. restart_nums' \in 0 .. MAX_RESART_NUMS_SET /\ iter_num_' \in 0 .. MaxEvaluations
  BY <1>1, <1>2, Limits
<1>4. /\ pc' \notin {"prepare", "evaluate", "trial", "verdict"}
      /\ pc' \notin {"evaluate", "trial", "verdict"} /\ pc' # "evaluate"
  BY <1>1
<1>5. rebound_times' \in 0 .. MAX_REBOUNDS + 1 /\ ~flag_force_return'
  BY <1>2 DEF CountsAt
<1> QED
  BY <1>3, <1>4, <1>5, Zenon DEF CountsAt

LEMMA CountsLeft ==
  ASSUME CountsAt, pc' \notin {"prepare", "evaluate", "trial", "verdict"}, UNCHANGED counts,
         iter_num_' = iter_num_, flag_force_return' = flag_force_return
  PROVE  CountsAt'
<1>1. restart_nums' = restart_nums /\ rebound_times' = rebound_times
  BY DEF counts
<1>2. pc' \notin {"evaluate", "trial", "verdict"} /\ pc' # "evaluate"
  OBVIOUS
<1> QED
  BY <1>1, <1>2, Zenon DEF CountsAt

LEMMA CountsFresh ==
  ASSUME pc' \notin {"evaluate", "trial", "verdict"}, restart_nums' = 0, rebound_times' = 0,
         iter_num_' \in 0 .. MaxEvaluations
  PROVE  CountsAt'
<1>1. /\ 0 \in 0 .. MAX_RESART_NUMS_SET /\ 0 \in 0 .. MAX_REBOUNDS + 1 /\ 0 # MAX_RESART_NUMS_SET
      /\ pc' # "evaluate"
  BY Limits
<1> QED
  BY <1>1, Zenon DEF CountsAt

LEMMA CountsNext == IInv /\ [Next]_vars => CountsAt'
<1> SUFFICES ASSUME IInv, [Next]_vars PROVE CountsAt'
  OBVIOUS
<1>1. CountsAt /\ Phases
  BY DEF IInv
<1>2. iter_num_ \in 0 .. MaxEvaluations
  BY <1>1 DEF CountsAt
<1>3. CASE UNCHANGED vars \/ Sample \/ Assign
  <2>1. /\ pc' = pc /\ restart_nums' = restart_nums /\ rebound_times' = rebound_times
        /\ iter_num_' = iter_num_ /\ flag_force_return' = flag_force_return
    BY <1>3 DEF vars, Sample, Assign, counts, solver, flags
  <2> QED
    BY <1>1, <2>1, Zenon DEF CountsAt
<1>4. CASE Replan
  <2>1. /\ pc = "idle" /\ (pc' = "scan" \/ pc' = pc)
        /\ UNCHANGED counts /\ iter_num_' = iter_num_ /\ flag_force_return' = flag_force_return
    BY <1>4 DEF Replan, StartInit, solver, flags
  <2>2. pc' \notin {"prepare", "evaluate", "trial", "verdict"}
    BY <2>1
  <2> QED
    BY <1>1, <2>1, <2>2, CountsLeft
<1>5. CASE FindPaths \/ Assigned
  <2>1. /\ pc' = "assign" \/ pc' = AfterInit
        /\ UNCHANGED counts /\ iter_num_' = iter_num_ /\ flag_force_return' = flag_force_return
    BY <1>5, Zenon DEF FindPaths, Assigned, solver, flags
  <2>2. AfterInit \in {"vary", "loop"}
    BY Zenon DEF AfterInit
  <2>3. pc' \notin {"prepare", "evaluate", "trial", "verdict"}
    BY <2>1, <2>2
  <2> QED
    BY <1>1, <2>1, <2>3, CountsLeft
<1>6. CASE Vary \/ Select
  <2>1. iter_num_' = iter_num_ /\ flag_force_return' = flag_force_return
    BY <1>6, Zenon DEF Vary, Select, solver, flags
  <2>2. \/ pc' = "prepare" /\ restart_nums' = 0 /\ rebound_times' = 0
        \/ pc' \in {"next", "table"} /\ UNCHANGED counts
    BY <1>6, Zenon DEF Vary, Select, StartOptimizing
  <2>3. CASE pc' = "prepare" /\ restart_nums' = 0 /\ rebound_times' = 0
    BY <1>2, <2>1, <2>3, CountsFresh
  <2>4. CASE pc' \in {"next", "table"} /\ UNCHANGED counts
    BY <1>1, <2>1, <2>4, CountsLeft
  <2> QED
    BY <2>2, <2>3, <2>4
<1>7. CASE Prepare
  <2>1. /\ pc = "prepare" /\ pc' = "evaluate" /\ iter_num_' = 0 /\ flag_force_return' = FALSE
        /\ restart_nums' = restart_nums /\ rebound_times' = rebound_times
    BY <1>7 DEF Prepare, counts
  <2>2. restart_nums # MAX_RESART_NUMS_SET
    BY <1>1, <2>1 DEF CountsAt
  <2>3. 0 \in 0 .. MaxEvaluations /\ 0 < MaxEvaluations
    BY Limits
  <2> QED
    BY <1>1, <2>1, <2>2, <2>3, Zenon DEF CountsAt
<1>8. ASSUME NEW smooth \in BOOLEAN, Evaluate(smooth) PROVE CountsAt'
  <2>1. /\ pc = "evaluate" /\ pc' = "trial" /\ iter_num_' = iter_num_ + 1
        /\ flag_force_return' = flag_force_return
        /\ restart_nums' = restart_nums /\ rebound_times' = rebound_times
    BY <1>8 DEF Evaluate, counts, flags
  <2>2. restart_nums # MAX_RESART_NUMS_SET /\ ~flag_force_return /\ iter_num_ < MaxEvaluations
    BY <1>1, <2>1 DEF CountsAt
  <2>3. iter_num_' \in 0 .. MaxEvaluations
    BY <1>2, <2>1, <2>2, Limits
  <2>4. pc' # "evaluate"
    BY <2>1
  <2> QED
    BY <1>1, <2>1, <2>2, <2>3, <2>4, Zenon DEF CountsAt
<1>9. CASE TryAgain
  <2>1. pc = "trial" /\ iter_num_ < MaxEvaluations /\ restart_nums' = restart_nums /\ iter_num_' = iter_num_
    BY <1>9 DEF TryAgain
  <2>2. restart_nums # MAX_RESART_NUMS_SET /\ ~flag_force_return
    BY <1>1, <2>1 DEF CountsAt
  <2>3. \/ pc' = "evaluate" /\ flag_force_return' = flag_force_return /\ rebound_times' = rebound_times
        \/ pc' = "loop" /\ rebound_times' = IF rebound_times > MAX_REBOUNDS THEN rebound_times ELSE rebound_times + 1
    BY <1>9, Zenon DEF TryAgain
  <2>4. rebound_times' \in 0 .. MAX_REBOUNDS + 1
    BY <1>1, <2>3, Limits, SMT DEF CountsAt
  <2>5. pc' \in {"evaluate", "trial", "verdict"} => ~flag_force_return'
    BY <2>2, <2>3, Zenon
  <2>6. restart_nums' # MAX_RESART_NUMS_SET /\ restart_nums' \in 0 .. MAX_RESART_NUMS_SET
    BY <1>1, <2>1, <2>2 DEF CountsAt
  <2> QED
    BY <1>2, <2>1, <2>4, <2>5, <2>6, Zenon DEF CountsAt
<1>10. CASE SolverFails
  <2>1. /\ pc' = "loop" /\ UNCHANGED counts /\ iter_num_' = iter_num_ /\ flag_force_return' = flag_force_return
    BY <1>10, Zenon DEF SolverFails, flags
  <2>2. pc' \notin {"prepare", "evaluate", "trial", "verdict"}
    BY <2>1
  <2> QED
    BY <1>1, <2>1, <2>2, CountsLeft
<1>11. CASE Converges
  <2>1. /\ pc = "trial" /\ pc' = "verdict" /\ iter_num_' = iter_num_ /\ flag_force_return' = flag_force_return
        /\ restart_nums' = restart_nums /\ rebound_times' = rebound_times
    BY <1>11, Zenon DEF Converges, flags, counts
  <2>2. restart_nums # MAX_RESART_NUMS_SET /\ ~flag_force_return
    BY <1>1, <2>1 DEF CountsAt
  <2>3. pc' # "evaluate"
    BY <2>1
  <2> QED
    BY <1>1, <2>1, <2>2, <2>3, Zenon DEF CountsAt
<1>12. CASE SwarmVerdict
  <2>1. pc = "verdict" /\ Restart /\ rebound_times' = rebound_times /\ flag_force_return' = flag_force_return
    BY <1>12 DEF SwarmVerdict, flags
  <2> QED
    BY <1>1, <2>1, RestartCounts
<1>13. CASE CurveVerdict
  <2>1. pc = "verdict" /\ rebound_times' = rebound_times /\ flag_force_return' = flag_force_return
    BY <1>13 DEF CurveVerdict
  <2>2. CASE Restart
    BY <1>1, <2>1, <2>2, RestartCounts
  <2>3. CASE pc' \in {"loop", "next"} /\ restart_nums' = restart_nums /\ iter_num_' = iter_num_
    <3>1. UNCHANGED counts /\ pc' \notin {"prepare", "evaluate", "trial", "verdict"}
      BY <2>1, <2>3 DEF counts
    <3> QED
      BY <1>1, <2>1, <2>3, <3>1, CountsLeft
  <2> QED
    BY <1>13, <2>2, <2>3, Zenon DEF CurveVerdict
<1>14. CASE Loop
  <2>1. /\ pc = "loop" /\ pc' = IF Again THEN "prepare" ELSE "next"
        /\ restart_nums' = restart_nums /\ rebound_times' = rebound_times
        /\ iter_num_' = iter_num_ /\ flag_force_return' = flag_force_return
    BY <1>14, Zenon DEF Loop, counts, solver, flags
  <2>2. CASE Again
    <3>1. restart_nums # MAX_RESART_NUMS_SET
      <4>1. restart_nums < MAX_RESART_NUMS_SET \/ flag_force_return
        BY <2>2, Zenon DEF Again
      <4>2. restart_nums < MAX_RESART_NUMS_SET => restart_nums # MAX_RESART_NUMS_SET
        BY <1>1, Limits DEF CountsAt
      <4> QED
        BY <1>1, <4>1, <4>2, Zenon DEF CountsAt
    <3>2. pc' = "prepare"
      BY <2>1, <2>2
    <3>3. pc' \notin {"evaluate", "trial", "verdict"} /\ pc' # "evaluate"
      BY <3>2
    <3> QED
      BY <1>1, <2>1, <3>1, <3>3, Zenon DEF CountsAt
  <2>3. CASE ~Again
    <3>1. pc' \notin {"prepare", "evaluate", "trial", "verdict"} /\ UNCHANGED counts
      BY <2>1, <2>3 DEF counts
    <3> QED
      BY <1>1, <2>1, <3>1, CountsLeft
  <2> QED
    BY <2>2, <2>3
<1>15. CASE NextTraj
  <2>1. restart_nums' = 0 /\ rebound_times' = 0 /\ pc' \in {"prepare", "refine", "idle"} /\ iter_num_' = 0
    BY <1>15, Zenon DEF NextTraj, StartOptimizing, ForgetSolver
  <2>2. iter_num_' \in 0 .. MaxEvaluations /\ pc' \notin {"evaluate", "trial", "verdict"}
    BY <2>1, Limits
  <2> QED
    BY <2>1, <2>2, CountsFresh
<1>16. CASE Refine
  <2>1. /\ pc' = "idle" /\ UNCHANGED counts /\ iter_num_' = iter_num_ /\ flag_force_return' = flag_force_return
    BY <1>16, Zenon DEF Refine, solver, flags
  <2>2. pc' \notin {"prepare", "evaluate", "trial", "verdict"}
    BY <2>1
  <2> QED
    BY <1>1, <2>1, <2>2, CountsLeft
<1> QED
  BY <1>3, <1>4, <1>5, <1>6, <1>7, <1>8, <1>9, <1>10, <1>11, <1>12, <1>13, <1>14, <1>15, <1>16
     DEF Next, Step

LEMMA ForceStopTypes ==
  ASSUME SolverAt, BasesAt, [Next]_vars
  PROVE  force_stop_type_' \in {"DONT_STOP", "STOP_FOR_REBOUND", "STOP_FOR_ERROR"}
<1>1. force_stop_type_ \in {"DONT_STOP", "STOP_FOR_REBOUND", "STOP_FOR_ERROR"}
  BY DEF SolverAt
<1>2. ASSUME NEW smooth \in BOOLEAN, Evaluate(smooth)
      PROVE  force_stop_type_' \in {"DONT_STOP", "STOP_FOR_REBOUND", "STOP_FOR_ERROR"}
  <2>1. CASE iter_num_ > 3 /\ smooth
    <3>1. PICK occ \in Occupancies : CheckCollisionAndRebound(occ)
      BY <1>2, <2>1, Zenon DEF Evaluate
    <3> QED
      BY <3>1, CheckTypes DEF BasesAt
  <2>2. CASE ~(iter_num_ > 3 /\ smooth)
    <3>1. force_stop_type_' = "DONT_STOP"
      BY <1>2, <2>2, Zenon DEF Evaluate
    <3> QED
      BY <3>1
  <2> QED
    BY <2>1, <2>2
<1>3. CASE Replan \/ Sample \/ FindPaths \/ Assign \/ Assigned \/ Vary \/ Select
  <2>1. force_stop_type_' = force_stop_type_
    BY <1>3, Zenon DEF Replan, Sample, FindPaths, Assign, Assigned, Vary, Select, solver
  <2> QED
    BY <1>1, <2>1
<1>4. CASE Prepare \/ TryAgain \/ SolverFails \/ Converges \/ Loop \/ Refine \/ UNCHANGED vars
  <2>1. force_stop_type_' = force_stop_type_
    BY <1>4, Zenon DEF Prepare, TryAgain, SolverFails, Converges, Loop, Refine, vars, solver
  <2> QED
    BY <1>1, <2>1
<1>5. CASE SwarmVerdict \/ CurveVerdict \/ NextTraj
  <2>1. force_stop_type_' = force_stop_type_ \/ force_stop_type_' = "DONT_STOP"
    BY <1>5, Zenon DEF SwarmVerdict, CurveVerdict, NextTraj, Restart, ForgetSolver
  <2> QED
    BY <1>1, <2>1
<1> QED
  BY <1>2, <1>3, <1>4, <1>5 DEF Next, Step

LEMMA SwarmDistances ==
  ASSUME SolverAt, [Next]_vars
  PROVE  min_ellip_dist_' \in {"init", "close", "apart"}
<1>1. min_ellip_dist_ \in {"init", "close", "apart"}
  BY DEF SolverAt
<1>2. ASSUME NEW smooth \in BOOLEAN, Evaluate(smooth)
      PROVE  min_ellip_dist_' \in {"init", "close", "apart"}
  <2>1. min_ellip_dist_' = "apart" \/ min_ellip_dist_' = "close" \/ min_ellip_dist_' = min_ellip_dist_
    BY <1>2, Zenon DEF Evaluate, CalcSwarmCost
  <2> QED
    BY <1>1, <2>1
<1>3. CASE Replan \/ Sample \/ FindPaths \/ Assign \/ Assigned \/ Vary \/ Select
  <2>1. min_ellip_dist_' = min_ellip_dist_
    BY <1>3, Zenon DEF Replan, Sample, FindPaths, Assign, Assigned, Vary, Select, solver
  <2> QED
    BY <1>1, <2>1
<1>4. CASE TryAgain \/ SolverFails \/ Converges \/ Loop \/ Refine \/ UNCHANGED vars
  <2>1. min_ellip_dist_' = min_ellip_dist_
    BY <1>4, Zenon DEF TryAgain, SolverFails, Converges, Loop, Refine, vars, solver
  <2> QED
    BY <1>1, <2>1
<1>5. CASE Prepare \/ SwarmVerdict \/ CurveVerdict \/ NextTraj
  <2>1. min_ellip_dist_' = min_ellip_dist_ \/ min_ellip_dist_' = "init"
    BY <1>5, Zenon DEF Prepare, SwarmVerdict, CurveVerdict, NextTraj, ForgetSolver
  <2> QED
    BY <1>1, <2>1
<1> QED
  BY <1>2, <1>3, <1>4, <1>5 DEF Next, Step

LEMMA Results ==
  ASSUME SolverAt, [Next]_vars
  PROVE  result' \in {"none", "converged", "canceled", "error"}
<1>1. result \in {"none", "converged", "canceled", "error"}
  BY DEF SolverAt
<1>2. ASSUME NEW smooth \in BOOLEAN, Evaluate(smooth) PROVE result' = result
  BY <1>2, Zenon DEF Evaluate
<1>3. CASE Replan \/ Sample \/ FindPaths \/ Assign \/ Assigned \/ Vary \/ Select
  <2>1. result' = result
    BY <1>3, Zenon DEF Replan, Sample, FindPaths, Assign, Assigned, Vary, Select, solver
  <2> QED
    BY <1>1, <2>1
<1>4. CASE TryAgain \/ SolverFails \/ Converges \/ Loop \/ Refine \/ UNCHANGED vars
  <2>1. result' = result \/ result' = "canceled" \/ result' = "error" \/ result' = "converged"
    BY <1>4, Zenon DEF TryAgain, SolverFails, Converges, Loop, Refine, vars, solver
  <2> QED
    BY <1>1, <2>1
<1>5. CASE Prepare \/ SwarmVerdict \/ CurveVerdict \/ NextTraj
  <2>1. result' = result \/ result' = "none"
    BY <1>5, Zenon DEF Prepare, SwarmVerdict, CurveVerdict, NextTraj, ForgetSolver, Restart
  <2> QED
    BY <1>1, <2>1
<1> QED
  BY <1>1, <1>2, <1>3, <1>4, <1>5 DEF Next, Step

LEMMA FlagsTyped ==
  ASSUME SolverAt, [Next]_vars
  PROVE  flag_occ' \in BOOLEAN /\ flag_force_return' \in BOOLEAN /\ success' \in BOOLEAN
<1>1. flag_occ \in BOOLEAN /\ flag_force_return \in BOOLEAN /\ success \in BOOLEAN
  BY DEF SolverAt
<1>2. ASSUME NEW smooth \in BOOLEAN, Evaluate(smooth) PROVE UNCHANGED flags
  BY <1>2, Zenon DEF Evaluate
<1>3. /\ flag_occ' \in {flag_occ, TRUE, FALSE}
      /\ flag_force_return' \in {flag_force_return, TRUE, FALSE}
      /\ success' \in {success, TRUE, FALSE}
  <2>1. CASE Replan \/ Sample \/ FindPaths \/ Assign \/ Assigned \/ Vary \/ Select
    BY <2>1, Zenon DEF Replan, Sample, FindPaths, Assign, Assigned, Vary, Select, flags
  <2>2. CASE TryAgain \/ SolverFails \/ Converges \/ Loop \/ Refine \/ UNCHANGED vars
    BY <2>2, Zenon DEF TryAgain, SolverFails, Converges, Loop, Refine, vars, flags
  <2>3. CASE Prepare \/ SwarmVerdict
    BY <2>3, Zenon DEF Prepare, SwarmVerdict, flags
  <2>4. CASE CurveVerdict
    BY <2>4, Zenon DEF CurveVerdict
  <2>5. CASE NextTraj
    BY <2>5, Zenon DEF NextTraj, ForgetSolver
  <2>6. CASE UNCHANGED flags
    BY <2>6, Zenon DEF flags
  <2> QED
    BY <1>2, <2>1, <2>2, <2>3, <2>4, <2>5, <2>6 DEF Next, Step
<1> QED
  BY <1>1, <1>3, Zenon

LEMMA CostsTyped ==
  ASSUME SolverAt, [Next]_vars
  PROVE  min_cost' \in Costs \cup {0} /\ planned' \in BOOLEAN
<1>1. min_cost \in Costs \cup {0} /\ planned \in BOOLEAN
  BY DEF SolverAt
<1>2. ASSUME NEW smooth \in BOOLEAN, Evaluate(smooth) PROVE min_cost' = min_cost /\ planned' = planned
  BY <1>2, Zenon DEF Evaluate, kept
<1>3. CASE Replan \/ Sample \/ FindPaths \/ Assign \/ Assigned \/ Vary \/ Select
  <2>1. min_cost' = min_cost /\ planned' \in {planned, FALSE}
    BY <1>3, Zenon DEF Replan, Sample, FindPaths, Assign, Assigned, Vary, Select, kept
  <2> QED
    BY <1>1, <2>1, Zenon
<1>4. CASE Prepare \/ TryAgain \/ SolverFails \/ Converges \/ SwarmVerdict \/ CurveVerdict \/ Loop \/ UNCHANGED vars
  <2>1. min_cost' = min_cost /\ planned' = planned
    BY <1>4, Zenon DEF Prepare, TryAgain, SolverFails, Converges, SwarmVerdict, CurveVerdict, Loop, vars, kept
  <2> QED
    BY <1>1, <2>1, Zenon
<1>5. CASE NextTraj
  <2>1. planned' \in {planned, FALSE}
    BY <1>5, Zenon DEF NextTraj
  <2>2. min_cost' = min_cost \/ \E cost \in Costs : min_cost' = cost
    BY <1>5, Zenon DEF NextTraj, Keep, kept
  <2>3. min_cost' \in Costs \cup {0}
    BY <1>1, <2>2
  <2> QED
    BY <1>1, <2>1, <2>3, Zenon
<1>6. CASE Refine
  BY <1>6, Zenon DEF Refine
<1> QED
  BY <1>1, <1>2, <1>3, <1>4, <1>5, <1>6, Zenon DEF Next, Step

LEMMA SolverNext == IInv /\ [Next]_vars => SolverAt'
<1> SUFFICES ASSUME IInv, [Next]_vars PROVE SolverAt'
  OBVIOUS
<1>1. SolverAt /\ BasesAt
  BY DEF IInv
<1> QED
  BY <1>1, ForceStopTypes, SwarmDistances, Results, FlagsTyped, CostsTyped, Zenon DEF SolverAt

-----------------------------------------------------------------------------
(* The table of distinctiveTrajs.                                          *)

LEMMA ValueIs ==
  ASSUME NEW n \in 1 .. 3, NEW f \in [1 .. n -> {-1, 0, 1}]
  PROVE  /\ f \in Seq({-1, 0, 1}) /\ Len(f) = n /\ DOMAIN f = 1 .. n
         /\ Value(f) \in Int
         /\ n = 1 => Value(f) = f[1] /\ f[1] \in {-1, 0, 1}
         /\ n = 2 => Value(f) = f[1] + 2 * f[2] /\ f[1] \in {-1, 0, 1} /\ f[2] \in {-1, 0, 1}
         /\ n = 3 => /\ Value(f) = f[1] + 2 * f[2] + 4 * f[3]
                     /\ f[1] \in {-1, 0, 1} /\ f[2] \in {-1, 0, 1} /\ f[3] \in {-1, 0, 1}
<1>1. f \in Seq({-1, 0, 1}) /\ Len(f) = n /\ DOMAIN f = 1 .. n
  <2>1. f \in Seq({-1, 0, 1})
    BY IsASeq
  <2>2. DOMAIN f = 1 .. Len(f) /\ Len(f) \in Nat
    BY <2>1, LenProperties
  <2>3. DOMAIN f = 1 .. n
    OBVIOUS
  <2> QED
    BY <2>1, <2>2, <2>3
<1>2. Value(f) = f[1] + (IF n >= 2 THEN 2 * f[2] ELSE 0) + (IF n >= 3 THEN 4 * f[3] ELSE 0)
  BY <1>1, Zenon DEF Value
<1>3. CASE n = 1
  <2>1. f[1] \in {-1, 0, 1}
    BY <1>3
  <2> QED
    BY <1>1, <1>2, <1>3, <2>1
<1>4. CASE n = 2
  <2>1. f[1] \in {-1, 0, 1} /\ f[2] \in {-1, 0, 1}
    BY <1>4
  <2> QED
    BY <1>1, <1>2, <1>4, <2>1
<1>5. CASE n = 3
  <2>1. f[1] \in {-1, 0, 1} /\ f[2] \in {-1, 0, 1} /\ f[3] \in {-1, 0, 1}
    BY <1>5
  <2> QED
    BY <1>1, <1>2, <1>5, <2>1
<1> QED
  BY <1>3, <1>4, <1>5

(* Two choices of as many sides with the same number are the same.         *)
LEMMA ValueTells ==
  ASSUME NEW n \in 1 .. 3, NEW f \in [1 .. n -> {0, 1}]
  PROVE  /\ f \in [1 .. n -> {-1, 0, 1}] /\ Value(f) \in 0 .. <<2, 4, 8>>[n] - 1
         /\ \A g \in [1 .. n -> {0, 1}] : Value(f) = Value(g) => f = g
<1>1. \A h \in [1 .. n -> {0, 1}] : h \in [1 .. n -> {-1, 0, 1}] /\ \A d \in 1 .. n : h[d] \in {0, 1}
  OBVIOUS
<1>2. ASSUME NEW g \in [1 .. n -> {0, 1}], Value(f) = Value(g), \A d \in 1 .. n : f[d] = g[d] PROVE f = g
  BY <1>2
<1>3. CASE n = 1
  <2>1. \A h \in [1 .. n -> {0, 1}] : Value(h) = h[1] /\ h[1] \in {0, 1}
    BY <1>1, <1>3, ValueIs
  <2>2. \A g \in [1 .. n -> {0, 1}] : Value(f) = Value(g) => \A d \in 1 .. n : f[d] = g[d]
    BY <1>3, <2>1
  <2>3. Value(f) \in 0 .. <<2, 4, 8>>[n] - 1
    BY <1>3, <2>1
  <2> QED
    BY <1>1, <1>2, <2>2, <2>3
<1>4. CASE n = 2
  <2>1. \A h \in [1 .. n -> {0, 1}] : Value(h) = h[1] + 2 * h[2] /\ h[1] \in {0, 1} /\ h[2] \in {0, 1}
    BY <1>1, <1>4, ValueIs
  <2>2. \A g \in [1 .. n -> {0, 1}] : Value(f) = Value(g) => f[1] = g[1] /\ f[2] = g[2]
    BY <2>1
  <2>3. \A d \in 1 .. n : d = 1 \/ d = 2
    BY <1>4
  <2>4. Value(f) \in 0 .. <<2, 4, 8>>[n] - 1
    BY <1>4, <2>1
  <2> QED
    BY <1>1, <1>2, <2>2, <2>3, <2>4
<1>5. CASE n = 3
  <2>1. \A h \in [1 .. n -> {0, 1}] : /\ Value(h) = h[1] + 2 * h[2] + 4 * h[3]
                                      /\ h[1] \in {0, 1} /\ h[2] \in {0, 1} /\ h[3] \in {0, 1}
    BY <1>1, <1>5, ValueIs
  <2>2. \A g \in [1 .. n -> {0, 1}] : Value(f) = Value(g) => f[1] = g[1] /\ f[2] = g[2] /\ f[3] = g[3]
    BY <2>1
  <2>3. \A d \in 1 .. n : d = 1 \/ d = 2 \/ d = 3
    BY <1>5
  <2>4. Value(f) \in 0 .. <<2, 4, 8>>[n] - 1
    BY <1>5, <2>1
  <2> QED
    BY <1>1, <1>2, <2>2, <2>3, <2>4
<1> QED
  BY <1>3, <1>4, <1>5

(* One up is the next number, as long as there is a digit that can rise.   *)
LEMMA OneUpCounts ==
  ASSUME NEW n \in 1 .. 3, NEW sel \in [1 .. n -> {-1, 0, 1}], Value(sel) < <<2, 4, 8>>[n] - 1,
         \A d \in 1 .. n : sel[d] = -1 => d = 1
  PROVE  OneUp(sel) \in [1 .. n -> {0, 1}] /\ Value(OneUp(sel)) = Value(sel) + 1
<1> DEFINE Rises(d) == sel[d] < 1 /\ \A e \in 1 .. d - 1 : sel[e] = 1
           digit == CHOOSE d \in DOMAIN sel : Rises(d)
           new == [d \in 1 .. n |-> IF d < digit THEN 0 ELSE IF d = digit THEN sel[d] + 1 ELSE sel[d]]
<1>1. DOMAIN sel = 1 .. n /\ n \in Nat
  OBVIOUS
<1>2. OneUp(sel) = new
  BY <1>1, Zenon DEF OneUp
<1>3. \E d \in 1 .. n : Rises(d)
  <2> SUFFICES ASSUME \A d \in 1 .. n : ~Rises(d) PROVE FALSE
    OBVIOUS
  <2>1. sel[1] = 1
    <3>1. 1 \in 1 .. n /\ sel[1] \in {-1, 0, 1} /\ \A e \in 1 .. 1 - 1 : FALSE
      BY <1>1
    <3>2. ~(sel[1] < 1)
      BY <3>1
    <3> QED
      BY <3>1, <3>2
  <2>2. n >= 2 => sel[2] = 1
    <3> SUFFICES ASSUME n >= 2 PROVE sel[2] = 1
      OBVIOUS
    <3>1. 2 \in 1 .. n /\ sel[2] \in {-1, 0, 1} /\ \A e \in 1 .. 2 - 1 : e = 1
      BY <1>1
    <3>2. ~(sel[2] < 1)
      BY <2>1, <3>1
    <3> QED
      BY <3>1, <3>2
  <2>3. n = 3 => sel[3] = 1
    <3> SUFFICES ASSUME n = 3 PROVE sel[3] = 1
      OBVIOUS
    <3>1. 3 \in 1 .. n /\ sel[3] \in {-1, 0, 1} /\ \A e \in 1 .. 3 - 1 : e = 1 \/ e = 2
      BY <1>1
    <3>2. ~(sel[3] < 1)
      BY <2>1, <2>2, <3>1
    <3> QED
      BY <3>1, <3>2
  <2>4. CASE n = 1
    BY <2>1, <2>4, ValueIs
  <2>5. CASE n = 2
    BY <2>1, <2>2, <2>5, ValueIs
  <2>6. CASE n = 3
    BY <2>1, <2>2, <2>3, <2>6, ValueIs
  <2> QED
    BY <2>4, <2>5, <2>6
<1>4. digit \in 1 .. n /\ Rises(digit)
  BY <1>1, <1>3
<1>5. /\ sel[digit] < 1 /\ (\A e \in 1 .. digit - 1 : sel[e] = 1)
  BY <1>4
<1> HIDE DEF digit
<1>6. \A d \in 1 .. n : new[d] = IF d < digit THEN 0 ELSE IF d = digit THEN sel[d] + 1 ELSE sel[d]
  OBVIOUS
<1>7. new \in [1 .. n -> {0, 1}]
  <2>1. ASSUME NEW d \in 1 .. n
        PROVE  (IF d < digit THEN 0 ELSE IF d = digit THEN sel[d] + 1 ELSE sel[d]) \in {0, 1}
    <3>1. sel[d] \in {-1, 0, 1} /\ digit \in 1 .. n
      BY <1>4
    <3>2. CASE d < digit
      BY <3>2
    <3>3. CASE d = digit
      <4>1. sel[d] + 1 \in {0, 1}
        BY <1>5, <3>1, <3>3
      <4> QED
        BY <3>1, <3>3, <4>1
    <3>4. CASE d > digit
      <4>1. d # 1
        BY <3>1, <3>4
      <4>2. sel[d] # -1
        BY <4>1
      <4> QED
        BY <3>1, <3>4, <4>2
    <3> QED
      BY <3>1, <3>2, <3>3, <3>4
  <2> QED
    BY <2>1
<1>8. new \in [1 .. n -> {-1, 0, 1}]
  BY <1>7
<1> HIDE DEF new
<1>9. Value(new) = Value(sel) + 1
  <2>1. CASE n = 1
    <3>1. digit = 1 /\ 1 \in 1 .. n
      BY <1>4, <2>1
    <3>2. new[1] = sel[1] + 1
      BY <1>6, <3>1
    <3>3. Value(new) = new[1] /\ Value(sel) = sel[1]
      BY <1>8, <2>1, ValueIs
    <3> QED
      BY <3>2, <3>3
  <2>2. CASE n = 2
    <3>1. Value(new) = new[1] + 2 * new[2] /\ Value(sel) = sel[1] + 2 * sel[2]
      BY <1>8, <2>2, ValueIs
    <3>2. 1 \in 1 .. n /\ 2 \in 1 .. n /\ sel[1] \in Int /\ sel[2] \in {-1, 0, 1} /\ (digit = 1 \/ digit = 2)
      BY <1>4, <2>2
    <3>3. CASE digit = 1
      <4>1. new[1] = sel[1] + 1 /\ new[2] = sel[2]
        BY <1>6, <3>2, <3>3
      <4> QED
        BY <3>1, <3>2, <4>1
    <3>4. CASE digit = 2
      <4>1. new[1] = 0 /\ new[2] = sel[2] + 1
        BY <1>6, <3>2, <3>4
      <4>2. sel[1] = 1
        BY <1>5, <3>4
      <4> QED
        BY <3>1, <3>2, <4>1, <4>2
    <3> QED
      BY <3>2, <3>3, <3>4
  <2>3. CASE n = 3
    <3>1. Value(new) = new[1] + 2 * new[2] + 4 * new[3] /\ Value(sel) = sel[1] + 2 * sel[2] + 4 * sel[3]
      BY <1>8, <2>3, ValueIs
    <3>2. /\ 1 \in 1 .. n /\ 2 \in 1 .. n /\ 3 \in 1 .. n
          /\ sel[1] \in Int /\ sel[2] \in Int /\ sel[3] \in Int
          /\ (digit = 1 \/ digit = 2 \/ digit = 3)
      BY <1>4, <2>3
    <3>3. CASE digit = 1
      <4>1. new[1] = sel[1] + 1 /\ new[2] = sel[2] /\ new[3] = sel[3]
        BY <1>6, <3>2, <3>3
      <4> QED
        BY <3>1, <3>2, <4>1
    <3>4. CASE digit = 2
      <4>1. new[1] = 0 /\ new[2] = sel[2] + 1 /\ new[3] = sel[3]
        BY <1>6, <3>2, <3>4
      <4>2. sel[1] = 1
        BY <1>5, <3>4
      <4> QED
        BY <3>1, <3>2, <4>1, <4>2
    <3>5. CASE digit = 3
      <4>1. new[1] = 0 /\ new[2] = 0 /\ new[3] = sel[3] + 1
        BY <1>6, <3>2, <3>5
      <4>2. sel[1] = 1 /\ sel[2] = 1
        BY <1>5, <3>5
      <4> QED
        BY <3>1, <3>2, <4>1, <4>2
    <3> QED
      BY <3>2, <3>3, <3>4, <3>5
  <2> QED
    BY <2>1, <2>2, <2>3
<1> QED
  BY <1>2, <1>7, <1>9

(* Fewer than four segments are varied.                                    *)
LEMMA FewVaried ==
  ASSUME final_segment_ids \in Segs
  PROVE  \A n \in 0 .. Cardinality(Varied) : n # 0 => n \in 1 .. 3
<1>1. Len(final_segment_ids) \in Nat
  BY LenProperties DEF Segs
<1>2. Upbound \in Nat /\ Upbound <= 3
  BY <1>1 DEF Upbound, MAX_SEGMENTS
<1>3. IsFiniteSet(1 .. Upbound) /\ Cardinality(1 .. Upbound) <= 3
  <2>1. IsFiniteSet(1 .. Upbound) /\ Cardinality(1 .. Upbound) = IF 1 > Upbound THEN 0 ELSE Upbound - 1 + 1
    BY <1>2, FS_Interval
  <2> QED
    BY <1>2, <2>1
<1>4. Varied \subseteq 1 .. Upbound
  BY DEF Varied
<1>5. Cardinality(Varied) <= Cardinality(1 .. Upbound) /\ IsFiniteSet(Varied)
  BY <1>3, <1>4, FS_Subset
<1>6. Cardinality(Varied) \in Nat /\ Cardinality(1 .. Upbound) \in Nat
  BY <1>3, <1>5, FS_CardinalityType
<1> QED
  BY <1>3, <1>5, <1>6

(* The rows are then all different.                                        *)
LEMMA RowsDiffer ==
  ASSUME NEW sel, NEW rows, DOMAIN rows = 1 .. Len(rows), Counting(sel, rows)
  PROVE  \A j, k \in DOMAIN rows : rows[j] = rows[k] => j = k
<1> SUFFICES ASSUME NEW j \in 1 .. Len(rows), NEW k \in 1 .. Len(rows), rows[j] = rows[k] PROVE j = k
  OBVIOUS
<1>1. Value(rows[j]) = j - 1 /\ Value(rows[k]) = k - 1
  BY DEF Counting
<1>2. j - 1 = k - 1
  BY <1>1
<1> QED
  BY <1>2

LEMMA TableStarts ==
  ASSUME NEW n \in 1 .. 3
  PROVE  Counting([k \in 1 .. n |-> IF k = 1 THEN -1 ELSE 0], <<>>)
<1> DEFINE sel == [k \in 1 .. n |-> IF k = 1 THEN -1 ELSE 0]
<1>1. sel \in [1 .. n -> {-1, 0, 1}] /\ sel[1] = -1
  <2>1. 1 \in 1 .. n
    OBVIOUS
  <2> QED
    BY <2>1
<1>2. \A d \in 1 .. n : d # 1 => sel[d] = 0
  OBVIOUS
<1> HIDE DEF sel
<1>3. sel \in Seq({-1, 0, 1}) /\ Len(sel) = n
  BY <1>1, ValueIs
<1>4. Value(sel) = -1
  <2>1. CASE n = 1
    BY <1>1, <2>1, ValueIs
  <2>2. CASE n = 2
    <3>1. sel[2] = 0
      BY <1>2, <2>2
    <3> QED
      BY <1>1, <2>2, <3>1, ValueIs
  <2>3. CASE n = 3
    <3>1. sel[2] = 0 /\ sel[3] = 0
      BY <1>2, <2>3
    <3> QED
      BY <1>1, <2>3, <3>1, ValueIs
  <2> QED
    BY <2>1, <2>2, <2>3
<1>5. Len(<<>>) = 0
  OBVIOUS
<1>6. <<2, 4, 8>>[n] \in Nat
  OBVIOUS
<1>7. \A d \in 1 .. n : sel[d] = -1 => d = 1 /\ Len(<<>>) = 0
  BY <1>2, <1>5
<1>8. \A k \in 1 .. 0 : FALSE
  OBVIOUS
<1>9. Counting(sel, <<>>)
  <2>1. Len(<<>>) <= <<2, 4, 8>>[Len(sel)] /\ Value(sel) = Len(<<>>) - 1 /\ Len(sel) \in 1 .. MAX_SEGMENTS
    BY <1>3, <1>4, <1>5, <1>6 DEF MAX_SEGMENTS
  <2>2. \A d \in 1 .. Len(sel) : sel[d] = -1 => d = 1 /\ Len(<<>>) = 0
    BY <1>3, <1>7
  <2>3. \A k \in 1 .. Len(<<>>) : <<>>[k] \in [1 .. Len(sel) -> {0, 1}] /\ Value(<<>>[k]) = k - 1
    BY <1>5, <1>8
  <2> QED
    BY <1>3, <2>1, <2>2, <2>3, Zenon DEF Counting
<1> QED
  BY <1>9 DEF sel

LEMMA FullIs == \A n \in 1 .. 3 : <<2, 4, 8>>[n] \in Nat
  OBVIOUS

(* One row more.                                                           *)
LEMMA RowAdded ==
  ASSUME NEW sel, NEW rows \in Seq(Seq({0, 1})), Counting(sel, rows), Len(rows) < <<2, 4, 8>>[Len(sel)]
  PROVE  /\ OneUp(sel) \in Seq({-1, 0, 1}) /\ Append(rows, OneUp(sel)) \in Seq(Seq({0, 1}))
         /\ Counting(OneUp(sel), Append(rows, OneUp(sel)))
<1> DEFINE up == OneUp(sel)
           more == Append(rows, up)
           n == Len(sel)
           m == Len(rows)
           full == <<2, 4, 8>>[n]
<1>1. sel \in Seq({-1, 0, 1}) /\ n \in 1 .. 3 /\ m \in Nat /\ full \in Nat /\ m < full
  <2>1. sel \in Seq({-1, 0, 1}) /\ n \in 1 .. 3
    BY DEF Counting, MAX_SEGMENTS
  <2>2. m \in Nat
    BY LenProperties
  <2>3. full \in Nat
    BY <2>1, FullIs, Zenon
  <2> QED
    BY <2>1, <2>2, <2>3
<1>2. sel \in [1 .. n -> {-1, 0, 1}]
  BY <1>1, LenProperties
<1>3. Value(sel) = m - 1 /\ (\A d \in 1 .. n : sel[d] = -1 => d = 1)
      /\ \A k \in 1 .. m : rows[k] \in [1 .. n -> {0, 1}] /\ Value(rows[k]) = k - 1
  BY DEF Counting
<1> HIDE DEF n, m, full, up
<1>4. Value(sel) < full - 1
  BY <1>1, <1>3
<1>5. up \in [1 .. n -> {0, 1}] /\ Value(up) = Value(sel) + 1
  BY <1>1, <1>2, <1>3, <1>4, OneUpCounts DEF up, full
<1>6. Value(up) = m
  BY <1>1, <1>3, <1>5
<1>7. up \in [1 .. n -> {-1, 0, 1}]
  BY <1>5
<1>8. up \in Seq({-1, 0, 1}) /\ Len(up) = n
  BY <1>1, <1>7, ValueIs
<1>9. up \in Seq({0, 1})
  BY <1>1, <1>5, IsASeq
<1>10. /\ more \in Seq(Seq({0, 1})) /\ Len(more) = m + 1 /\ more[m + 1] = up
       /\ \A k \in 1 .. m : more[k] = rows[k]
  BY <1>9, AppendProperties DEF m
<1> HIDE DEF more
<1>11. m + 1 <= full /\ Value(up) = m + 1 - 1
  BY <1>1, <1>6
<1>12. \A d \in 1 .. n : up[d] # -1
  <2>1. \A d \in 1 .. n : up[d] \in {0, 1}
    BY <1>5
  <2> QED
    BY <2>1
<1>13. ASSUME NEW k \in 1 .. m + 1 PROVE more[k] \in [1 .. n -> {0, 1}] /\ Value(more[k]) = k - 1
  <2>1. CASE k \in 1 .. m
    BY <1>3, <1>10, <2>1
  <2>2. CASE k = m + 1
    <3>1. more[k] = up
      BY <1>10, <2>2
    <3>2. Value(up) = k - 1
      BY <1>1, <1>6, <2>2
    <3> QED
      BY <1>5, <3>1, <3>2
  <2> QED
    BY <1>1, <2>1, <2>2
<1>14. Len(up) \in 1 .. MAX_SEGMENTS
  BY <1>1, <1>8 DEF MAX_SEGMENTS
<1>15. Len(more) <= <<2, 4, 8>>[Len(up)]
  BY <1>8, <1>10, <1>11 DEF full
<1>16. Counting(up, more)
  <2>1. Value(up) = Len(more) - 1
    <3>1. PICK l \in Int : l = Len(more) /\ l = m + 1
      BY <1>1, <1>10
    <3>2. l - 1 = m
      BY <1>1, <3>1
    <3>3. Len(more) - 1 = m
      BY <3>1, <3>2, Zenon
    <3> QED
      BY <1>6, <3>3, Zenon
  <2>2. \A d \in 1 .. Len(up) : up[d] = -1 => d = 1 /\ Len(more) = 0
    BY <1>8, <1>12
  <2>3. \A k \in 1 .. Len(more) : more[k] \in [1 .. Len(up) -> {0, 1}] /\ Value(more[k]) = k - 1
    BY <1>8, <1>10, <1>13, Zenon
  <2> QED
    BY <1>8, <1>14, <1>15, <2>1, <2>2, <2>3, Zenon DEF Counting
<1> QED
  BY <1>8, <1>10, <1>16 DEF up, more

LEMMA TableLeft ==
  ASSUME TableAt, selection' = selection, trajs' = trajs, pc' # "table" \/ pc' = pc
  PROVE  TableAt'
  BY Zenon DEF TableAt

(* The one trajectory that is optimised as it is.                          *)
LEMMA OneTraj ==
  ASSUME trajs' = <<<<>>>> \/ trajs' = <<>>, selection' = <<>>, pc' # "table"
  PROVE  TableAt'
<1>1. <<>> \in Seq({-1, 0, 1}) /\ <<<<>>>> \in Seq(Seq({0, 1})) /\ <<>> \in Seq(Seq({0, 1}))
  <2>1. <<>> \in Seq({0, 1})
    BY EmptySeq
  <2>2. <<<<>>>> = Append(<<>>, <<>>)
    OBVIOUS
  <2>3. <<>> \in Seq(Seq({0, 1})) /\ <<>> \in Seq({-1, 0, 1})
    BY EmptySeq
  <2>4. <<<<>>>> \in Seq(Seq({0, 1}))
    BY <2>1, <2>2, <2>3, AppendProperties
  <2> QED
    BY <2>3, <2>4
<1>2. \A j, k \in DOMAIN trajs' : j = k
  <2>1. DOMAIN <<<<>>>> = {1} /\ DOMAIN <<>> = {}
    OBVIOUS
  <2> QED
    BY <2>1
<1> QED
  BY <1>1, <1>2, Zenon DEF TableAt

LEMMA VaryTable ==
  ASSUME SegmentsAt, Vary
  PROVE  TableAt'
<1>1. CASE StartOptimizing(<<<<>>>>) /\ selection' = <<>>
  <2>1. trajs' = <<<<>>>> /\ pc' = "prepare"
    BY <1>1, Zenon DEF StartOptimizing
  <2>2. pc' # "table"
    BY <2>1
  <2> QED
    BY <1>1, <2>1, <2>2, OneTraj
<1>2. CASE pc' = "next" /\ trajs' = <<>> /\ selection' = <<>>
  BY <1>2, OneTraj
<1>3. ASSUME NEW n \in 0 .. Cardinality(Varied), n # 0, pc' = "table", trajs' = <<>>,
             selection' = [k \in 1 .. n |-> IF k = 1 THEN -1 ELSE 0]
      PROVE  TableAt'
  <2>1. n \in 1 .. 3
    BY <1>3, FewVaried DEF SegmentsAt
  <2>2. Counting(selection', trajs')
    BY <1>3, <2>1, TableStarts
  <2>3. selection' \in Seq({-1, 0, 1})
    BY <2>2 DEF Counting
  <2>4. trajs' \in Seq(Seq({0, 1})) /\ DOMAIN trajs' = {}
    <3>1. DOMAIN <<>> = {}
      OBVIOUS
    <3> QED
      BY <1>3, <3>1, EmptySeq
  <2>5. \A j, k \in DOMAIN trajs' : trajs'[j] = trajs'[k] => j = k
    BY <2>4
  <2> QED
    BY <2>2, <2>3, <2>4, <2>5, Zenon DEF TableAt
<1> QED
  BY <1>1, <1>2, <1>3, Zenon DEF Vary

LEMMA SelectTable ==
  ASSUME TableAt, Select
  PROVE  TableAt'
<1>1. pc = "table" /\ Counting(selection, trajs) /\ trajs \in Seq(Seq({0, 1}))
  BY DEF TableAt, Select
<1>2. CASE Len(trajs) < max_traj_nums
  <2>1. selection' = OneUp(selection) /\ trajs' = Append(trajs, selection')
    BY <1>2, Zenon DEF Select
  <2>2. Len(trajs) < <<2, 4, 8>>[Len(selection)]
    BY <1>2, Zenon DEF max_traj_nums
  <2>3. selection' \in Seq({-1, 0, 1}) /\ trajs' \in Seq(Seq({0, 1})) /\ Counting(selection', trajs')
    BY <1>1, <2>1, <2>2, RowAdded
  <2>4. DOMAIN trajs' = 1 .. Len(trajs')
    BY <2>3, LenProperties
  <2>5. \A j, k \in DOMAIN trajs' : trajs'[j] = trajs'[k] => j = k
    BY <2>3, <2>4, RowsDiffer
  <2> QED
    BY <2>3, <2>5, Zenon DEF TableAt
<1>3. CASE ~(Len(trajs) < max_traj_nums)
  <2>1. trajs' = trajs /\ selection' = <<>> /\ pc' = "prepare"
    BY <1>3, Zenon DEF Select, StartOptimizing
  <2>2. <<>> \in Seq({-1, 0, 1}) /\ pc' # "table"
    BY <2>1, EmptySeq
  <2> QED
    BY <2>1, <2>2, Zenon DEF TableAt
<1> QED
  BY <1>2, <1>3

LEMMA NextTrajTable ==
  ASSUME TableAt, NextTraj
  PROVE  TableAt'
<1> DEFINE rest == IF trajs = <<>> THEN <<>> ELSE SubSeq(trajs, 1, Len(trajs) - 1)
<1>1. /\ trajs' = rest \/ trajs' = <<>>
      /\ selection' = selection /\ pc' \in {"prepare", "refine", "idle"}
  BY Zenon DEF NextTraj, StartOptimizing
<1>2. trajs \in Seq(Seq({0, 1})) /\ \A j, k \in DOMAIN trajs : trajs[j] = trajs[k] => j = k
  BY DEF TableAt
<1>3. <<>> \in Seq(Seq({0, 1})) /\ DOMAIN <<>> = {}
  <2>1. DOMAIN <<>> = {}
    OBVIOUS
  <2> QED
    BY <2>1, EmptySeq
<1>4. trajs' \in Seq(Seq({0, 1})) /\ \A j, k \in DOMAIN trajs' : trajs'[j] = trajs'[k] => j = k
  <2>1. CASE trajs' = <<>>
    BY <1>3, <2>1, Zenon
  <2>2. CASE trajs' # <<>>
    <3> DEFINE n == Len(trajs)
               less == SubSeq(trajs, 1, n - 1)
    <3>1. trajs # <<>> /\ trajs' = less
      BY <1>1, <2>2, Zenon
    <3>2. n \in Nat /\ n # 0 /\ DOMAIN trajs = 1 .. n
      BY <1>2, <3>1, EmptySeq, LenProperties
    <3>3. \A i \in 1 .. n : trajs[i] \in Seq({0, 1})
      BY <1>2, ElementOfSeq
    <3> HIDE DEF n
    <3>4. n - 1 \in Int /\ 1 \in Int /\ \A i \in 1 .. n - 1 : i \in 1 .. n /\ trajs[i] \in Seq({0, 1})
      BY <3>2, <3>3
    <3>5. /\ less \in Seq(Seq({0, 1})) /\ Len(less) = IF 1 <= n - 1 THEN n - 1 - 1 + 1 ELSE 0
          /\ \A i \in 1 .. n - 1 - 1 + 1 : less[i] = trajs[1 + i - 1]
      BY <3>4, SubSeqProperties
    <3> HIDE DEF less
    <3>6. Len(less) = n - 1
      BY <3>2, <3>5
    <3>7. DOMAIN less = 1 .. n - 1
      BY <3>5, <3>6, LenProperties
    <3>8. \A i \in 1 .. n - 1 : less[i] = trajs[i]
      <4> TAKE i \in 1 .. n - 1
      <4>1. i \in 1 .. n - 1 - 1 + 1 /\ 1 + i - 1 = i
        BY <3>2
      <4>2. less[i] = trajs[1 + i - 1]
        BY <3>5, <4>1
      <4> QED
        BY <4>1, <4>2
    <3>9. \A j, k \in 1 .. n - 1 : less[j] = less[k] => j = k
      BY <1>2, <3>2, <3>4, <3>8
    <3> QED
      BY <3>1, <3>5, <3>7, <3>9
  <2> QED
    BY <2>1, <2>2
<1>5. pc' # "table"
  BY <1>1
<1> QED
  BY <1>1, <1>4, <1>5, Zenon DEF TableAt

LEMMA TableNext == IInv /\ [Next]_vars => TableAt'
<1> SUFFICES ASSUME IInv, [Next]_vars PROVE TableAt'
  OBVIOUS
<1>1. TableAt /\ SegmentsAt
  BY DEF IInv
<1>2. CASE Vary
  BY <1>1, <1>2, VaryTable
<1>3. CASE Select
  BY <1>1, <1>3, SelectTable
<1>4. CASE NextTraj
  BY <1>1, <1>4, NextTrajTable
<1>5. ASSUME selection' = selection /\ trajs' = trajs, pc' # "table" \/ pc' = pc PROVE TableAt'
  BY <1>1, <1>5, TableLeft
<1>6. CASE Replan \/ Sample \/ Assign \/ UNCHANGED vars
  <2>1. selection' = selection /\ trajs' = trajs /\ (pc' = pc \/ pc' = "scan")
    BY <1>6, Zenon DEF Replan, StartInit, Sample, Assign, vars, choice
  <2> QED
    BY <1>5, <2>1
<1>7. CASE FindPaths \/ Assigned
  <2>1. selection' = selection /\ trajs' = trajs /\ (pc' = AfterInit \/ pc' = "assign")
    BY <1>7, Zenon DEF FindPaths, Assigned, choice
  <2>2. AfterInit = "vary" \/ AfterInit = "loop"
    BY Zenon DEF AfterInit
  <2> QED
    BY <1>5, <2>1, <2>2
<1>8. CASE Prepare \/ TryAgain \/ SolverFails \/ Converges \/ Loop \/ Refine
  <2>1. /\ selection' = selection /\ trajs' = trajs
        /\ pc' \in {"evaluate", "loop", "verdict", "prepare", "next", "idle"}
    BY <1>8, Zenon DEF Prepare, TryAgain, SolverFails, Converges, Loop, Refine, choice
  <2> QED
    BY <1>5, <2>1
<1>9. CASE SwarmVerdict \/ CurveVerdict
  <2>1. selection' = selection /\ trajs' = trajs /\ pc' \in {"scan", "loop", "next"}
    BY <1>9, Zenon DEF SwarmVerdict, CurveVerdict, Restart, StartInit, choice
  <2> QED
    BY <1>5, <2>1
<1>10. ASSUME NEW smooth \in BOOLEAN, Evaluate(smooth) PROVE TableAt'
  <2>1. selection' = selection /\ trajs' = trajs /\ pc' = "trial"
    BY <1>10, Zenon DEF Evaluate, choice
  <2> QED
    BY <1>5, <2>1
<1> QED
  BY <1>2, <1>3, <1>4, <1>6, <1>7, <1>8, <1>9, <1>10 DEF Next, Step

-----------------------------------------------------------------------------
(* The theorems.                                                           *)

LEMMA InitInv == Init => IInv
<1> SUFFICES ASSUME Init PROVE IInv
  OBVIOUS
<1>1. ScanAt /\ SegmentsAt /\ BasesAt
  BY ScanInit, SegmentsInit
<1>2. Phases
  BY Zenon DEF Init, Phases
<1>3. CountsAt
  <2>1. /\ restart_nums = 0 /\ rebound_times = 0 /\ iter_num_ = 0 /\ pc = "idle"
    BY DEF Init
  <2>2. /\ 0 \in 0 .. MAX_RESART_NUMS_SET /\ 0 \in 0 .. MAX_REBOUNDS + 1 /\ 0 \in 0 .. MaxEvaluations
        /\ 0 # MAX_RESART_NUMS_SET
    BY Limits
  <2>3. pc \notin {"evaluate", "trial", "verdict"} /\ pc # "evaluate"
    BY <2>1
  <2> QED
    BY <2>1, <2>2, <2>3, Zenon DEF CountsAt
<1>4. SolverAt
  BY Zenon DEF Init, SolverAt
<1>5. TableAt
  <2>1. selection = <<>> /\ trajs = <<>> /\ pc # "table"
    BY DEF Init
  <2>2. DOMAIN trajs = {} /\ <<>> \in Seq({-1, 0, 1}) /\ <<>> \in Seq(Seq({0, 1}))
    BY <2>1, EmptySeq
  <2>3. \A j, k \in DOMAIN trajs : trajs[j] = trajs[k] => j = k
    BY <2>2
  <2> QED
    BY <2>1, <2>2, <2>3, Zenon DEF TableAt
<1> QED
  BY <1>1, <1>2, <1>3, <1>4, <1>5 DEF IInv

LEMMA NextInv == IInv /\ [Next]_vars => IInv'
<1> SUFFICES ASSUME IInv, [Next]_vars PROVE IInv'
  OBVIOUS
<1>1. ScanAt'
  BY ScanNext DEF IInv
<1>2. SegmentsAt' /\ BasesAt'
  BY SegmentsNext
<1>3. Phases' /\ CountsAt' /\ SolverAt' /\ TableAt'
  BY PhasesNext, CountsNext, SolverNext, TableNext
<1> QED
  BY <1>1, <1>2, <1>3 DEF IInv

LEMMA AlwaysIInv == Spec => []IInv
  BY InitInv, NextInv, PTL DEF Spec

(* The state is of its type.                                               *)
LEMMA InvTyped == IInv => TypeOK
<1> SUFFICES ASSUME IInv PROVE TypeOK
  OBVIOUS
<1>1. /\ scan.i \in order_ .. i_end + 1 /\ scan.same \in 0 .. ENOUGH_INTERVAL + 1
      /\ scan.hit \subseteq order_ .. i_end
  <2>1. scan.same \in 0 .. ENOUGH_INTERVAL + 1
    BY DEF IInv, ScanAt, ScanOK, ScanRecord
  <2> QED
    BY <2>1 DEF IInv, ScanAt
<1>2. scan.segs \in Segs
  BY ScannedSegments DEF IInv
<1> QED
  BY <1>1, <1>2, Zenon DEF TypeOK, IInv, Phases, SegmentsAt, BasesAt, CountsAt, SolverAt, TableAt

(* TypeOK: the state is well formed, whatever the solver, the obstacles    *)
(* and the other drones do.                                                *)
THEOREM TypeCorrect == Spec => []TypeOK
  BY AlwaysIInv, InvTyped, PTL

(* SegmentsReady: the adjusted segments share no control point, and those  *)
(* distinctiveTrajs is given have all their base points.                   *)
THEOREM SegmentsAreReady == Spec => []SegmentsReady
<1>1. IInv => SegmentsReady
  <2> SUFFICES ASSUME IInv PROVE SegmentsReady
    OBVIOUS
  <2>1. TypeOK
    BY InvTyped
  <2>2. \A segs \in {adjusted_segment_ids, final_segment_ids} :
          \A j, k \in DOMAIN segs : j < k => segs[j][2] < segs[k][1]
    BY DEF IInv, SegmentsAt, Apart
  <2>3. \A k \in DOMAIN final_segment_ids : Whole(final_segment_ids[k]) \subseteq based
    BY DEF IInv, BasesAt
  <2> QED
    BY <2>1, <2>2, <2>3 DEF SegmentsReady
<1> QED
  BY <1>1, AlwaysIInv, PTL

(* EveryChoiceOnce: the table is complete when it is left, and no choice   *)
(* of sides is in it twice.                                                *)
THEOREM TableComplete == Spec => []EveryChoiceOnce
<1>1. IInv => EveryChoiceOnce
  <2> SUFFICES ASSUME IInv PROVE EveryChoiceOnce
    OBVIOUS
  <2>1. \A j, k \in DOMAIN trajs : trajs[j] = trajs[k] => j = k
    BY DEF IInv, TableAt
  <2>2. ASSUME pc = "table", Len(trajs) = max_traj_nums
        PROVE  {trajs[k] : k \in DOMAIN trajs} = [DOMAIN selection -> {0, 1}]
    <3> DEFINE n == Len(selection)
               m == Len(trajs)
    <3>1. Counting(selection, trajs) /\ trajs \in Seq(Seq({0, 1})) /\ selection \in Seq({-1, 0, 1})
      BY <2>2 DEF IInv, TableAt
    <3>2. DOMAIN trajs = 1 .. m /\ m \in Nat /\ DOMAIN selection = 1 .. n /\ n \in 1 .. 3
      <4>1. n \in 1 .. 3
        BY <3>1 DEF Counting, MAX_SEGMENTS
      <4> QED
        BY <3>1, <4>1, LenProperties
    <3>3. m = <<2, 4, 8>>[n]
      BY <2>2, Zenon DEF max_traj_nums
    <3>4. \A k \in 1 .. m : trajs[k] \in [1 .. n -> {0, 1}] /\ Value(trajs[k]) = k - 1
      BY <3>1 DEF Counting
    <3> HIDE DEF n, m
    <3>5. ASSUME NEW f \in [1 .. n -> {0, 1}] PROVE \E k \in 1 .. m : f = trajs[k]
      <4>1. Value(f) \in 0 .. m - 1 /\ \A g \in [1 .. n -> {0, 1}] : Value(f) = Value(g) => f = g
        BY <3>2, <3>3, ValueTells
      <4>2. PICK k \in 1 .. m : k = Value(f) + 1
        BY <3>2, <4>1
      <4>3. Value(trajs[k]) = Value(f) /\ trajs[k] \in [1 .. n -> {0, 1}]
        BY <3>4, <4>1, <4>2
      <4> QED
        BY <4>1, <4>3
    <3> QED
      BY <3>2, <3>4, <3>5
  <2> QED
    BY <2>1, <2>2 DEF EveryChoiceOnce
<1> QED
  BY <1>1, AlwaysIInv, PTL
-----------------------------------------------------------------------------
(* Why a call comes to its end.                                            *)

(* What a call still has to do, most important first: the parts of it; in  *)
(* the part that optimises, the restarts and rebounds a trajectory has     *)
(* left, the stage of the try that runs, and the rounds of that stage.     *)
PartsOf(p, first, n) ==
  CASE p = "idle"            -> 0
    [] p = "refine"          -> 1
    [] p = "table"           -> 11
    [] p = "vary"            -> 12
    [] p = "assign" /\ first -> 13
    [] p = "scan" /\ first   -> 14
    [] OTHER                 -> 2 + n

PartsLeft == PartsOf(pc, flag_first_init, Len(trajs))

TriesLeft == (MAX_RESART_NUMS_SET - restart_nums) + (MAX_REBOUNDS + 1 - rebound_times)

StageOf(p, again) ==
  CASE p = "scan"                  -> 11
    [] p = "assign"                -> 10
    [] p = "loop" /\ again         -> 9
    [] p = "prepare"               -> 8
    [] p \in {"evaluate", "trial"} -> 7
    [] p = "verdict"               -> 6
    [] p = "loop" /\ ~again        -> 1
    [] OTHER                       -> 0

StageLeft == StageOf(pc, Again)

RoundsLeft ==
  CASE pc = "scan"     -> i_end + 1 - scan.i
    [] pc = "assign"   -> Len(segment_ids)
    [] pc = "table"    -> max_traj_nums - Len(trajs)
    [] pc = "evaluate" -> 2 * (MaxEvaluations - iter_num_) + 1
    [] pc = "trial"    -> 2 * (MaxEvaluations - iter_num_) + 2
    [] OTHER           -> 0

LessIsLeft ==
  \/ PartsLeft' < PartsLeft
  \/ /\ PartsLeft' = PartsLeft
     /\ \/ TriesLeft' < TriesLeft
        \/ /\ TriesLeft' = TriesLeft
           /\ \/ StageLeft' < StageLeft
              \/ StageLeft' = StageLeft /\ RoundsLeft' < RoundsLeft

LEMMA PartsAre ==
  ASSUME NEW p, NEW first, NEW n \in Nat
  PROVE  /\ p = "idle" => PartsOf(p, first, n) = 0
         /\ p = "refine" => PartsOf(p, first, n) = 1
         /\ p = "table" => PartsOf(p, first, n) = 11
         /\ p = "vary" => PartsOf(p, first, n) = 12
         /\ p = "assign" /\ first => PartsOf(p, first, n) = 13
         /\ p = "scan" /\ first => PartsOf(p, first, n) = 14
         /\ p \in {"assign", "scan"} /\ ~first => PartsOf(p, first, n) = 2 + n
         /\ p \in {"prepare", "evaluate", "trial", "verdict", "loop", "next"} => PartsOf(p, first, n) = 2 + n
         /\ PartsOf(p, first, n) \in Nat
  BY DEF PartsOf

LEMMA StagesAre ==
  ASSUME NEW p, NEW again
  PROVE  /\ p = "scan" => StageOf(p, again) = 11
         /\ p = "assign" => StageOf(p, again) = 10
         /\ p = "loop" /\ again => StageOf(p, again) = 9
         /\ p = "prepare" => StageOf(p, again) = 8
         /\ p \in {"evaluate", "trial"} => StageOf(p, again) = 7
         /\ p = "verdict" => StageOf(p, again) = 6
         /\ p = "loop" /\ ~again => StageOf(p, again) = 1
         /\ p = "next" => StageOf(p, again) = 0
         /\ StageOf(p, again) \in Nat /\ StageOf(p, again) <= 11
  BY DEF StageOf

LEMMA RoundsAre ==
  /\ pc = "scan" => RoundsLeft = i_end + 1 - scan.i
  /\ pc = "assign" => RoundsLeft = Len(segment_ids)
  /\ pc = "table" => RoundsLeft = max_traj_nums - Len(trajs)
  /\ pc = "evaluate" => RoundsLeft = 2 * (MaxEvaluations - iter_num_) + 1
  /\ pc = "trial" => RoundsLeft = 2 * (MaxEvaluations - iter_num_) + 2
  /\ pc \notin {"scan", "assign", "table", "evaluate", "trial"} => RoundsLeft = 0
  BY DEF RoundsLeft

LEMMA LeftIsNatural ==
  ASSUME IInv
  PROVE  /\ PartsLeft \in Nat /\ TriesLeft \in Nat /\ StageLeft \in Nat /\ RoundsLeft \in Nat
         /\ Len(trajs) \in Nat /\ restart_nums \in Nat /\ rebound_times \in Nat /\ iter_num_ \in Nat
<1>1. trajs \in Seq(Seq({0, 1})) /\ segment_ids \in Segs
  BY DEF IInv, TableAt, SegmentsAt
<1>2. Len(trajs) \in Nat /\ Len(segment_ids) \in Nat
  BY <1>1, LenProperties DEF Segs
<1>3. /\ restart_nums \in 0 .. MAX_RESART_NUMS_SET /\ rebound_times \in 0 .. MAX_REBOUNDS + 1
      /\ iter_num_ \in 0 .. MaxEvaluations
  BY DEF IInv, CountsAt
<1>4. PartsLeft \in Nat
  BY <1>2, PartsAre DEF PartsLeft
<1>5. StageLeft \in Nat
  BY StagesAre DEF StageLeft
<1>6. TriesLeft \in Nat
  BY <1>3, Limits DEF TriesLeft
<1>7. RoundsLeft \in Nat
  <2>1. CASE pc = "scan"
    <3>1. scan.i \in order_ .. i_end + 1 /\ i_end \in Nat /\ order_ \in Nat
      BY EndOfScan DEF IInv, ScanAt, order_
    <3>2. i_end + 1 - scan.i \in Nat
      BY <3>1
    <3> QED
      BY <2>1, <3>2, RoundsAre
  <2>2. CASE pc = "assign"
    BY <1>2, <2>2, RoundsAre
  <2>3. CASE pc = "table"
    <3>1. Counting(selection, trajs)
      BY <2>3 DEF IInv, TableAt
    <3>2. Len(selection) \in 1 .. 3 /\ Len(trajs) <= max_traj_nums
      BY <3>1 DEF Counting, MAX_SEGMENTS, max_traj_nums
    <3>3. max_traj_nums \in Nat
      BY <3>2, FullIs, Zenon DEF max_traj_nums
    <3>4. max_traj_nums - Len(trajs) \in Nat
      <4> HIDE DEF max_traj_nums
      <4> QED
        BY <1>2, <3>2, <3>3
    <3> QED
      BY <2>3, <3>4, RoundsAre
  <2>4. CASE pc = "evaluate" \/ pc = "trial"
    <3>1. MaxEvaluations - iter_num_ \in Nat
      BY <1>3, Limits
    <3> QED
      BY <2>4, <3>1, RoundsAre
  <2>5. CASE pc \notin {"scan", "assign", "table", "evaluate", "trial"}
    BY <2>5, RoundsAre
  <2> QED
    BY <2>1, <2>2, <2>3, <2>4, <2>5
<1> QED
  BY <1>2, <1>3, <1>4, <1>5, <1>6, <1>7

(* Until the curve is checked, no obstacle was found on it in this try.    *)
CurveUnchecked == pc \in {"evaluate", "trial", "verdict"} => ~flag_occ

LEMMA UncheckedNext == CurveUnchecked /\ [Next]_vars => CurveUnchecked'
<1> SUFFICES ASSUME CurveUnchecked, [Next]_vars PROVE CurveUnchecked'
  OBVIOUS
<1>1. CASE Prepare
  <2>1. flag_occ' = FALSE
    BY <1>1, Zenon DEF Prepare
  <2> QED
    BY <2>1, Zenon DEF CurveUnchecked
<1>2. CASE TryAgain \/ Converges \/ Sample \/ Assign \/ UNCHANGED vars
  <2>1. flag_occ' = flag_occ /\ (pc' \in {"evaluate", "trial", "verdict"} => pc \in {"evaluate", "trial", "verdict"})
    BY <1>2, Zenon DEF TryAgain, Converges, Sample, Assign, flags, vars
  <2> QED
    BY <2>1, Zenon DEF CurveUnchecked
<1>3. ASSUME NEW smooth \in BOOLEAN, Evaluate(smooth) PROVE CurveUnchecked'
  <2>1. flag_occ' = flag_occ /\ pc = "evaluate"
    BY <1>3, Zenon DEF Evaluate, flags
  <2>2. pc \in {"evaluate", "trial", "verdict"}
    BY <2>1
  <2> QED
    BY <2>1, <2>2, Zenon DEF CurveUnchecked
<1>4. ASSUME pc' \in {"scan", "assign", "vary", "table", "prepare", "loop", "next", "refine", "idle"}
      PROVE  CurveUnchecked'
  <2>1. pc' \notin {"evaluate", "trial", "verdict"}
    BY <1>4
  <2> QED
    BY <2>1, Zenon DEF CurveUnchecked
<1>5. CASE Replan
  <2>1. pc' = "scan" \/ (pc' = pc /\ pc = "idle")
    BY <1>5, Zenon DEF Replan, StartInit
  <2> QED
    BY <1>4, <2>1
<1>6. CASE FindPaths \/ Assigned \/ Vary \/ Select
  <2>1. pc' \in {"assign", AfterInit, "prepare", "next", "table"} \/ (pc' = pc /\ pc = "table")
    BY <1>6, Zenon DEF FindPaths, Assigned, Vary, Select, StartOptimizing
  <2>2. AfterInit = "vary" \/ AfterInit = "loop"
    BY Zenon DEF AfterInit
  <2> QED
    BY <1>4, <2>1, <2>2
<1>7. CASE SolverFails \/ SwarmVerdict \/ CurveVerdict \/ Loop \/ NextTraj \/ Refine
  <2>1. pc' \in {"loop", "scan", "next", "prepare", "refine", "idle"}
    BY <1>7, Zenon DEF SolverFails, SwarmVerdict, CurveVerdict, Restart, StartInit, Loop, NextTraj,
         StartOptimizing, Refine
  <2> QED
    BY <1>4, <2>1
<1> QED
  BY <1>1, <1>2, <1>3, <1>5, <1>6, <1>7, Zenon DEF Next, Step

-----------------------------------------------------------------------------
(* Each step leaves less to do.                                            *)

OfATrajectory(p, first) ==
  \/ p \in {"prepare", "evaluate", "trial", "verdict", "loop", "next"}
  \/ p \in {"scan", "assign"} /\ ~first

LEMMA PartKept ==
  ASSUME Len(trajs) \in Nat, trajs' = trajs,
         OfATrajectory(pc, flag_first_init), OfATrajectory(pc', flag_first_init')
  PROVE  PartsLeft' = PartsLeft
<1>1. PartsOf(pc, flag_first_init, Len(trajs)) = 2 + Len(trajs)
  BY PartsAre DEF OfATrajectory
<1>2. PartsOf(pc', flag_first_init', Len(trajs)) = 2 + Len(trajs)
  BY PartsAre DEF OfATrajectory
<1> QED
  BY <1>1, <1>2 DEF PartsLeft

LEMMA TriesKept ==
  ASSUME restart_nums' = restart_nums, rebound_times' = rebound_times
  PROVE  TriesLeft' = TriesLeft
  BY DEF TriesLeft

LEMMA FewerParts ==
  ASSUME NEW n, PartsLeft = n, PartsLeft' < n PROVE LessIsLeft
  BY DEF LessIsLeft

LEMMA SmallerStage ==
  ASSUME PartsLeft' = PartsLeft, TriesLeft' = TriesLeft, StageLeft' < StageLeft PROVE LessIsLeft
  BY DEF LessIsLeft

(* initControlPoints.                                                      *)
LEMMA ScanLeadsOn ==
  ASSUME IInv, Sample
  PROVE  LessIsLeft
<1>1. /\ pc = "scan" /\ pc' = "scan" /\ flag_first_init' = flag_first_init /\ trajs' = trajs
      /\ restart_nums' = restart_nums /\ rebound_times' = rebound_times
  BY DEF Sample, mode, choice, counts
<1>2. PartsLeft' = PartsLeft /\ TriesLeft' = TriesLeft
  BY <1>1, TriesKept DEF PartsLeft
<1>3. StageLeft = 11 /\ StageLeft' = 11
  BY <1>1, StagesAre DEF StageLeft
<1>4. scan'.i = scan.i + 1 /\ scan.i \in Int
  <2>1. PICK line \in Lines : scan' = [Line(line) EXCEPT !.i = scan.i + 1]
    BY DEF Sample
  <2>2. line \in [1 .. Samples -> BOOLEAN]
    BY <2>1, InputAssumption
  <2>3. scan.i \in order_ .. i_end
    BY EndOfScan DEF Sample, IInv, ScanAt
  <2>4. ScanOK(Line(line))
    BY <2>2, <2>3, LineKeeps DEF IInv, ScanAt
  <2>5. Line(line) \in ScanRecord
    BY <2>4 DEF ScanOK
  <2> QED
    BY <2>1, <2>3, <2>5 DEF ScanRecord
<1>5. RoundsLeft = i_end + 1 - scan.i /\ RoundsLeft' = i_end + 1 - scan'.i
  <2>1. i_end' = i_end
    BY DEF i_end, order_
  <2>2. RoundsLeft' = (i_end + 1 - scan.i)'
    BY <1>1 DEF RoundsLeft
  <2> QED
    BY <1>1, <2>1, <2>2, RoundsAre
<1>6. RoundsLeft' < RoundsLeft
  <2>1. i_end \in Int
    BY EndOfScan
  <2> QED
    BY <1>4, <1>5, <2>1
<1> QED
  BY <1>2, <1>3, <1>6 DEF LessIsLeft

LEMMA AfterScanLeadsOn ==
  ASSUME IInv, FindPaths \/ Assigned
  PROVE  LessIsLeft
<1>1. (pc = "scan" /\ (pc' = "assign" \/ pc' = AfterInit)) \/ (pc = "assign" /\ pc' = AfterInit)
  BY Zenon DEF FindPaths, Assigned
<1>2. flag_first_init' = flag_first_init /\ trajs' = trajs
      /\ restart_nums' = restart_nums /\ rebound_times' = rebound_times
  BY Zenon DEF FindPaths, Assigned, mode, choice, counts
<1>3. Len(trajs) \in Nat /\ Len(trajs') \in Nat
  BY <1>2, LeftIsNatural
<1>4. CASE flag_first_init
  <2>1. AfterInit = "vary"
    BY <1>4 DEF AfterInit
  <2>2. PartsLeft = IF pc = "scan" THEN 14 ELSE 13
    BY <1>1, <1>3, <1>4, PartsAre DEF PartsLeft
  <2>3. PartsLeft' = IF pc' = "assign" THEN 13 ELSE 12
    BY <1>1, <1>2, <1>3, <1>4, <2>1, PartsAre DEF PartsLeft
  <2> QED
    BY <1>1, <2>1, <2>2, <2>3 DEF LessIsLeft
<1>5. CASE ~flag_first_init
  <2>1. AfterInit = "loop"
    BY <1>5 DEF AfterInit
  <2>2. OfATrajectory(pc, flag_first_init) /\ OfATrajectory(pc', flag_first_init')
    BY <1>1, <1>2, <1>5, <2>1 DEF OfATrajectory
  <2>3. PartsLeft' = PartsLeft /\ TriesLeft' = TriesLeft
    BY <1>2, <1>3, <2>2, PartKept, TriesKept
  <2>4. StageLeft = IF pc = "scan" THEN 11 ELSE 10
    BY <1>1, StagesAre DEF StageLeft
  <2>5. \/ StageLeft' = 10 /\ pc' = "assign"
        \/ StageLeft' \in {9, 1} /\ pc' = "loop"
    <3>1. CASE pc' = "assign"
      <4>1. StageOf(pc', Again') = 10
        BY <3>1, StagesAre
      <4>2. StageLeft' = 10
        BY <4>1, Zenon DEF StageLeft
      <4> QED
        BY <3>1, <4>2, Zenon
    <3>2. CASE pc' = "loop"
      <4>1. StageOf(pc', Again') \in {9, 1}
        BY <3>2, StagesAre
      <4>2. StageLeft' \in {9, 1}
        BY <4>1, Zenon DEF StageLeft
      <4> QED
        BY <3>2, <4>2, Zenon
    <3> QED
      BY <1>1, <2>1, <3>1, <3>2
  <2>6. StageLeft' < StageLeft
    <3>1. "assign" # "scan" /\ "loop" # "assign"
      OBVIOUS
    <3> QED
      BY <1>1, <2>1, <2>4, <2>5
  <2> QED
    BY <2>3, <2>6, SmallerStage
<1> QED
  BY <1>4, <1>5

LEMMA AssignLeadsOn ==
  ASSUME IInv, Assign
  PROVE  LessIsLeft
<1>1. /\ pc = "assign" /\ pc' = "assign" /\ flag_first_init' = flag_first_init /\ trajs' = trajs
      /\ restart_nums' = restart_nums /\ rebound_times' = rebound_times
      /\ segment_ids # <<>> /\ segment_ids' = Tail(segment_ids)
  BY DEF Assign, mode, choice, counts
<1>2. PartsLeft' = PartsLeft /\ TriesLeft' = TriesLeft
  BY <1>1, TriesKept DEF PartsLeft
<1>3. StageLeft = 10 /\ StageLeft' = 10
  BY <1>1, StagesAre DEF StageLeft
<1>4. Len(segment_ids) \in Nat /\ Len(segment_ids') = Len(segment_ids) - 1
  <2>1. segment_ids \in Segs
    BY DEF IInv, SegmentsAt
  <2> QED
    BY <1>1, <2>1, TailApart, LenProperties DEF Segs
<1>5. RoundsLeft = Len(segment_ids) /\ RoundsLeft' = Len(segment_ids')
  BY <1>1, RoundsAre DEF RoundsLeft
<1> QED
  BY <1>2, <1>3, <1>4, <1>5 DEF LessIsLeft

(* distinctiveTrajs.                                                       *)
LEMMA VaryLeadsOn ==
  ASSUME IInv, Vary
  PROVE  LessIsLeft
<1>1. PartsLeft = 12
  <2>1. pc = "vary" /\ Len(trajs) \in Nat
    BY LeftIsNatural DEF Vary
  <2> QED
    BY <2>1, PartsAre DEF PartsLeft
<1>2. \/ pc' = "prepare" /\ trajs' = <<<<>>>>
      \/ pc' = "next" /\ trajs' = <<>>
      \/ pc' = "table" /\ trajs' = <<>>
  BY Zenon DEF Vary, StartOptimizing
<1>3. Len(<<<<>>>>) = 1 /\ Len(<<>>) = 0
  OBVIOUS
<1>4. Len(trajs') \in 0 .. 1 /\ pc' \in {"prepare", "next", "table"}
  BY <1>2, <1>3
<1>5. PartsOf(pc', flag_first_init', Len(trajs')) \in {2, 3, 11}
  <2>1. PICK n \in 0 .. 1 : n = Len(trajs')
    BY <1>4
  <2>2. PartsOf(pc', flag_first_init', n) \in {2 + n, 11}
    BY <1>4, PartsAre
  <2>3. 2 + n \in {2, 3}
    OBVIOUS
  <2> QED
    BY <2>1, <2>2, <2>3
<1> QED
  BY <1>1, <1>5, FewerParts DEF PartsLeft

LEMMA SelectLeadsOn ==
  ASSUME IInv, Select
  PROVE  LessIsLeft
<1>1. pc = "table" /\ Len(trajs) \in Nat /\ Counting(selection, trajs) /\ trajs \in Seq(Seq({0, 1}))
  BY LeftIsNatural DEF Select, IInv, TableAt
<1>2. Len(selection) \in 1 .. 3 /\ Len(trajs) <= max_traj_nums
  BY <1>1 DEF Counting, MAX_SEGMENTS, max_traj_nums
<1>3. max_traj_nums \in {2, 4, 8}
  <2>1. \A n \in 1 .. 3 : <<2, 4, 8>>[n] \in {2, 4, 8}
    OBVIOUS
  <2> QED
    BY <1>2, <2>1, Zenon DEF max_traj_nums
<1>4. PartsLeft = 11
  BY <1>1, PartsAre DEF PartsLeft
<1>5. CASE Len(trajs) < max_traj_nums
  <2>1. /\ pc' = pc /\ restart_nums' = restart_nums /\ rebound_times' = rebound_times
        /\ selection' = OneUp(selection) /\ trajs' = Append(trajs, selection')
    BY <1>5, Zenon DEF Select, counts
  <2>2. Len(trajs) < <<2, 4, 8>>[Len(selection)]
    BY <1>5, Zenon DEF max_traj_nums
  <2>3. /\ selection' \in Seq({-1, 0, 1}) /\ trajs' \in Seq(Seq({0, 1})) /\ Counting(selection', trajs')
    BY <1>1, <2>1, <2>2, RowAdded
  <2>4. Len(trajs') = Len(trajs) + 1
    <3>1. trajs' \in Seq(Seq({0, 1}))
      BY <2>3
    <3>2. Len(Append(trajs, selection')) = Len(trajs) + 1
      BY <1>1
    <3> QED
      BY <2>1, <3>2
  <2>5. Len(selection') = Len(selection)
    <3>1. OneUp(selection) = [d \in DOMAIN selection |-> OneUp(selection)[d]]
      BY Zenon DEF OneUp
    <3>2. DOMAIN OneUp(selection) = DOMAIN selection
      BY Zenon DEF OneUp
    <3>3. selection' \in Seq({-1, 0, 1}) /\ selection \in Seq({-1, 0, 1})
      BY <2>3 DEF IInv, TableAt
    <3>4. 1 .. Len(selection') = 1 .. Len(selection) /\ Len(selection') \in Nat /\ Len(selection) \in Nat
      BY <2>1, <3>2, <3>3, LenProperties
    <3> QED
      BY <1>2, <3>4
  <2>6. RoundsLeft = max_traj_nums - Len(trajs) /\ RoundsLeft' = max_traj_nums - Len(trajs')
    <3>1. pc' = "table"
      BY <1>1, <2>1
    <3>2. RoundsLeft' = (max_traj_nums - Len(trajs))'
      BY <3>1 DEF RoundsLeft
    <3>3. max_traj_nums' = max_traj_nums
      BY <2>5 DEF max_traj_nums
    <3> QED
      BY <1>1, <3>2, <3>3, RoundsAre
  <2>7. PartsLeft' = PartsLeft /\ TriesLeft' = TriesLeft /\ StageLeft' = StageLeft
    <3>1. PartsOf(pc', flag_first_init', Len(trajs')) = 11
      BY <1>1, <2>1, <2>4, PartsAre
    <3>2. StageOf("table", Again) = 0 /\ StageOf("table", Again') = 0
      BY DEF StageOf
    <3> QED
      BY <1>1, <1>4, <2>1, <3>1, <3>2, TriesKept DEF PartsLeft, StageLeft
  <2>8. RoundsLeft' < RoundsLeft
    <3> HIDE DEF max_traj_nums
    <3> QED
      BY <1>1, <1>3, <2>4, <2>6
  <2> QED
    BY <2>7, <2>8 DEF LessIsLeft
<1>6. CASE ~(Len(trajs) < max_traj_nums)
  <2>1. pc' = "prepare" /\ trajs' = trajs
    BY <1>6, Zenon DEF Select, StartOptimizing
  <2>2. PartsOf(pc', flag_first_init', Len(trajs')) = 2 + Len(trajs)
    BY <1>1, <2>1, PartsAre
  <2>3. 2 + Len(trajs) < 11
    <3> HIDE DEF max_traj_nums
    <3> QED
      BY <1>1, <1>2, <1>3
  <2> QED
    BY <1>4, <2>2, <2>3, FewerParts DEF PartsLeft
<1> QED
  BY <1>5, <1>6

(* The solver.                                                             *)
LEMMA EvaluateLeadsOn ==
  ASSUME IInv, Prepare \/ (\E smooth \in BOOLEAN : Evaluate(smooth)) \/ Converges
  PROVE  LessIsLeft
<1>1. /\ trajs' = trajs /\ flag_first_init' = flag_first_init
      /\ restart_nums' = restart_nums /\ rebound_times' = rebound_times
  BY Zenon DEF Prepare, Evaluate, Converges, mode, choice, counts
<1>2. \/ pc = "prepare" /\ pc' = "evaluate"
      \/ pc = "evaluate" /\ pc' = "trial" /\ iter_num_' = iter_num_ + 1
      \/ pc = "trial" /\ pc' = "verdict"
  BY Zenon DEF Prepare, Evaluate, Converges
<1>3. PartsLeft' = PartsLeft /\ TriesLeft' = TriesLeft
  <2>1. OfATrajectory(pc, flag_first_init) /\ OfATrajectory(pc', flag_first_init')
    BY <1>2 DEF OfATrajectory
  <2> QED
    BY <1>1, <2>1, LeftIsNatural, PartKept, TriesKept
<1>4. CASE pc = "prepare" /\ pc' = "evaluate"
  <2>1. StageLeft = 8 /\ StageLeft' = 7
    BY <1>4, StagesAre DEF StageLeft
  <2> QED
    BY <1>3, <2>1, SmallerStage
<1>5. CASE pc = "evaluate" /\ pc' = "trial" /\ iter_num_' = iter_num_ + 1
  <2>1. StageLeft = 7 /\ StageLeft' = 7
    BY <1>5, StagesAre DEF StageLeft
  <2>2. RoundsLeft = 2 * (MaxEvaluations - iter_num_) + 1
    BY <1>5, RoundsAre
  <2>3. RoundsLeft' = 2 * (MaxEvaluations - iter_num_') + 2
    BY <1>5 DEF RoundsLeft
  <2>4. iter_num_ \in Nat /\ MaxEvaluations \in Nat
    BY LeftIsNatural, Limits
  <2>5. RoundsLeft' < RoundsLeft
    BY <1>5, <2>2, <2>3, <2>4
  <2> QED
    BY <1>3, <2>1, <2>5 DEF LessIsLeft
<1>6. CASE pc = "trial" /\ pc' = "verdict"
  <2>1. StageLeft = 7 /\ StageLeft' = 6
    BY <1>6, StagesAre DEF StageLeft
  <2> QED
    BY <1>3, <2>1, SmallerStage
<1> QED
  BY <1>2, <1>4, <1>5, <1>6

(* A try that is over, where no other is to follow.                        *)
LEMMA OverLeadsOn ==
  ASSUME PartsLeft' = PartsLeft, TriesLeft' = TriesLeft, pc \in {"trial", "verdict"},
         pc' = "loop", ~Again'
  PROVE  LessIsLeft
<1>1. StageLeft \in {7, 6}
  BY StagesAre DEF StageLeft
<1>2. StageOf(pc', Again') = 1
  BY StagesAre
<1>3. StageLeft' = 1
  BY <1>2, Zenon DEF StageLeft
<1> QED
  BY <1>1, <1>3, SmallerStage

(* A solver that is stopped has used up a rebound, or is not started again *)
(* unless another drone is too close; nor is one that fails.               *)
LEMMA TrialLeadsOn ==
  ASSUME IInv, CurveUnchecked, TryAgain \/ SolverFails
  PROVE  LessIsLeft \/ GivesUp'
<1>1. /\ pc = "trial" /\ trajs' = trajs /\ flag_first_init' = flag_first_init
      /\ restart_nums' = restart_nums /\ min_ellip_dist_' = min_ellip_dist_ /\ flag_occ' = flag_occ
      /\ iter_num_' = iter_num_
  BY Zenon DEF TryAgain, SolverFails, mode, choice, counts, flags
<1>2. ~flag_occ' /\ ~flag_force_return
  <2>1. pc \in {"evaluate", "trial", "verdict"}
    BY <1>1
  <2> QED
    BY <1>1, <2>1, Zenon DEF IInv, CountsAt, CurveUnchecked
<1>3. /\ pc' \in {"evaluate", "loop"}
  BY Zenon DEF TryAgain, SolverFails
<1>4. PartsLeft' = PartsLeft
  <2>1. OfATrajectory(pc, flag_first_init) /\ OfATrajectory(pc', flag_first_init')
    BY <1>1, <1>3 DEF OfATrajectory
  <2> QED
    BY <1>1, <2>1, LeftIsNatural, PartKept
<1>5. CASE pc' = "evaluate"
  <2>1. rebound_times' = rebound_times
    <3>1. pc' # "loop"
      BY <1>5
    <3> QED
      BY <3>1, Zenon DEF TryAgain, SolverFails
  <2>2. StageLeft = 7 /\ StageLeft' = 7
    BY <1>1, <1>5, StagesAre DEF StageLeft
  <2>3. RoundsLeft = 2 * (MaxEvaluations - iter_num_) + 2
    BY <1>1, RoundsAre
  <2>4. RoundsLeft' = 2 * (MaxEvaluations - iter_num_) + 1
    BY <1>1, <1>5 DEF RoundsLeft
  <2>5. RoundsLeft' < RoundsLeft
    <3>1. iter_num_ \in Nat /\ MaxEvaluations \in Nat
      BY LeftIsNatural, Limits
    <3> QED
      BY <2>3, <2>4, <3>1
  <2> QED
    BY <1>1, <1>4, <2>1, <2>2, <2>5, TriesKept DEF LessIsLeft
<1>6. CASE pc' = "loop"
  <2>1. pc' # "evaluate"
    BY <1>6
  <2>2. result' \in {"error", "canceled"}
    BY <2>1, Zenon DEF TryAgain, SolverFails
  <2>3. \/ flag_force_return' = flag_force_return /\ rebound_times' = rebound_times
        \/ rebound_times' = IF rebound_times > MAX_REBOUNDS THEN rebound_times ELSE rebound_times + 1
    BY <2>1, Zenon DEF TryAgain, SolverFails, flags, counts
  <2>4. CASE rebound_times' # rebound_times
    <3>1. rebound_times' = rebound_times + 1
      BY <2>3, <2>4, Zenon
    <3>2. TriesLeft' < TriesLeft
      <4>1. restart_nums \in Nat /\ rebound_times \in Nat
        BY LeftIsNatural
      <4> QED
        BY <1>1, <3>1, <4>1, Limits DEF TriesLeft
    <3> QED
      BY <1>4, <3>2 DEF LessIsLeft
  <2>5. CASE rebound_times' = rebound_times
    <3>1. ~flag_force_return' \/ rebound_times' > MAX_REBOUNDS
      <4>1. CASE flag_force_return' = flag_force_return
        BY <1>2, <4>1
      <4>2. CASE rebound_times' = IF rebound_times > MAX_REBOUNDS THEN rebound_times ELSE rebound_times + 1
        <5>1. rebound_times \in Nat
          BY LeftIsNatural
        <5> QED
          BY <2>5, <4>2, <5>1
      <4> QED
        BY <2>3, <4>1, <4>2
    <3>2. ~(flag_force_return' /\ rebound_times' <= MAX_REBOUNDS)
      <4>1. rebound_times' \in Nat /\ MAX_REBOUNDS \in Nat
        BY <2>5, LeftIsNatural, Limits
      <4>2. rebound_times' > MAX_REBOUNDS => ~(rebound_times' <= MAX_REBOUNDS)
        BY <4>1
      <4> QED
        BY <3>1, <4>2, Zenon
    <3>3. CASE SwarmTooClose
      <4>1. SwarmTooClose'
        BY <1>1, <3>3 DEF SwarmTooClose
      <4> QED
        BY <1>6, <2>2, <4>1, Zenon DEF GivesUp
    <3>4. CASE ~SwarmTooClose
      <4>1. ~SwarmTooClose'
        BY <1>1, <3>4 DEF SwarmTooClose
      <4>2. ~Again'
        BY <1>2, <3>2, <4>1, Zenon DEF Again
      <4>3. TriesLeft' = TriesLeft
        BY <1>1, <2>5, TriesKept
      <4> QED
        BY <1>1, <1>4, <1>6, <4>2, <4>3, OverLeadsOn
    <3> QED
      BY <3>3, <3>4
  <2> QED
    BY <2>4, <2>5
<1> QED
  BY <1>3, <1>5, <1>6

(* rebound_optimize after its solver.                                      *)
LEMMA RestartLeadsOn ==
  ASSUME IInv, pc = "verdict", Restart, trajs' = trajs, rebound_times' = rebound_times
  PROVE  LessIsLeft
<1>1. pc' = "scan" /\ flag_first_init' = FALSE /\ restart_nums' = restart_nums + 1
  BY DEF Restart, StartInit
<1>2. PartsLeft' = PartsLeft
  <2>1. OfATrajectory(pc, flag_first_init) /\ OfATrajectory(pc', flag_first_init')
    BY <1>1 DEF OfATrajectory
  <2> QED
    BY <2>1, LeftIsNatural, PartKept
<1>3. TriesLeft' < TriesLeft
  <2>1. restart_nums \in Nat /\ rebound_times \in Nat
    BY LeftIsNatural
  <2> QED
    BY <1>1, <2>1, Limits DEF TriesLeft
<1> QED
  BY <1>2, <1>3 DEF LessIsLeft

LEMMA VerdictLeadsOn ==
  ASSUME IInv, CurveUnchecked, SwarmVerdict \/ CurveVerdict
  PROVE  LessIsLeft
<1>1. /\ pc = "verdict" /\ trajs' = trajs /\ rebound_times' = rebound_times
      /\ flag_force_return' = flag_force_return /\ min_ellip_dist_' = min_ellip_dist_
  BY Zenon DEF SwarmVerdict, CurveVerdict, choice, flags
<1>2. CASE Restart
  BY <1>1, <1>2, RestartLeadsOn
<1>3. CASE CurveVerdict /\ pc' \in {"loop", "next"} /\ restart_nums' = restart_nums /\ flag_occ' = flag_occ
           /\ flag_first_init' = flag_first_init
  <2>1. ~SwarmTooClose' /\ ~flag_occ' /\ ~flag_force_return'
    <3>1. pc \in {"evaluate", "trial", "verdict"}
      BY <1>1
    <3>2. ~SwarmTooClose
      BY <1>3, Zenon DEF CurveVerdict
    <3>3. ~SwarmTooClose'
      BY <1>1, <3>2 DEF SwarmTooClose
    <3> QED
      BY <1>1, <1>3, <3>1, <3>3, Zenon DEF IInv, CountsAt, CurveUnchecked
  <2>2. ~Again'
    BY <2>1, Zenon DEF Again
  <2>3. PartsLeft' = PartsLeft /\ TriesLeft' = TriesLeft
    <3>1. OfATrajectory(pc, flag_first_init) /\ OfATrajectory(pc', flag_first_init')
      BY <1>1, <1>3 DEF OfATrajectory
    <3> QED
      BY <1>1, <1>3, <3>1, LeftIsNatural, PartKept, TriesKept
  <2>4. CASE pc' = "loop"
    BY <1>1, <2>2, <2>3, <2>4, OverLeadsOn
  <2>5. CASE pc' = "next"
    <3>1. StageLeft = 6
      BY <1>1, StagesAre DEF StageLeft
    <3>2. StageLeft' = 0
      BY <2>5, StagesAre DEF StageLeft
    <3> QED
      BY <2>3, <3>1, <3>2, SmallerStage
  <2> QED
    BY <1>3, <2>4, <2>5
<1>4. Restart \/ (CurveVerdict /\ pc' \in {"loop", "next"} /\ restart_nums' = restart_nums /\ flag_occ' = flag_occ
                  /\ flag_first_init' = flag_first_init)
  BY Zenon DEF SwarmVerdict, CurveVerdict
<1> QED
  BY <1>2, <1>3, <1>4

LEMMA LoopLeadsOn ==
  ASSUME IInv, Loop
  PROVE  LessIsLeft
<1>1. /\ pc = "loop" /\ pc' = IF Again THEN "prepare" ELSE "next"
      /\ trajs' = trajs /\ restart_nums' = restart_nums /\ rebound_times' = rebound_times
  BY Zenon DEF Loop, choice, counts
<1>2. PartsLeft' = PartsLeft /\ TriesLeft' = TriesLeft
  <2>1. OfATrajectory(pc, flag_first_init) /\ OfATrajectory(pc', flag_first_init')
    BY <1>1 DEF OfATrajectory
  <2> QED
    BY <1>1, <2>1, LeftIsNatural, PartKept, TriesKept
<1>3. CASE Again
  <2>1. StageLeft = 9
    BY <1>1, <1>3, StagesAre DEF StageLeft
  <2>2. pc' = "prepare"
    BY <1>1, <1>3
  <2>3. StageLeft' = 8
    BY <2>2, StagesAre DEF StageLeft
  <2> QED
    BY <1>2, <2>1, <2>3, SmallerStage
<1>4. CASE ~Again
  <2>1. StageLeft = 1
    BY <1>1, <1>4, StagesAre DEF StageLeft
  <2>2. pc' = "next"
    BY <1>1, <1>4
  <2>3. StageLeft' = 0
    BY <2>2, StagesAre DEF StageLeft
  <2> QED
    BY <1>2, <2>1, <2>3, SmallerStage
<1> QED
  BY <1>3, <1>4

(* reboundReplan, steps 2 and 3.                                           *)
LEMMA NextTrajLeadsOn ==
  ASSUME IInv, NextTraj
  PROVE  LessIsLeft
<1> DEFINE rest == IF trajs = <<>> THEN <<>> ELSE SubSeq(trajs, 1, Len(trajs) - 1)
<1>1. pc = "next" /\ Len(trajs) \in Nat /\ trajs \in Seq(Seq({0, 1}))
  BY LeftIsNatural DEF NextTraj, IInv, TableAt
<1>2. PartsLeft = 2 + Len(trajs)
  BY <1>1, PartsAre DEF PartsLeft
<1>3. \/ rest # <<>> /\ pc' = "prepare" /\ trajs' = rest
      \/ trajs' = <<>> /\ (pc' = "refine" \/ pc' = "idle")
  BY Zenon DEF NextTraj, StartOptimizing
<1>4. CASE trajs' = <<>> /\ (pc' = "refine" \/ pc' = "idle")
  <2>1. Len(trajs') = 0
    BY <1>4
  <2>2. PartsOf(pc', flag_first_init', Len(trajs')) \in {0, 1}
    BY <1>4, <2>1, PartsAre
  <2> QED
    BY <1>1, <1>2, <2>2, FewerParts DEF PartsLeft
<1>5. CASE rest # <<>> /\ pc' = "prepare" /\ trajs' = rest
  <2>1. trajs # <<>> /\ trajs' = SubSeq(trajs, 1, Len(trajs) - 1)
    BY <1>5, Zenon
  <2>2. Len(trajs) > 0
    BY <1>1, <2>1, EmptySeq
  <2>3. Len(SubSeq(trajs, 1, Len(trajs) - 1)) = Len(trajs) - 1
    <3> DEFINE n == Len(trajs)
    <3>1. n \in Nat /\ n > 0 /\ \A i \in 1 .. n : trajs[i] \in Seq({0, 1})
      BY <1>1, <2>2, ElementOfSeq
    <3> HIDE DEF n
    <3>2. n - 1 \in Int /\ 1 \in Int /\ \A i \in 1 .. n - 1 : trajs[i] \in Seq({0, 1})
      BY <3>1
    <3>3. Len(SubSeq(trajs, 1, n - 1)) = IF 1 <= n - 1 THEN n - 1 - 1 + 1 ELSE 0
      BY <3>2, SubSeqProperties
    <3>4. Len(SubSeq(trajs, 1, n - 1)) = n - 1
      BY <3>1, <3>3
    <3> QED
      BY <3>4 DEF n
  <2>4. Len(trajs') = Len(trajs) - 1
    BY <2>1, <2>3, Zenon
  <2>5. Len(trajs') \in Nat
    BY <1>1, <2>2, <2>4
  <2>6. PartsOf(pc', flag_first_init', Len(trajs')) = 2 + Len(trajs')
    BY <1>5, <2>5, PartsAre
  <2>7. PartsLeft' = 2 + Len(trajs')
    BY <2>6, Zenon DEF PartsLeft
  <2> HIDE DEF rest
  <2> QED
    BY <1>1, <1>2, <2>4, <2>5, <2>7 DEF LessIsLeft
<1> QED
  BY <1>3, <1>4, <1>5

LEMMA RefineLeadsOn ==
  ASSUME IInv, Refine
  PROVE  LessIsLeft
<1>1. pc = "refine" /\ pc' = "idle" /\ trajs' = trajs /\ Len(trajs) \in Nat
  BY LeftIsNatural, Zenon DEF Refine, choice
<1>2. PartsLeft = 1
  BY <1>1, PartsAre DEF PartsLeft
<1>3. PartsLeft' = 0
  BY <1>1, PartsAre DEF PartsLeft
<1> QED
  BY <1>2, <1>3 DEF LessIsLeft

(* What is left is counted in natural numbers, and every step of a call    *)
(* leaves less of it, unless, with another drone too close, the solver     *)
(* gave up or was stopped (GivesUp): so a call of reboundReplan() that     *)
(* does not return does this again and again, which is why Returns holds.  *)
THEOREM EveryStepLeadsOn ==
  Spec => /\ [](PartsLeft \in Nat /\ TriesLeft \in Nat /\ StageLeft \in Nat /\ RoundsLeft \in Nat)
          /\ [][Step => LessIsLeft \/ GivesUp']_vars
<1>1. IInv => PartsLeft \in Nat /\ TriesLeft \in Nat /\ StageLeft \in Nat /\ RoundsLeft \in Nat
  BY LeftIsNatural
<1>2. Init => CurveUnchecked
  <2>1. Init => pc = "idle"
    BY DEF Init
  <2> QED
    BY <2>1 DEF CurveUnchecked
<1>3. IInv /\ CurveUnchecked /\ [Next]_vars => [Step => LessIsLeft \/ GivesUp']_vars
  <2> SUFFICES ASSUME IInv, CurveUnchecked, Step PROVE LessIsLeft \/ GivesUp'
    OBVIOUS
  <2> QED
    BY ScanLeadsOn, AfterScanLeadsOn, AssignLeadsOn, VaryLeadsOn, SelectLeadsOn, EvaluateLeadsOn,
       TrialLeadsOn, VerdictLeadsOn, LoopLeadsOn, NextTrajLeadsOn, RefineLeadsOn, Zenon DEF Step
<1> QED
  BY <1>1, <1>2, <1>3, AlwaysIInv, UncheckedNext, PTL DEF Spec
=============================================================================
