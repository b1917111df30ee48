---------------------------- MODULE GridMapProofs ----------------------------
(***************************************************************************)
(* Proofs about GridMap for every size of the map, every set of poses,     *)
(* images, odometry and clouds and every way to draw a line: an image is   *)
(* cast from its own pose, no obstacle of the occupancy map is missing     *)
(* from the inflated one, none in it was never measured, and a surface     *)
(* that is measured becomes likelier.                                      *)
(*                                                                         *)
(* The second is inductive with what the timer knows between its loops:    *)
(* the points of the image are ahead of the camera, wherever that is, the  *)
(* voxels hit lie in the box of what was cast, and after the cached voxels *)
(* were fused only the local box holds obstacles that are not inflated: a  *)
(* voxel that was only passed is no new one.  The third, with the counts:  *)
(* only a measured voxel has hits.  The last, with their sum over the      *)
(* rays: where no ray missed, half of the counts or more are hits, and the *)
(* voxel is in the queue under its own index.                              *)
(***************************************************************************)
EXTENDS GridMap, WellFoundedInduction, TLAPS

PoseOfImage ==
  occ_need_update_ /\ has_first_depth_ =>
    /\ depth_image_ \in Images
    /\ \E pose \in Poses : camera_pos_ = pose.pos /\ camera_face = pose.face

Started == stage # "idle" => occ_need_update_ /\ has_first_depth_

PointsAhead ==
  stage = "cast" =>
    \A k \in DOMAIN proj_points_ :
      k \in Pixels(depth_image_) /\ \E d \in {depth_image_[k], Far} : proj_points_[k] = At(k, d)

CastBox == Box(Low(box_min, camera_pos_), High(box_max, camera_pos_))

HitsInBox ==
  /\ stage \in {"idle", "inflate"} => count_hit_ = None /\ count_hit_and_miss_ = None
  /\ stage \in {"cast", "fuse"} => \A v \in Voxel : count_hit_[v] > 0 => v \in CastBox

NotYetInflated == stage = "inflate" /\ ~has_cloud_ =>
  \A v \in Voxel : Occupied(v) => v \in inflated \/ v \in LocalBox

NothingNew == stage \in {"cast", "fuse"} /\ ~has_cloud_ =>
  \A v \in Voxel : Occupied(v) => v \in inflated

IInv ==
  /\ TypeOK /\ CastsFromItsPose /\ PoseOfImage /\ Started /\ PointsAhead
  /\ HitsInBox /\ NotYetInflated /\ NothingNew /\ OccupiedIsInflated

-----------------------------------------------------------------------------
(* Boxes and corners.                                                      *)

LEMMA VoxelPosition == Voxel \subseteq Position
  BY SizeAssumption DEF Voxel, Position

LEMMA LowHighPosition ==
  \A a, b \in Position : Low(a, b) \in Position /\ High(a, b) \in Position
  BY DEF Position, Low, High, Least, Greatest

LEMMA BoundInVoxel == \A v \in Position : boundIndex(v) \in Voxel
  BY SizeAssumption DEF Position, Voxel, boundIndex, Least, Greatest

LEMMA MovedPosition == \A v \in Position, d \in Int : Moved(v, d) \in Position
  BY DEF Position, Moved

(* A voxel of a box is in the box after its corners were put in the map.   *)
LEMMA BoundKeeps ==
  ASSUME NEW a \in Position, NEW b \in Position, NEW v \in Voxel, v \in Box(a, b)
  PROVE  v \in Box(boundIndex(a), boundIndex(b))
<1>1. v[1] \in 0 .. NX - 1 /\ v[2] \in 0 .. NY - 1 /\ v = <<v[1], v[2]>>
  BY DEF Voxel
<1>2. v[1] \in a[1] .. b[1] /\ v[2] \in a[2] .. b[2]
  BY DEF Box
<1>3. a[1] \in Int /\ a[2] \in Int /\ b[1] \in Int /\ b[2] \in Int
  BY DEF Position
<1>4. v[1] \in Greatest(Least(a[1], NX - 1), 0) .. Greatest(Least(b[1], NX - 1), 0)
  BY <1>1, <1>2, <1>3, SizeAssumption DEF Least, Greatest
<1>5. v[2] \in Greatest(Least(a[2], NY - 1), 0) .. Greatest(Least(b[2], NY - 1), 0)
  BY <1>1, <1>2, <1>3, SizeAssumption DEF Least, Greatest
<1> QED
  BY <1>1, <1>4, <1>5 DEF Box, boundIndex

(* A box grows with its corners, and holds the corners it grows by.        *)
LEMMA BoxGrows ==
  ASSUME NEW lo \in Position, NEW hi \in Position, NEW c \in Position, NEW e \in Position
  PROVE  Box(Low(lo, c), High(hi, c)) \subseteq Box(Low(Low(lo, e), c), High(High(hi, e), c))
<1> SUFFICES ASSUME NEW v \in Box(Low(lo, c), High(hi, c))
             PROVE  v \in Box(Low(Low(lo, e), c), High(High(hi, e), c))
  OBVIOUS
<1>1. /\ lo[1] \in Int /\ lo[2] \in Int /\ hi[1] \in Int /\ hi[2] \in Int
      /\ c[1] \in Int /\ c[2] \in Int /\ e[1] \in Int /\ e[2] \in Int
  BY DEF Position
<1>2. /\ v = <<v[1], v[2]>>
      /\ v[1] \in Least(lo[1], c[1]) .. Greatest(hi[1], c[1])
      /\ v[2] \in Least(lo[2], c[2]) .. Greatest(hi[2], c[2])
  BY DEF Box, Low, High
<1>3. v[1] \in Least(Least(lo[1], e[1]), c[1]) .. Greatest(Greatest(hi[1], e[1]), c[1])
  BY <1>1, <1>2 DEF Least, Greatest
<1>4. v[2] \in Least(Least(lo[2], e[2]), c[2]) .. Greatest(Greatest(hi[2], e[2]), c[2])
  BY <1>1, <1>2 DEF Least, Greatest
<1> QED
  BY <1>2, <1>3, <1>4 DEF Box, Low, High

LEMMA BoxHolds ==
  ASSUME NEW lo \in Position, NEW hi \in Position, NEW c \in Position, NEW e \in Position
  PROVE  Box(Low(e, c), High(e, c)) \subseteq Box(Low(Low(lo, e), c), High(High(hi, e), c))
<1> SUFFICES ASSUME NEW v \in Box(Low(e, c), High(e, c))
             PROVE  v \in Box(Low(Low(lo, e), c), High(High(hi, e), c))
  OBVIOUS
<1>1. /\ lo[1] \in Int /\ lo[2] \in Int /\ hi[1] \in Int /\ hi[2] \in Int
      /\ c[1] \in Int /\ c[2] \in Int /\ e[1] \in Int /\ e[2] \in Int
  BY DEF Position
<1>2. /\ v = <<v[1], v[2]>>
      /\ v[1] \in Least(e[1], c[1]) .. Greatest(e[1], c[1])
      /\ v[2] \in Least(e[2], c[2]) .. Greatest(e[2], c[2])
  BY DEF Box, Low, High
<1>3. v[1] \in Least(Least(lo[1], e[1]), c[1]) .. Greatest(Greatest(hi[1], e[1]), c[1])
  BY <1>1, <1>2 DEF Least, Greatest
<1>4. v[2] \in Least(Least(lo[2], e[2]), c[2]) .. Greatest(Greatest(hi[2], e[2]), c[2])
  BY <1>1, <1>2 DEF Least, Greatest
<1> QED
  BY <1>2, <1>3, <1>4 DEF Box, Low, High

LEMMA CornerInBox ==
  \A e, c \in Position : e \in Box(Low(e, c), High(e, c))
<1> SUFFICES ASSUME NEW e \in Position, NEW c \in Position
             PROVE  e \in Box(Low(e, c), High(e, c))
  OBVIOUS
<1>1. e = <<e[1], e[2]>> /\ e[1] \in Int /\ e[2] \in Int /\ c[1] \in Int /\ c[2] \in Int
  BY DEF Position
<1>2. e[1] \in Least(e[1], c[1]) .. Greatest(e[1], c[1]) /\ e[2] \in Least(e[2], c[2]) .. Greatest(e[2], c[2])
  BY <1>1 DEF Least, Greatest
<1> QED
  BY <1>1, <1>2 DEF Box, Low, High

(* The points around an obstacle are written over the obstacle itself.     *)
LEMMA InflationHolds == \A v \in Voxel : v \in Inflation(v)
<1> SUFFICES ASSUME NEW v \in Voxel PROVE v \in Inflation(v)
  OBVIOUS
<1>1. v = <<v[1], v[2]>> /\ v[1] + 0 = v[1] /\ v[2] + 0 = v[2]
  BY SizeAssumption DEF Voxel
<1>2. 0 \in -inf_step .. inf_step
  BY SizeAssumption
<1>3. toAddress(v) = toAddress(<<v[1] + 0, v[2] + 0>>)
  BY <1>1
<1> QED
  BY <1>2, <1>3 DEF Inflation
-----------------------------------------------------------------------------
(* Where a ray ends.                                                       *)

(* A set of naturals that is not empty has a least element.                *)
LEMMA LeastElement ==
  ASSUME NEW T, T \subseteq Nat, T # {}
  PROVE  \E n \in T : \A m \in T : n <= m
<1>1. \E n \in T : \A m \in T : ~(<<m, n>> \in OpToRel(<, Nat))
  BY NatLessThanWellFounded, WFMin
<1>2. PICK n \in T : \A m \in T : ~(<<m, n>> \in OpToRel(<, Nat))
  BY <1>1
<1>3. ASSUME NEW m \in T PROVE n <= m
  <2>1. <<m, n>> \in Nat \X Nat
    BY <1>2
  <2>2. ~(m < n)
    BY <1>2, <2>1 DEF OpToRel
  <2>3. n \in Nat /\ m \in Nat
    OBVIOUS
  <2> QED
    BY <2>2, <2>3
<1> QED
  BY <1>3

LEMMA GreatestElement ==
  ASSUME NEW N \in Nat, NEW S, S \subseteq 1 .. N, S # {}
  PROVE  \E j \in S : \A l \in S : l <= j
<1> DEFINE T == {N - j : j \in S}
<1>1. T \subseteq Nat /\ T # {}
  OBVIOUS
<1>2. PICK n \in T : \A m \in T : n <= m
  <2> HIDE DEF T
  <2> QED
    BY <1>1, LeastElement
<1>3. PICK j \in S : n = N - j
  OBVIOUS
<1>4. ASSUME NEW l \in S PROVE l <= j
  <2>1. N - l \in T
    OBVIOUS
  <2>2. n <= N - l
    BY <1>2, <2>1
  <2> QED
    BY <1>3, <2>2
<1> QED
  BY <1>4

LEMMA CameraInRange == camera_pos_ \in Position => InRange(camera_pos_)
<1> SUFFICES ASSUME camera_pos_ \in Position PROVE InRange(camera_pos_)
  OBVIOUS
<1>1. camera_pos_[1] \in Int /\ camera_pos_[2] \in Int
  BY DEF Position
<1>2. camera_pos_[1] - camera_pos_[1] = 0 /\ camera_pos_[2] - camera_pos_[2] = 0
  BY <1>1
<1>3. Square(0) = 0
  BY DEF Square
<1>4. Square(max_ray_length_) >= 0
  BY ImageAssumption DEF Square
<1> QED
  BY <1>2, <1>3, <1>4 DEF InRange

(* The end of a ray is its point or a position on the line to it.          *)
LEMMA RayEndPlace ==
  ASSUME camera_pos_ \in Position, NEW k, NEW way \in Seq(Position),
         way = Line(camera_pos_, IF isInMap(proj_points_[k]) THEN proj_points_[k] ELSE At(k, Far)),
         way # <<>>, way[1] = camera_pos_
  PROVE  RayEnd(k) \in Position
<1> DEFINE p == proj_points_[k]
           usable == {j \in DOMAIN way : /\ InRange(way[j])
                                         /\ isInMap(p) \/ SameSide(way[j], camera_pos_)}
           Last(j) == \A l \in usable : l <= j
<1>1. CASE IsHit(p)
  BY <1>1, VoxelPosition DEF RayEnd, IsHit, isInMap
<1>2. CASE ~IsHit(p)
  <2>1. Len(way) \in Nat /\ DOMAIN way = 1 .. Len(way) /\ 1 \in DOMAIN way
    OBVIOUS
  <2>2. 1 \in usable
    <3>1. InRange(way[1])
      BY CameraInRange
    <3>2. SameSide(way[1], camera_pos_)
      BY DEF SameSide
    <3> QED
      BY <2>1, <3>1, <3>2
  <2>3. \E j \in usable : Last(j)
    <3>1. usable \subseteq 1 .. Len(way)
      BY <2>1
    <3> HIDE DEF usable
    <3> QED
      BY <2>1, <2>2, <3>1, GreatestElement
  <2>4. (CHOOSE j \in usable : Last(j)) \in usable
    <3> HIDE DEF usable, Last
    <3> QED
      BY <2>3
  <2>5. RayEnd(k) = way[CHOOSE j \in usable : Last(j)]
    BY <1>2 DEF RayEnd
  <2>6. (CHOOSE j \in usable : Last(j)) \in DOMAIN way
    BY <2>4
  <2> HIDE DEF usable, Last
  <2> QED
    BY <2>1, <2>5, <2>6
<1> QED
  BY <1>1, <1>2

(* While the timer casts, every point is ahead of the camera.              *)
LEMMA CastingEnds ==
  ASSUME IInv, stage = "cast", NEW k \in DOMAIN proj_points_
  PROVE  RayEnd(k) \in Position
<1> DEFINE p == proj_points_[k]
           seen == IF isInMap(p) THEN p ELSE At(k, Far)
<1>1. occ_need_update_ /\ has_first_depth_ /\ camera_pos_ \in Position
  BY DEF IInv, Started, TypeOK
<1>2. PICK pose \in Poses : camera_pos_ = pose.pos /\ camera_face = pose.face
  BY <1>1 DEF IInv, PoseOfImage
<1>3. PICK d \in {depth_image_[k], Far} : p = At(k, d)
  BY DEF IInv, PointsAhead
<1>4. k \in Pixels(depth_image_) /\ depth_image_ \in Images
  BY <1>1 DEF IInv, PointsAhead, PoseOfImage
<1>5. PICK c \in {depth_image_[k], Far} : seen = At(k, c)
  BY <1>3
<1>6. seen = Ahead(pose.pos, pose.face, k, c)
  BY <1>2, <1>5 DEF At
<1> HIDE DEF p, seen
<1>7. Line(camera_pos_, seen) \in Seq(Position) /\ Line(camera_pos_, seen) # <<>>
      /\ Line(camera_pos_, seen)[1] = camera_pos_
  BY <1>2, <1>4, <1>6, RayAssumption
<1> QED
  BY <1>1, <1>7, RayEndPlace DEF p, seen

LEMMA SlotFacts ==
  /\ \A p : Slot(p) \subseteq Voxel
  /\ \A p \in Voxel : Slot(p) = {p}
  BY DEF Slot, isInMap

LEMMA HitEnds ==
  ASSUME NEW k, IsHit(proj_points_[k])
  PROVE  RayEnd(k) = proj_points_[k] /\ proj_points_[k] \in Voxel
  BY DEF RayEnd, IsHit, isInMap

-----------------------------------------------------------------------------
(* One ray: what it changes, and that the box grows over it.               *)
LEMMA CastRayChanges ==
  ASSUME IInv, NEW k \in Left, NextRay(k), NEW cells, CastRayOf(k, RayEnd(k), cells)
  PROVE  \E e \in Position :
           /\ box_min' = Low(box_min, e) /\ box_max' = High(box_max, e)
           /\ count_hit_' \in [Voxel -> Nat] /\ count_hit_and_miss_' \in [Voxel -> Nat]
           /\ \A v \in Voxel : count_hit_'[v] > 0 => count_hit_[v] > 0 \/ v = e
           /\ flag_rayend_' \in [Voxel -> 0 .. CharSize - 1]
           /\ flag_traverse_' \in [Voxel -> 0 .. CharSize - 1]
           /\ cache_voxel_' \subseteq Voxel
<1> DEFINE p == proj_points_[k]
           e == RayEnd(k)
<1>1. TypeOK /\ stage = "cast" /\ k \in DOMAIN proj_points_
  BY DEF IInv, NextRay, Left
<1>2. e \in Position
  BY <1>1, CastingEnds
<1>3. count_hit_' = IF IsHit(p) THEN [count_hit_ EXCEPT ![e] = @ + 1] ELSE count_hit_
  BY DEF CastRayOf
<1>4. count_hit_and_miss_' =
        [v \in Voxel |-> count_hit_and_miss_[v] + (IF v \in Slot(e) THEN 1 ELSE 0)
                                                + (IF v \in Passed(cells) THEN 1 ELSE 0)
                                                + (IF v \in PassedTwice(cells) THEN 1 ELSE 0)]
  BY DEF CastRayOf
<1>5. /\ flag_rayend_' = [v \in Voxel |-> IF v \in Slot(e) THEN raycast_num_ ELSE flag_rayend_[v]]
      /\ flag_traverse_' = [v \in Voxel |-> IF v \in Passed(cells) THEN raycast_num_
                                            ELSE flag_traverse_[v]]
      /\ box_min' = Low(box_min, e) /\ box_max' = High(box_max, e)
      /\ cache_voxel_' = cache_voxel_ \cup Cached(e, cells)
  BY DEF CastRayOf
<1>6. IsHit(p) => e \in Voxel
  BY HitEnds
<1> HIDE DEF e, p
<1>7. count_hit_' \in [Voxel -> Nat] /\ \A v \in Voxel : count_hit_'[v] > 0 => count_hit_[v] > 0 \/ v = e
  <2>1. count_hit_ \in [Voxel -> Nat]
    BY <1>1 DEF TypeOK
  <2>2. CASE IsHit(p)
    <3>1. count_hit_' = [count_hit_ EXCEPT ![e] = @ + 1]
      BY <1>3, <2>2, Zenon
    <3> QED
      BY <1>6, <2>1, <2>2, <3>1
  <2>3. CASE ~IsHit(p)
    <3>1. count_hit_' = count_hit_
      BY <1>3, <2>3, Zenon
    <3> QED
      BY <2>1, <3>1
  <2> QED
    BY <2>2, <2>3
<1>8. count_hit_and_miss_' \in [Voxel -> Nat]
  <2>1. count_hit_and_miss_ \in [Voxel -> Nat]
    BY <1>1 DEF TypeOK
  <2> QED
    BY <1>4, <2>1
<1>9. /\ flag_rayend_' \in [Voxel -> 0 .. CharSize - 1]
      /\ flag_traverse_' \in [Voxel -> 0 .. CharSize - 1]
  BY <1>1, <1>5 DEF TypeOK
<1>10. cache_voxel_' \subseteq Voxel
  <2>1. Passed(cells) \subseteq Voxel
    BY SlotFacts DEF Passed
  <2>2. Cached(e, cells) \subseteq Slot(e) \cup Passed(cells)
    BY DEF Cached
  <2> QED
    BY <1>1, <1>5, <2>1, <2>2, SlotFacts DEF TypeOK
<1> QED
  BY <1>2, <1>5, <1>7, <1>8, <1>9, <1>10
-----------------------------------------------------------------------------
(* Every action keeps the invariant.                                       *)

LEMMA PlacesTyped ==
  TypeOK => /\ camera_pos_ \in Position
            /\ \A d \in Int : boundIndex(Moved(camera_pos_, d)) \in Voxel
  BY BoundInVoxel, MovedPosition DEF TypeOK

(* Nothing but undefined changes.                                          *)
LEMMA SameMapKeeps ==
  ASSUME IInv, undefined' \in BOOLEAN,
         UNCHANGED <<pose_type_, occupancy_buffer_, inflated, camera_pos_, camera_face, depth_image_,
                     taken, occ_need_update_, has_first_depth_, has_odom_, has_cloud_,
                     flag_use_depth_fusion, flag_depth_odom_timeout_, silence, frames,
                     local_bound_min_, local_bound_max_, raycast_num_, flag_rayend_, flag_traverse_,
                     count_hit_, count_hit_and_miss_, cache_voxel_, proj_points_, cast, box_min,
                     box_max, stage, measured>>
  PROVE  IInv'
<1>1. TypeOK'
  BY DEF IInv, TypeOK
<1>2. CastsFromItsPose' /\ PoseOfImage' /\ Started'
  BY DEF IInv, CastsFromItsPose, PoseOfImage, Started, isInMap
<1>3. PointsAhead'
  BY DEF IInv, PointsAhead, At
<1>4. HitsInBox'
  BY DEF IInv, HitsInBox, CastBox
<1>5. NotYetInflated' /\ NothingNew' /\ OccupiedIsInflated'
  BY DEF IInv, NotYetInflated, NothingNew, OccupiedIsInflated, Occupied, LocalBox
<1> QED
  BY <1>1, <1>2, <1>3, <1>4, <1>5 DEF IInv

LEMMA TakeImageKeeps ==
  ASSUME IInv, NEW pose \in Poses, NEW img \in Images, TakeImage(pose, img),
         occ_need_update_' \in BOOLEAN, has_odom_' \in BOOLEAN,
         pose_type_ = "POSE_STAMPED" => occ_need_update_' = isInMap(pose.pos)
  PROVE  IInv'
<1> USE DEF IInv
<1>1. /\ stage = "idle" /\ depth_image_' = img /\ camera_pos_' = pose.pos
      /\ camera_face' = pose.face /\ taken' = pose.pos
      /\ flag_use_depth_fusion' = TRUE /\ frames < MaxFrames /\ frames' = frames + 1
  BY DEF TakeImage
<1>2. UNCHANGED <<pose_type_, undefined, has_first_depth_, has_cloud_, flag_depth_odom_timeout_,
                  silence, occupancy_buffer_, inflated, local_bound_min_, local_bound_max_,
                  raycast_num_, flag_rayend_, flag_traverse_, count_hit_, count_hit_and_miss_,
                  cache_voxel_, proj_points_, cast, box_min, box_max, stage, measured>>
  BY DEF TakeImage, config, buffers, bounds, casting
<1>3. TypeOK'
  <2>1. pose.pos \in Position /\ pose.face \in {1, -1}
    BY InputAssumption
  <2>2. frames' \in 0 .. MaxFrames
    <3>1. frames \in 0 .. MaxFrames
      BY DEF TypeOK
    <3>2. frames' = frames + 1 /\ frames < MaxFrames /\ MaxFrames \in Nat
      BY <1>1, SizeAssumption
    <3> QED
      BY <3>1, <3>2
  <2>3. \A f \in {occ_need_update_', has_first_depth_', has_odom_', has_cloud_',
                   flag_use_depth_fusion', flag_depth_odom_timeout_'} : f \in BOOLEAN
    BY <1>1, <1>2 DEF TypeOK
  <2>4. pose_type_' \in PoseTypes /\ undefined' \in BOOLEAN
    BY <1>2 DEF TypeOK
  <2> QED
    BY <1>1, <1>2, <2>1, <2>2, <2>3, <2>4 DEF TypeOK
<1>4. CastsFromItsPose'
  <2>1. pose_type_' = pose_type_
    BY <1>2
  <2> QED
    BY <1>1, <2>1, Zenon DEF CastsFromItsPose, isInMap
<1>5. PoseOfImage'
  BY <1>1 DEF PoseOfImage
<1>6. Started' /\ PointsAhead' /\ HitsInBox' /\ NotYetInflated' /\ NothingNew'
  BY <1>1, <1>2 DEF Started, PointsAhead, HitsInBox, NotYetInflated, NothingNew
<1>7. OccupiedIsInflated'
  BY <1>1, <1>2 DEF OccupiedIsInflated, Occupied
<1> QED
  BY <1>3, <1>4, <1>5, <1>6, <1>7

LEMMA DepthPoseKeeps ==
  ASSUME IInv, NEW pose \in Poses, NEW img \in Images, DepthPose(pose, img)
  PROVE  IInv'
<1>1. TakeImage(pose, img) /\ occ_need_update_' = isInMap(pose.pos)
      /\ has_odom_' = (has_odom_ \/ isInMap(pose.pos))
  BY DEF DepthPose
<1>2. isInMap(pose.pos) \in BOOLEAN
  BY DEF isInMap
<1>3. occ_need_update_' \in BOOLEAN
  BY <1>1, <1>2
<1>4. has_odom_' \in BOOLEAN
  BY <1>1, Zenon
<1> QED
  BY <1>1, <1>3, <1>4, TakeImageKeeps

LEMMA DepthOdomKeeps ==
  ASSUME IInv, NEW pose \in Poses, NEW img \in Images, DepthOdom(pose, img)
  PROVE  IInv'
<1>1. TakeImage(pose, img) /\ occ_need_update_' = TRUE /\ has_odom_' = has_odom_
      /\ pose_type_ # "POSE_STAMPED"
  BY DEF DepthOdom
<1>2. has_odom_ \in BOOLEAN
  BY DEF IInv, TypeOK
<1> QED
  BY <1>1, <1>2, TakeImageKeeps

LEMMA OdomKeeps ==
  ASSUME IInv, NEW pos \in Odoms, Odom(pos)
  PROVE  IInv'
<1> USE DEF IInv
<1>1. /\ stage = "idle" /\ ~has_first_depth_ /\ camera_pos_' = pos /\ has_odom_' = TRUE
  BY DEF Odom, OdomMoves
<1>2. UNCHANGED <<pose_type_, undefined, camera_face, depth_image_, taken, occ_need_update_,
                  has_first_depth_, has_cloud_, flag_use_depth_fusion, flag_depth_odom_timeout_,
                  silence, frames, occupancy_buffer_, inflated, local_bound_min_, local_bound_max_,
                  raycast_num_, flag_rayend_, flag_traverse_, count_hit_, count_hit_and_miss_,
                  cache_voxel_, proj_points_, cast, box_min, box_max, stage, measured>>
  BY DEF Odom, config, buffers, bounds, casting
<1>3. TypeOK'
  BY <1>1, <1>2, InputAssumption DEF TypeOK
<1>4. CastsFromItsPose' /\ PoseOfImage'
  BY <1>1, <1>2 DEF CastsFromItsPose, PoseOfImage
<1>5. Started' /\ PointsAhead' /\ HitsInBox' /\ NotYetInflated' /\ NothingNew'
  BY <1>1, <1>2 DEF Started, PointsAhead, HitsInBox, NotYetInflated, NothingNew
<1>6. OccupiedIsInflated'
  BY <1>1, <1>2 DEF OccupiedIsInflated, Occupied
<1> QED
  BY <1>3, <1>4, <1>5, <1>6

(* The steps that change nothing but flags.                                *)
LEMMA QuietKeeps ==
  ASSUME IInv, stage = "idle", stage' = "idle",
         UNCHANGED <<config, buffers, camera, bounds, casting, has_odom_, has_cloud_, frames>>,
         flag_use_depth_fusion' \in BOOLEAN, flag_depth_odom_timeout_' \in BOOLEAN,
         silence' \in 0 .. Timeout + 1, measured' \subseteq Voxel,
         has_first_depth_' \in BOOLEAN,
         occ_need_update_' = FALSE \/ UNCHANGED <<occ_need_update_, has_first_depth_>>
  PROVE  IInv'
<1> USE DEF IInv
<1>1. UNCHANGED <<pose_type_, undefined, camera_pos_, camera_face, depth_image_, taken, has_odom_,
                  has_cloud_, frames, occupancy_buffer_, inflated, local_bound_min_,
                  local_bound_max_, raycast_num_, flag_rayend_, flag_traverse_, count_hit_,
                  count_hit_and_miss_, cache_voxel_, proj_points_, cast, box_min, box_max>>
  BY DEF config, buffers, camera, bounds, casting
<1>2. TypeOK'
  BY <1>1 DEF TypeOK
<1>3. CastsFromItsPose' /\ PoseOfImage'
  BY <1>1 DEF CastsFromItsPose, PoseOfImage, isInMap
<1>4. Started' /\ PointsAhead' /\ HitsInBox' /\ NotYetInflated' /\ NothingNew'
  BY <1>1 DEF Started, PointsAhead, HitsInBox, NotYetInflated, NothingNew
<1>5. OccupiedIsInflated'
  BY <1>1 DEF OccupiedIsInflated, Occupied
<1> QED
  BY <1>2, <1>3, <1>4, <1>5

LEMMA SilentKeeps == IInv /\ Silent => IInv'
<1> SUFFICES ASSUME IInv, Silent PROVE IInv'
  OBVIOUS
<1>1. silence' \in 0 .. Timeout + 1
  BY SizeAssumption DEF Silent, Least, IInv, TypeOK
<1>2. flag_depth_odom_timeout_' \in BOOLEAN
  <2>1. flag_depth_odom_timeout_' = (flag_depth_odom_timeout_ \/ (flag_use_depth_fusion /\ silence > Timeout))
    BY DEF Silent
  <2> QED
    BY <2>1, Zenon
<1>3. TypeOK
  BY DEF IInv
<1> QED
  BY <1>1, <1>2, <1>3, QuietKeeps DEF Silent, TypeOK

LEMMA FirstImageKeeps == IInv /\ FirstImage => IInv'
<1> SUFFICES ASSUME IInv, FirstImage PROVE IInv'
  OBVIOUS
<1>1. TypeOK /\ 1 \in 0 .. Timeout + 1
  BY SizeAssumption DEF IInv
<1> QED
  BY <1>1, QuietKeeps DEF FirstImage, TypeOK
-----------------------------------------------------------------------------
(* The corners of what a cloud inflates: the points are near the camera,   *)
(* so that they have corners, however many there are.                      *)

LEMMA MinOfBounded ==
  ASSUME NEW S, S \subseteq Int, S # {}, NEW lo \in Int, \A x \in S : lo <= x
  PROVE  Min(S) \in Int
<1> DEFINE T == {x - lo : x \in S}
           IsMin(x) == \A y \in S : x <= y
<1>1. T \subseteq Nat /\ T # {}
  <2>1. \A x \in S : x - lo \in Nat
    OBVIOUS
  <2>2. \A t \in T : t \in Nat
    BY <2>1
  <2>3. T # {}
    OBVIOUS
  <2> QED
    BY <2>2, <2>3
<1>2. PICK n \in T : \A m \in T : n <= m
  <2> HIDE DEF T
  <2> QED
    BY <1>1, LeastElement
<1>3. PICK x \in S : n = x - lo
  OBVIOUS
<1>4. \A y \in S : y - lo \in T
  OBVIOUS
<1>5. IsMin(x)
  BY <1>2, <1>3, <1>4
<1>6. (CHOOSE z \in S : IsMin(z)) \in S
  <2> HIDE DEF IsMin
  <2> QED
    BY <1>5
<1>7. Min(S) = CHOOSE z \in S : IsMin(z)
  BY DEF Min
<1> QED
  BY <1>6, <1>7

LEMMA MaxOfBounded ==
  ASSUME NEW S, S \subseteq Int, S # {}, NEW hi \in Int, \A x \in S : x <= hi
  PROVE  Max(S) \in Int
<1> DEFINE T == {hi - x : x \in S}
           IsMax(x) == \A y \in S : x >= y
<1>1. T \subseteq Nat /\ T # {}
  <2>1. \A x \in S : hi - x \in Nat
    OBVIOUS
  <2>2. \A t \in T : t \in Nat
    BY <2>1
  <2>3. T # {}
    OBVIOUS
  <2> QED
    BY <2>2, <2>3
<1>2. PICK n \in T : \A m \in T : n <= m
  <2> HIDE DEF T
  <2> QED
    BY <1>1, LeastElement
<1>3. PICK x \in S : n = hi - x
  OBVIOUS
<1>4. \A y \in S : hi - y \in T
  OBVIOUS
<1>5. IsMax(x)
  BY <1>2, <1>3, <1>4
<1>6. (CHOOSE z \in S : IsMax(z)) \in S
  <2> HIDE DEF IsMax
  <2> QED
    BY <1>5
<1>7. Max(S) = CHOOSE z \in S : IsMax(z)
  BY DEF Max
<1> QED
  BY <1>6, <1>7

LEMMA CubesNear ==
  ASSUME TypeOK, NEW cloud \in Clouds
  PROVE  /\ Cubes(Near(cloud)) \subseteq Position
         /\ \A v \in Cubes(Near(cloud)) : \A i \in {1, 2} :
              /\ camera_pos_[i] - local_update_range_ - inf_step <= v[i]
              /\ v[i] <= camera_pos_[i] + local_update_range_ + inf_step
<1> SUFFICES ASSUME NEW v \in Cubes(Near(cloud))
             PROVE  /\ v \in Position
                    /\ \A i \in {1, 2} :
                         /\ camera_pos_[i] - local_update_range_ - inf_step <= v[i]
                         /\ v[i] <= camera_pos_[i] + local_update_range_ + inf_step
  OBVIOUS
<1>1. PICK p \in Near(cloud) : v \in Box(Moved(p, -inf_step), Moved(p, inf_step))
  BY DEF Cubes
<1>2. p \in Position
  BY InputAssumption DEF Near
<1>3. \A i \in {1, 2} : /\ p[i] - camera_pos_[i] < local_update_range_
                        /\ camera_pos_[i] - p[i] < local_update_range_
  BY DEF Near
<1>4. p[1] \in Int /\ p[2] \in Int /\ camera_pos_[1] \in Int /\ camera_pos_[2] \in Int
  BY <1>2 DEF TypeOK, Position
<1>5. v = <<v[1], v[2]>> /\ v[1] \in p[1] - inf_step .. p[1] + inf_step
      /\ v[2] \in p[2] - inf_step .. p[2] + inf_step
  BY <1>1, <1>4, SizeAssumption DEF Box, Moved
<1>6. v[1] \in Int /\ v[2] \in Int
  BY <1>4, <1>5, SizeAssumption
<1>a. local_update_range_ \in Int /\ inf_step \in Int
  BY SizeAssumption, ImageAssumption
<1>b. /\ p[1] - camera_pos_[1] < local_update_range_ /\ camera_pos_[1] - p[1] < local_update_range_
      /\ p[2] - camera_pos_[2] < local_update_range_ /\ camera_pos_[2] - p[2] < local_update_range_
  BY <1>3
<1>7. /\ camera_pos_[1] - local_update_range_ - inf_step <= v[1]
      /\ v[1] <= camera_pos_[1] + local_update_range_ + inf_step
  BY <1>a, <1>b, <1>4, <1>5
<1>8. /\ camera_pos_[2] - local_update_range_ - inf_step <= v[2]
      /\ v[2] <= camera_pos_[2] + local_update_range_ + inf_step
  BY <1>a, <1>b, <1>4, <1>5
<1>9. v \in Position
  BY <1>5, <1>6 DEF Position
<1> QED
  BY <1>7, <1>8, <1>9

LEMMA CornersTyped ==
  ASSUME TypeOK, NEW cloud \in Clouds
  PROVE  /\ LowOf(Cubes(Near(cloud)), camera_pos_) \in Position
         /\ HighOf(Cubes(Near(cloud)), camera_pos_) \in Position
<1> DEFINE S == Cubes(Near(cloud))
           A(i) == {v[i] : v \in S} \cup {camera_pos_[i]}
           r == local_update_range_ + inf_step
<1>1. S \subseteq Position
  BY CubesNear
<1>2. camera_pos_[1] \in Int /\ camera_pos_[2] \in Int /\ r \in Nat
  BY SizeAssumption, ImageAssumption DEF TypeOK, Position
<1>3. ASSUME NEW i \in {1, 2} PROVE Min(A(i)) \in Int /\ Max(A(i)) \in Int
  <2>1. A(i) \subseteq Int /\ A(i) # {} /\ camera_pos_[i] \in Int
    BY <1>1, <1>2 DEF Position
  <2>2. \A x \in A(i) : camera_pos_[i] - r <= x /\ x <= camera_pos_[i] + r
    <3>1. \A v \in S : camera_pos_[i] - r <= v[i] /\ v[i] <= camera_pos_[i] + r
      <4>1. \A v \in S : v[i] \in Int
        BY <1>1 DEF Position
      <4>2. \A v \in S : /\ camera_pos_[i] - local_update_range_ - inf_step <= v[i]
                        /\ v[i] <= camera_pos_[i] + local_update_range_ + inf_step
        BY CubesNear
      <4> HIDE DEF S
      <4> QED
        BY <4>1, <4>2, <2>1, SizeAssumption, ImageAssumption
    <3> HIDE DEF S, r
    <3> QED
      BY <3>1, <2>1, <1>2
  <2>3. camera_pos_[i] - r \in Int /\ camera_pos_[i] + r \in Int
    BY <2>1, <1>2
  <2> HIDE DEF A, r
  <2>4. Min(A(i)) \in Int
    BY <2>1, <2>2, <2>3, MinOfBounded
  <2>5. Max(A(i)) \in Int
    BY <2>1, <2>2, <2>3, MaxOfBounded
  <2> QED
    BY <2>4, <2>5
<1>4. /\ LowOf(S, camera_pos_) = <<Min(A(1)), Min(A(2))>>
      /\ HighOf(S, camera_pos_) = <<Max(A(1)), Max(A(2))>>
  BY DEF LowOf, HighOf
<1>5. Min(A(1)) \in Int /\ Min(A(2)) \in Int /\ Max(A(1)) \in Int /\ Max(A(2)) \in Int
  BY <1>3
<1> HIDE DEF A, S
<1>6. LowOf(S, camera_pos_) \in Position /\ HighOf(S, camera_pos_) \in Position
  BY <1>4, <1>5 DEF Position
<1> QED
  BY <1>6 DEF S
LEMMA CloudKeeps ==
  ASSUME IInv, NEW cloud \in Clouds, Cloud(cloud)
  PROVE  IInv'
<1> USE DEF IInv
<1>1. stage = "idle" /\ has_cloud_' = TRUE
  BY DEF Cloud
<1>2. UNCHANGED <<pose_type_, undefined, occupancy_buffer_, camera_pos_, camera_face, depth_image_,
                  taken, occ_need_update_, has_first_depth_, has_odom_, flag_use_depth_fusion,
                  flag_depth_odom_timeout_, silence, frames, raycast_num_, flag_rayend_,
                  flag_traverse_, count_hit_, count_hit_and_miss_, cache_voxel_, proj_points_, cast,
                  box_min, box_max, stage, measured>>
  BY DEF Cloud, config, camera, casting
<1>3. inflated' \subseteq Voxel
  BY DEF Cloud, TypeOK
<1>4. local_bound_min_' \in Voxel /\ local_bound_max_' \in Voxel
  <2>1. /\ boundIndex(LowOf(Cubes(Near(cloud)), camera_pos_)) \in Voxel
        /\ boundIndex(HighOf(Cubes(Near(cloud)), camera_pos_)) \in Voxel
    BY CornersTyped, BoundInVoxel
  <2>2. \/ UNCHANGED bounds
        \/ /\ local_bound_min_' = boundIndex(LowOf(Cubes(Near(cloud)), camera_pos_))
           /\ local_bound_max_' = boundIndex(HighOf(Cubes(Near(cloud)), camera_pos_))
    BY DEF Cloud
  <2> QED
    BY <2>1, <2>2 DEF bounds, TypeOK
<1>5. TypeOK'
  BY <1>1, <1>2, <1>3, <1>4 DEF TypeOK
<1>6. CastsFromItsPose' /\ PoseOfImage'
  BY <1>2 DEF CastsFromItsPose, PoseOfImage, isInMap
<1>7. Started' /\ PointsAhead' /\ HitsInBox' /\ NotYetInflated' /\ NothingNew'
  BY <1>1, <1>2 DEF Started, PointsAhead, HitsInBox, NotYetInflated, NothingNew
<1>8. OccupiedIsInflated'
  BY <1>1 DEF OccupiedIsInflated
<1> QED
  BY <1>5, <1>6, <1>7, <1>8

(* What a pixel is taken for lies ahead of the camera.                     *)
LEMMA ProjectedTyped ==
  ASSUME TypeOK, depth_image_ \in Images
  PROVE  LET points == Projected(depth_image_) IN
         /\ DOMAIN points \subseteq Nat
         /\ \A k \in DOMAIN points :
              /\ k \in Pixels(depth_image_) /\ points[k] \in Position
              /\ \E d \in {depth_image_[k], Far} : points[k] = At(k, d)
<1> DEFINE points == Projected(depth_image_)
<1>1. /\ DOMAIN points = {k \in Pixels(depth_image_) : ~Skipped(depth_image_, k)}
      /\ \A k \in DOMAIN points : points[k] = At(k, Depth(depth_image_, k))
  BY DEF Projected
<1>2. ASSUME NEW k \in DOMAIN points
      PROVE  /\ k \in Pixels(depth_image_) /\ k \in Nat /\ points[k] \in Position
             /\ \E d \in {depth_image_[k], Far} : points[k] = At(k, d)
  <2>1. k \in Pixels(depth_image_) /\ points[k] = At(k, Depth(depth_image_, k))
    BY <1>1
  <2>2. depth_image_ \in Seq(Nat) /\ Slope[k] \in Int
    BY <2>1, ImageAssumption
  <2>3. k \in Nat /\ k \in DOMAIN depth_image_
    BY <2>1, <2>2 DEF Pixels
  <2>4. Depth(depth_image_, k) \in {depth_image_[k], Far}
    BY DEF Depth
  <2>5. Far \in Int /\ depth_image_[k] \in Int
    BY <2>2, <2>3, ImageAssumption DEF Far
  <2>6. camera_pos_[1] \in Int /\ camera_pos_[2] \in Int /\ camera_face \in Int
    BY DEF TypeOK, Position
  <2>7. \A d \in Int : At(k, d) \in Position
    <3> SUFFICES ASSUME NEW d \in Int PROVE At(k, d) \in Position
      OBVIOUS
    <3>1. camera_face * d \in Int
      BY <2>6
    <3>2. camera_face * d * Slope[k] \in Int
      BY <3>1, <2>2
    <3> QED
      BY <2>6, <3>1, <3>2 DEF At, Ahead, Position
  <2>8. Depth(depth_image_, k) \in Int
    BY <2>4, <2>5
  <2> QED
    BY <2>1, <2>3, <2>4, <2>7, <2>8
<1> HIDE DEF points
<1>3. DOMAIN points \subseteq Nat
  BY <1>2
<1> QED
  BY <1>2, <1>3 DEF points

LEMMA ProjectKeeps == IInv /\ ProjectDepthImage => IInv'
<1> SUFFICES ASSUME IInv, ProjectDepthImage PROVE IInv'
  OBVIOUS
<1> DEFINE points == Projected(depth_image_)
<1>1. /\ stage = "idle" /\ occ_need_update_ /\ has_first_depth_ /\ silence' = 1
      /\ measured' \subseteq Voxel
  BY DEF ProjectDepthImage, IInv, TypeOK
<1>2. UNCHANGED <<pose_type_, undefined, has_first_depth_, has_odom_, has_cloud_,
                  flag_use_depth_fusion, flag_depth_odom_timeout_, frames, occupancy_buffer_, inflated,
                  camera_pos_, camera_cell, camera_face, depth_image_, taken, local_bound_min_,
                  local_bound_max_, flag_rayend_, flag_traverse_, count_hit_, count_hit_and_miss_,
                  cache_voxel_, cast>>
  BY DEF ProjectDepthImage, config, buffers, camera, bounds
<1>3. TypeOK /\ 1 \in 0 .. Timeout + 1
  BY SizeAssumption DEF IInv
<1>4. CASE points = <<>>
  <2>1. /\ occ_need_update_' = FALSE
        /\ UNCHANGED <<stage, raycast_num_, proj_points_, box_min, box_max>>
    BY <1>4 DEF ProjectDepthImage
  <2> QED
    BY <1>1, <1>2, <1>3, <2>1, QuietKeeps DEF config, buffers, camera, bounds, casting, TypeOK
<1>5. CASE points # <<>>
  <2>1. /\ stage' = "cast" /\ proj_points_' = points /\ occ_need_update_' = occ_need_update_
        /\ raycast_num_' = (raycast_num_ + 1) % CharSize
        /\ box_min' = <<NX - 1, NY - 1>> /\ box_max' = <<0, 0>>
    BY <1>5 DEF ProjectDepthImage
  <2>2. depth_image_ \in Images
    BY <1>1 DEF IInv, PoseOfImage
  <2>3. raycast_num_' \in 0 .. CharSize - 1
    <3>0. CharSize \in Nat \ {0} /\ raycast_num_ \in 0 .. CharSize - 1
      BY <1>3, SizeAssumption DEF TypeOK
    <3>1. raycast_num_ + 1 \in Nat /\ CharSize \in Nat \ {0}
      BY <3>0
    <3>2. \A n \in Nat : n % CharSize \in 0 .. CharSize - 1
      BY <3>1
    <3> QED
      BY <2>1, <3>1, <3>2
  <2>4. box_min' \in Position /\ box_max' \in Position
    BY <2>1, SizeAssumption DEF Position
  <2>5. /\ DOMAIN points \subseteq Nat
        /\ \A k \in DOMAIN points :
             /\ k \in Pixels(depth_image_) /\ points[k] \in Position
             /\ \E d \in {depth_image_[k], Far} : points[k] = At(k, d)
    BY <1>3, <2>2, ProjectedTyped
  <2> HIDE DEF points
  <2>6. TypeOK'
    BY <1>1, <1>2, <1>3, <2>1, <2>3, <2>4, <2>5 DEF TypeOK
  <2>7. CastsFromItsPose' /\ PoseOfImage' /\ Started'
    BY <1>1, <1>2, <2>1 DEF IInv, CastsFromItsPose, PoseOfImage, Started, isInMap
  <2>8. PointsAhead'
    BY <1>2, <2>1, <2>5 DEF PointsAhead, At
  <2>9. HitsInBox'
    <3>1. count_hit_' = None
      BY <1>1, <1>2 DEF IInv, HitsInBox
    <3>2. \A v \in Voxel : count_hit_'[v] = 0
      BY <3>1 DEF None
    <3> QED
      BY <2>1, <3>2 DEF HitsInBox
  <2>10. NothingNew'
    BY <1>1, <1>2, <2>1 DEF IInv, OccupiedIsInflated, NothingNew, Occupied
  <2> QED
    BY <2>1, <2>6, <2>7, <2>8, <2>9, <2>10 DEF IInv, NotYetInflated, OccupiedIsInflated
<1> QED
  BY <1>4, <1>5

LEMMA CastKeeps ==
  ASSUME IInv, NEW k \in Left, NextRay(k), NEW cells, CastRayOf(k, RayEnd(k), cells)
  PROVE  IInv'
<1>1. TypeOK /\ stage = "cast" /\ stage' \in {"cast", "fuse"} /\ cast' = k /\ k \in Nat
  BY DEF IInv, NextRay, CastRayOf, Left, TypeOK
<1>2. UNCHANGED <<pose_type_, undefined, raycast_num_, proj_points_, occupancy_buffer_, inflated,
                  camera_pos_, camera_face, depth_image_, taken, occ_need_update_, has_first_depth_,
                  has_odom_, has_cloud_, flag_use_depth_fusion, flag_depth_odom_timeout_, silence,
                  frames, local_bound_min_, local_bound_max_, measured>>
  BY DEF CastRayOf, config, buffers, camera, flags, bounds
<1>3. PICK e \in Position :
        /\ box_min' = Low(box_min, e) /\ box_max' = High(box_max, e)
        /\ count_hit_' \in [Voxel -> Nat] /\ count_hit_and_miss_' \in [Voxel -> Nat]
        /\ \A v \in Voxel : count_hit_'[v] > 0 => count_hit_[v] > 0 \/ v = e
        /\ flag_rayend_' \in [Voxel -> 0 .. CharSize - 1]
        /\ flag_traverse_' \in [Voxel -> 0 .. CharSize - 1]
        /\ cache_voxel_' \subseteq Voxel
  BY CastRayChanges
<1>4. box_min' \in Position /\ box_max' \in Position
  BY <1>1, <1>3, LowHighPosition DEF TypeOK
<1>5. TypeOK'
  BY <1>1, <1>2, <1>3, <1>4 DEF TypeOK
<1>6. CastsFromItsPose' /\ PoseOfImage' /\ Started'
  BY <1>1, <1>2 DEF IInv, CastsFromItsPose, PoseOfImage, Started, isInMap
<1>7. PointsAhead'
  BY <1>1, <1>2 DEF IInv, PointsAhead, At
<1>8. HitsInBox'
  <2> SUFFICES ASSUME NEW v \in Voxel, count_hit_'[v] > 0 PROVE v \in CastBox'
    BY <1>1 DEF HitsInBox
  <2>1. camera_pos_ \in Position /\ box_min \in Position /\ box_max \in Position
    BY <1>1 DEF TypeOK
  <2>2. CastBox' = Box(Low(Low(box_min, e), camera_pos_), High(High(box_max, e), camera_pos_))
    BY <1>2, <1>3 DEF CastBox
  <2>3. count_hit_[v] > 0 => v \in Box(Low(box_min, camera_pos_), High(box_max, camera_pos_))
    BY <1>1 DEF IInv, HitsInBox, CastBox
  <2>4. v = e => v \in Box(Low(e, camera_pos_), High(e, camera_pos_))
    BY <2>1, CornerInBox
  <2> QED
    BY <1>3, <2>1, <2>2, <2>3, <2>4, BoxGrows, BoxHolds
<1>9. NothingNew'
  BY <1>1, <1>2 DEF IInv, NothingNew, Occupied
<1> QED
  BY <1>1, <1>5, <1>6, <1>7, <1>8, <1>9 DEF IInv, NotYetInflated, OccupiedIsInflated

(* A step that writes outside the buffers ends the model's run.            *)
LEMMA UndefinedKeeps == IInv /\ Undefined => IInv'
<1> SUFFICES ASSUME IInv, Undefined PROVE IInv'
  OBVIOUS
<1>1. UNCHANGED <<pose_type_, occupancy_buffer_, inflated, camera_pos_, camera_face, depth_image_,
                  taken, occ_need_update_, has_first_depth_, has_odom_, has_cloud_,
                  flag_use_depth_fusion, flag_depth_odom_timeout_, silence, frames,
                  local_bound_min_, local_bound_max_, raycast_num_, flag_rayend_, flag_traverse_,
                  count_hit_, count_hit_and_miss_, cache_voxel_, proj_points_, cast, box_min, box_max,
                  stage, measured>>
  BY DEF Undefined, buffers, camera, flags, bounds, casting
<1>2. undefined' = TRUE
  BY DEF Undefined
<1> QED
  BY <1>1, <1>2, SameMapKeeps

LEMMA FusedTyped ==
  ASSUME TypeOK, NEW v \in Voxel
  PROVE  Fused(v) \in Unknown .. clamp_max_log_
<1> DEFINE old == occupancy_buffer_[v]
           base == IF InLocal(v) THEN old ELSE 0
<1>1. old \in Int /\ old \in Unknown .. clamp_max_log_ /\ Unknown = -1 /\ clamp_max_log_ \in Nat
  BY LogOddsAssumption DEF TypeOK, Unknown
<1>2. base \in Int
  BY <1>1
<1>3. \A x \in Int : Clamp(x) \in 0 .. clamp_max_log_
  BY LogOddsAssumption DEF Clamp, Least, Greatest
<1>4. base + prob_hit_log_ \in Int /\ base - prob_miss_log_ \in Int
  BY <1>2, LogOddsAssumption
<1>5. Fused(v) \in {old, 0, Clamp(base + prob_hit_log_), Clamp(base - prob_miss_log_)}
  <2> HIDE DEF old, base
  <2> QED
    BY DEF Fused, old, base
<1>6. /\ Clamp(base + prob_hit_log_) \in 0 .. clamp_max_log_
      /\ Clamp(base - prob_miss_log_) \in 0 .. clamp_max_log_
  BY <1>3, <1>4
<1> HIDE DEF old, base
<1> QED
  BY <1>1, <1>5, <1>6

(* What is not hit more than missed does not become an obstacle.           *)
LEMMA MissedIsNoNews ==
  ASSUME TypeOK, NEW v \in Voxel, ~MoreHits(v), Fused(v) > min_occupancy_log_
  PROVE  Occupied(v)
<1> DEFINE old == occupancy_buffer_[v]
           base == IF InLocal(v) THEN old ELSE 0
<1>1. old \in Int
  BY LogOddsAssumption DEF TypeOK, Unknown
<1>2. Fused(v) = IF old <= 0 THEN 0 ELSE Clamp(base - prob_miss_log_)
  BY DEF Fused
<1>3. min_occupancy_log_ \in Nat /\ clamp_max_log_ \in Nat /\ prob_miss_log_ \in Nat \ {0}
  BY LogOddsAssumption
<1>4. ~(old <= 0)
  <2>1. old <= 0 => Fused(v) = 0
    BY <1>2
  <2> QED
    BY <1>3, <2>1
<1>5. base = old \/ base = 0
  OBVIOUS
<1> HIDE DEF base, old
<1>6. Fused(v) = Clamp(base - prob_miss_log_) /\ base \in Int
  BY <1>1, <1>2, <1>4, <1>5
<1>7. PICK x \in Int : x = base - prob_miss_log_ /\ x < base
  BY <1>3, <1>6
<1>8. Clamp(x) <= x \/ Clamp(x) = 0
  BY <1>3, <1>7 DEF Clamp, Least, Greatest
<1>9. Clamp(x) > min_occupancy_log_
  BY <1>6, <1>7
<1>10. Clamp(x) \in Int
  BY <1>3 DEF Clamp, Least, Greatest
<1>11. x > min_occupancy_log_
  BY <1>3, <1>8, <1>9, <1>10
<1>12. base > 0 /\ base > min_occupancy_log_
  BY <1>3, <1>6, <1>7, <1>11
<1> QED
  BY <1>1, <1>5, <1>12 DEF old, Occupied

LEMMA FuseKeeps == IInv /\ FuseCached => IInv'
<1> SUFFICES ASSUME IInv, FuseCached PROVE IInv'
  OBVIOUS
<1>1. TypeOK /\ stage = "fuse" /\ stage' = "inflate"
  BY DEF IInv, FuseCached
<1>2. UNCHANGED <<pose_type_, undefined, inflated, camera_pos_, camera_face, depth_image_, taken,
                  occ_need_update_, has_first_depth_, has_odom_, has_cloud_, flag_use_depth_fusion,
                  flag_depth_odom_timeout_, silence, frames, raycast_num_, flag_rayend_,
                  flag_traverse_, proj_points_, cast, box_min, box_max, measured>>
  BY DEF FuseCached, config, camera, flags
<1>3. /\ local_bound_min_' = boundIndex(Low(box_min, camera_pos_))
      /\ local_bound_max_' = boundIndex(High(box_max, camera_pos_))
      /\ occupancy_buffer_' = [v \in Voxel |-> IF count_hit_and_miss_[v] > 0 THEN Fused(v)
                                               ELSE occupancy_buffer_[v]]
      /\ count_hit_' = None /\ count_hit_and_miss_' = None /\ cache_voxel_' = {}
  BY DEF FuseCached
<1>4. Low(box_min, camera_pos_) \in Position /\ High(box_max, camera_pos_) \in Position
  BY <1>1, LowHighPosition DEF TypeOK
<1>5. local_bound_min_' \in Voxel /\ local_bound_max_' \in Voxel
  BY <1>3, <1>4, BoundInVoxel
<1>6. occupancy_buffer_' \in [Voxel -> Unknown .. clamp_max_log_]
  BY <1>1, <1>3, FusedTyped DEF TypeOK
<1>7. None \in [Voxel -> Nat]
  BY DEF None
<1>8. TypeOK'
  BY <1>1, <1>2, <1>3, <1>5, <1>6, <1>7 DEF TypeOK
<1>9. CastsFromItsPose' /\ PoseOfImage' /\ Started' /\ PointsAhead'
  BY <1>1, <1>2 DEF IInv, CastsFromItsPose, PoseOfImage, Started, PointsAhead, isInMap
<1>10. HitsInBox'
  BY <1>1, <1>3 DEF HitsInBox
<1>11. NotYetInflated'
  <2> SUFFICES ASSUME ~has_cloud_, NEW v \in Voxel, Occupied(v)'
               PROVE  v \in inflated \/ v \in LocalBox'
    BY <1>2 DEF NotYetInflated
  <2>1. Occupied(v) => v \in inflated
    BY <1>1 DEF IInv, NothingNew
  <2>2. CASE ~(count_hit_and_miss_[v] > 0)
    <3>1. occupancy_buffer_'[v] = occupancy_buffer_[v]
      BY <1>3, <2>2
    <3> QED
      BY <2>1, <3>1 DEF Occupied
  <2>3. CASE count_hit_and_miss_[v] > 0 /\ MoreHits(v)
    <3>1. count_hit_[v] \in Nat /\ count_hit_and_miss_[v] \in Nat
      BY <1>1 DEF TypeOK
    <3>2. count_hit_[v] > 0
      BY <2>3, <3>1 DEF MoreHits
    <3>3. v \in Box(Low(box_min, camera_pos_), High(box_max, camera_pos_))
      BY <1>1, <3>2 DEF IInv, HitsInBox, CastBox
    <3>4. v \in Box(local_bound_min_', local_bound_max_')
      BY <1>3, <1>4, <3>3, BoundKeeps
    <3> QED
      BY <3>4 DEF LocalBox
  <2>4. CASE count_hit_and_miss_[v] > 0 /\ ~MoreHits(v)
    <3>1. occupancy_buffer_'[v] = Fused(v)
      BY <1>3, <2>4
    <3>2. Fused(v) > min_occupancy_log_
      BY <3>1 DEF Occupied
    <3> QED
      BY <1>1, <2>1, <2>4, <3>2, MissedIsNoNews
  <2> QED
    BY <2>2, <2>3, <2>4
<1> QED
  BY <1>1, <1>8, <1>9, <1>10, <1>11 DEF IInv, NothingNew, OccupiedIsInflated

LEMMA InflateKeeps == IInv /\ ClearAndInflate => IInv'
<1> SUFFICES ASSUME IInv, ClearAndInflate PROVE IInv'
  OBVIOUS
<1>1. TypeOK /\ stage = "inflate" /\ stage' = "idle" /\ occ_need_update_' = FALSE
  BY DEF IInv, ClearAndInflate
<1>2. UNCHANGED <<pose_type_, undefined, camera_pos_, camera_face, depth_image_, taken,
                  has_first_depth_, has_odom_, has_cloud_, flag_use_depth_fusion,
                  flag_depth_odom_timeout_, silence, frames, local_bound_min_, local_bound_max_,
                  raycast_num_, flag_rayend_, flag_traverse_, count_hit_, count_hit_and_miss_,
                  cache_voxel_, measured>>
  BY DEF ClearAndInflate, config, camera, bounds
<1>3. /\ occupancy_buffer_' = [v \in Voxel |-> IF v \in Ring THEN Unknown ELSE occupancy_buffer_[v]]
      /\ inflated' = (inflated \ LocalBox)
                      \cup UNION {Inflation(v) : v \in {v \in LocalBox : Occupied(v)}}
      /\ proj_points_' = <<>> /\ cast' = 0 /\ box_min' = <<0, 0>> /\ box_max' = <<0, 0>>
  BY DEF ClearAndInflate
<1>4. occupancy_buffer_' \in [Voxel -> Unknown .. clamp_max_log_]
  BY <1>1, <1>3, LogOddsAssumption DEF TypeOK, Unknown
<1>5. inflated' \subseteq Voxel
  BY <1>1, <1>3 DEF TypeOK, Inflation
<1>6. TypeOK'
  <2>1. DOMAIN proj_points_' = {}
    BY <1>3
  <2>2. box_min' \in Position /\ box_max' \in Position /\ cast' \in Nat
    BY <1>3 DEF Position
  <2> QED
    BY <1>1, <1>2, <1>4, <1>5, <2>1, <2>2 DEF TypeOK
<1>7. CastsFromItsPose' /\ PoseOfImage' /\ Started' /\ PointsAhead'
  BY <1>1 DEF CastsFromItsPose, PoseOfImage, Started, PointsAhead
<1>8. HitsInBox'
  BY <1>1, <1>2 DEF IInv, HitsInBox
<1>9. OccupiedIsInflated'
  <2> SUFFICES ASSUME ~has_cloud_, NEW v \in Voxel, Occupied(v)'
               PROVE  v \in inflated'
    BY <1>2 DEF OccupiedIsInflated
  <2>1. v \notin Ring /\ Occupied(v)
    BY <1>3, LogOddsAssumption DEF Occupied, Unknown
  <2>2. v \in inflated \/ v \in LocalBox
    BY <1>1, <2>1 DEF IInv, NotYetInflated
  <2>3. CASE v \in LocalBox
    BY <1>3, <2>1, <2>3, InflationHolds
  <2>4. CASE v \notin LocalBox
    BY <1>3, <2>2, <2>4
  <2> QED
    BY <2>3, <2>4
<1> QED
  BY <1>1, <1>6, <1>7, <1>8, <1>9 DEF IInv, NotYetInflated, NothingNew

-----------------------------------------------------------------------------
LEMMA InitIInv == Init => IInv
<1> SUFFICES ASSUME Init PROVE IInv
  OBVIOUS
<1> USE DEF Init
<1>1. <<0, 0>> \in Position /\ <<0, 0>> \in Voxel
  BY SizeAssumption DEF Position, Voxel
<1>2. occupancy_buffer_ \in [Voxel -> Unknown .. clamp_max_log_]
  BY LogOddsAssumption DEF Unknown
<1>3. /\ count_hit_ \in [Voxel -> Nat] /\ count_hit_and_miss_ \in [Voxel -> Nat]
      /\ flag_rayend_ \in [Voxel -> 0 .. CharSize - 1]
      /\ flag_traverse_ \in [Voxel -> 0 .. CharSize - 1]
  BY SizeAssumption DEF None
<1>4. DOMAIN proj_points_ = {} /\ raycast_num_ \in 0 .. CharSize - 1 /\ cast \in Nat
      /\ silence \in 0 .. Timeout + 1 /\ frames \in 0 .. MaxFrames
  BY SizeAssumption
<1>5. TypeOK
  BY <1>1, <1>2, <1>3, <1>4 DEF TypeOK
<1>6. \A v \in Voxel : ~Occupied(v)
  BY LogOddsAssumption DEF Occupied, Unknown
<1> QED
  BY <1>5, <1>6 DEF IInv, CastsFromItsPose, PoseOfImage, Started, PointsAhead, HitsInBox,
                    NotYetInflated, NothingNew, OccupiedIsInflated

LEMMA StutterKeeps == IInv /\ UNCHANGED vars => IInv'
<1> SUFFICES ASSUME IInv, UNCHANGED vars PROVE IInv'
  OBVIOUS
<1>1. UNCHANGED <<pose_type_, undefined, occupancy_buffer_, inflated, camera_pos_, camera_face,
                  depth_image_, taken, occ_need_update_, has_first_depth_, has_odom_, has_cloud_,
                  flag_use_depth_fusion, flag_depth_odom_timeout_, silence, frames,
                  local_bound_min_, local_bound_max_, raycast_num_, flag_rayend_, flag_traverse_,
                  count_hit_, count_hit_and_miss_, cache_voxel_, proj_points_, cast, box_min, box_max,
                  stage, measured>>
  BY DEF vars, config, buffers, camera, flags, bounds, casting
<1>2. undefined' \in BOOLEAN
  BY <1>1 DEF IInv, TypeOK
<1> QED
  BY <1>1, <1>2, SameMapKeeps

LEMMA NextIInv == IInv /\ [Next]_vars => IInv'
<1> SUFFICES ASSUME IInv, [Next]_vars PROVE IInv'
  OBVIOUS
<1>1. CASE \E pose \in Poses, img \in Images : DepthPose(pose, img) \/ DepthOdom(pose, img)
  BY <1>1, DepthPoseKeeps, DepthOdomKeeps
<1>2. CASE \E pos \in Odoms : Odom(pos)
  BY <1>2, OdomKeeps
<1>3. CASE \E cloud \in Clouds : Cloud(cloud)
  BY <1>3, CloudKeeps
<1>4. CASE Silent \/ FirstImage \/ ProjectDepthImage
  BY <1>4, SilentKeeps, FirstImageKeeps, ProjectKeeps
<1>5. CASE CastRay \/ Undefined
  BY <1>5, CastKeeps, UndefinedKeeps DEF CastRay
<1>6. CASE FuseCached \/ ClearAndInflate
  BY <1>6, FuseKeeps, InflateKeeps
<1>7. CASE UNCHANGED vars
  BY <1>7, StutterKeeps
<1> QED
  BY <1>1, <1>2, <1>3, <1>4, <1>5, <1>6, <1>7 DEF Next, Timer

THEOREM Invariant == Spec => []IInv
  BY InitIInv, NextIInv, PTL DEF Spec

(* The timer and the callbacks keep the map's types.                       *)
THEOREM TypeCorrect == Spec => []TypeOK
  BY Invariant, PTL DEF IInv

(* No odometry moves the camera of an image that is to be cast             *)
(* (odomCallback, updateOccupancyCallback), and with stamped poses it is   *)
(* cast from inside the map (depthPoseCallback).                           *)
THEOREM ImagesKeepTheirPose == Spec => []CastsFromItsPose
  BY Invariant, PTL DEF IInv

(* The inflated map misses no obstacle (clearAndInflateLocalMap).          *)
THEOREM NoObstacleMissing == Spec => []OccupiedIsInflated
  BY Invariant, PTL DEF IInv
-----------------------------------------------------------------------------
(* What is an obstacle was measured, and what the rays of an image count.  *)

OccupiedMeasured == \A v \in Voxel : Occupied(v) => v \in measured

PointsMeasured ==
  stage = "cast" =>
    \A k \in DOMAIN proj_points_ : IsHit(proj_points_[k]) => proj_points_[k] \in measured

HitsMeasured == \A v \in Voxel : count_hit_[v] > 0 => v \in measured

Cast == {k \in DOMAIN proj_points_ : k <= cast}

EndsOfCasting ==
  /\ stage = "idle" => cast = 0
  /\ stage \in {"idle", "inflate"} => count_hit_ = None
  /\ stage = "cast" => \A k \in DOMAIN proj_points_ : k >= 1
  /\ stage = "fuse" => Left = {}

HitsCounted == stage \in {"cast", "fuse"} =>
  \A k \in Cast : IsHit(proj_points_[k]) =>
    count_hit_[proj_points_[k]] > 0 /\ count_hit_and_miss_[proj_points_[k]] > 0

HalfAreHits == stage \in {"cast", "fuse"} =>
  \A v \in Voxel : (\A k \in Cast : NotMissed(v, k)) =>
                     /\ count_hit_and_miss_[v] <= 2 * count_hit_[v]
                     /\ count_hit_and_miss_[v] > 0 => v \in cache_voxel_

MInv ==
  /\ OccupiedMeasured /\ PointsMeasured /\ HitsMeasured /\ InflatedWasMeasured
  /\ EndsOfCasting /\ HitsCounted /\ HalfAreHits

(* Squares.                                                                *)
LEMMA SquareFacts ==
  /\ \A n \in Int : Square(n) \in Nat
  /\ \A n \in Int, m \in Nat : Square(n) <= Square(m) => -m <= n /\ n <= m
<1>1. ASSUME NEW n \in Int PROVE n * n \in Nat
  <2>1. CASE n >= 0
    BY <2>1
  <2>2. CASE n < 0
    BY <2>2
  <2> QED
    BY <2>1, <2>2
<1>2. ASSUME NEW n \in Int, NEW m \in Nat, n * n <= m * m PROVE -m <= n /\ n <= m
  <2>1. CASE n > m
    <3>1. n * n > m * m
      <4>1. n * n >= n * m /\ n * m >= m * m
        BY <2>1
      <4>2. n * n - n * m = n * (n - m)
        BY <2>1
      <4>3. n * (n - m) >= 1
        BY <2>1
      <4> QED
        BY <4>1, <4>2, <4>3
    <3> QED
      BY <1>2, <3>1
  <2>2. CASE -n > m
    <3>1. PICK q \in Nat : q = -n /\ q > m
      BY <2>2
    <3>2. n * n = q * q
      BY <3>1
    <3>3. q * q - q * m = q * (q - m) /\ q * (q - m) >= 1 /\ q * m >= m * m
      BY <3>1
    <3>4. q * q > m * m
      BY <3>1, <3>3
    <3> QED
      BY <1>2, <3>2, <3>4
  <2> QED
    BY <2>1, <2>2
<1> QED
  BY <1>1, <1>2 DEF Square

(* No point as far as Far is in range.                                     *)
LEMMA FarMisses ==
  ASSUME TypeOK, depth_image_ \in Images, NEW k \in Pixels(depth_image_)
  PROVE  ~InRange(At(k, Far))
<1>1. camera_pos_[1] \in Int /\ camera_pos_[2] \in Int /\ camera_face \in {1, -1}
  BY DEF TypeOK, Position
<1>2. Slope[k] \in Int /\ max_ray_length_ \in Nat /\ Far \in Nat /\ Far > max_ray_length_
  BY ImageAssumption DEF Far
<1>3. PICK x \in Int : x = camera_face * Far
  BY <1>1, <1>2
<1>4. x = Far \/ x = -Far
  BY <1>1, <1>2, <1>3
<1>5. PICK y \in Int : y = camera_face * Far * Slope[k]
  BY <1>2, <1>3
<1>6. At(k, Far) = <<camera_pos_[1] + x, camera_pos_[2] + y>>
  BY <1>3, <1>5 DEF At, Ahead
<1>7. (camera_pos_[1] + x) - camera_pos_[1] = x /\ (camera_pos_[2] + y) - camera_pos_[2] = y
  BY <1>1
<1>8. InRange(At(k, Far)) <=> Square(x) + Square(y) <= Square(max_ray_length_)
  BY <1>6, <1>7 DEF InRange
<1>9. Square(x) \in Nat /\ Square(y) \in Nat /\ Square(max_ray_length_) \in Nat
  BY <1>2, SquareFacts
<1>10. ~(Square(x) <= Square(max_ray_length_))
  BY <1>2, <1>4, SquareFacts
<1> QED
  BY <1>8, <1>9, <1>10

(* A point that is a hit is a return of the image.                         *)
LEMMA HitIsReturn ==
  ASSUME TypeOK, depth_image_ \in Images, NEW k \in DOMAIN Projected(depth_image_),
         IsHit(Projected(depth_image_)[k])
  PROVE  /\ Projected(depth_image_)[k] \in Voxel /\ InRange(Projected(depth_image_)[k])
         /\ Projected(depth_image_)[k] \in Returns(depth_image_)
<1> DEFINE p == Projected(depth_image_)[k]
           img == depth_image_
<1>1. k \in Pixels(img) /\ ~Skipped(img, k) /\ p = At(k, Depth(img, k))
  BY DEF Projected
<1>2. InRange(p) /\ p \in Voxel
  BY DEF IsHit, isInMap
<1>3. Depth(img, k) # Far
  BY <1>1, <1>2, FarMisses
<1>4. Depth(img, k) = img[k] /\ img[k + 1] # 0 /\ ~(img[k] > depth_filter_maxdist_)
  BY <1>3 DEF Depth
<1>5. ~(img[k] < depth_filter_mindist_)
  BY <1>1, <1>4 DEF Skipped
<1>6. img[k] \in Nat
  <2>1. img \in Seq(Nat) /\ Len(img) \in Nat
    BY ImageAssumption
  <2>2. k \in 1 .. Len(img)
    BY <1>1, <2>1 DEF Pixels
  <2> QED
    BY <2>1, <2>2
<1>7. img[k] \in depth_filter_mindist_ .. depth_filter_maxdist_ /\ img[k] > 0
  BY <1>4, <1>5, <1>6, FilterAssumption
<1>8. p \in Returns(img)
  BY <1>1, <1>4, <1>7 DEF Returns
<1> QED
  BY <1>2, <1>8

(* The inflation of a voxel that is not at a face of the map stays near.   *)
LEMMA SameRow ==
  ASSUME NEW n \in Nat \ {0}, NEW a \in Int, NEW b \in Int, NEW c \in 0 .. n - 1, NEW d \in 0 .. n - 1,
         a * n + c = b * n + d
  PROVE  a = b /\ c = d
<1>1. ASSUME NEW x \in Int, NEW y \in Int, NEW u \in 0 .. n - 1, NEW w \in 0 .. n - 1,
             x * n + u = y * n + w, x < y
      PROVE  FALSE
  <2>1. PICK e \in Nat : e = y - x - 1
    BY <1>1
  <2>2. y * n = x * n + e * n + n
    BY <2>1
  <2>3. e * n >= 0 /\ e * n \in Int /\ x * n \in Int /\ y * n \in Int
    BY <2>1
  <2> QED
    BY <1>1, <2>2, <2>3
<1>2. ~(a < b) /\ ~(b < a)
  BY <1>1
<1>3. a = b
  BY <1>2
<1> QED
  BY <1>3

LEMMA InflationNear ==
  ASSUME NEW v \in Voxel, NEW u \in Inflation(v), ~AtFace(v)
  PROVE  u \in Box(Moved(v, -inf_step), Moved(v, inf_step))
<1>1. PICK i \in -inf_step .. inf_step, j \in -inf_step .. inf_step :
        u \in Voxel /\ toAddress(u) = toAddress(<<v[1] + i, v[2] + j>>)
  BY DEF Inflation
<1>2. /\ v[1] \in Int /\ v[2] \in Int /\ u[1] \in Int /\ u[2] \in 0 .. NY - 1 /\ u = <<u[1], u[2]>>
      /\ NY \in Nat \ {0} /\ inf_step \in Nat /\ i \in Int /\ j \in Int
  BY <1>1, SizeAssumption DEF Voxel
<1>3. ~(v[2] < inf_step) /\ ~(v[2] > NY - 1 - inf_step)
  BY DEF AtFace
<1>4. v[2] + j \in 0 .. NY - 1
  BY <1>1, <1>2, <1>3
<1>5. u[1] * NY + u[2] = (v[1] + i) * NY + (v[2] + j)
  BY <1>1 DEF toAddress
<1>6. v[1] + i \in Int
  BY <1>2
<1>7. u[1] = v[1] + i /\ u[2] = v[2] + j
  BY <1>2, <1>4, <1>5, <1>6, SameRow
<1>8. /\ u[1] \in v[1] + (-inf_step) .. v[1] + inf_step
      /\ u[2] \in v[2] + (-inf_step) .. v[2] + inf_step
  BY <1>1, <1>2, <1>7
<1> QED
  BY <1>2, <1>8 DEF Box, Moved

-----------------------------------------------------------------------------
(* Every action keeps it.                                                  *)

(* Between two images nothing is counted and nothing becomes an obstacle.  *)
LEMMA QuietMeasured ==
  ASSUME MInv, stage' \notin {"cast", "fuse"}, stage = "idle" \/ stage' = stage,
         UNCHANGED <<occupancy_buffer_, count_hit_, cast>>,
         measured \subseteq measured',
         has_cloud_' \/ (UNCHANGED <<has_cloud_, inflated>>)
  PROVE  MInv'
<1>1. OccupiedMeasured' /\ HitsMeasured'
  BY DEF MInv, OccupiedMeasured, HitsMeasured, Occupied
<1>2. InflatedWasMeasured'
  BY DEF MInv, InflatedWasMeasured
<1>3. EndsOfCasting'
  BY DEF MInv, EndsOfCasting
<1>4. PointsMeasured' /\ HitsCounted' /\ HalfAreHits'
  BY DEF PointsMeasured, HitsCounted, HalfAreHits
<1> QED
  BY <1>1, <1>2, <1>3, <1>4 DEF MInv

(* Which rays miss a voxel depends on the camera and the points alone.     *)
LEMMA SameRays ==
  ASSUME UNCHANGED <<camera_pos_, camera_cell, camera_face, proj_points_>>
  PROVE  /\ \A q : IsHit(q)' <=> IsHit(q)
         /\ \A v, k : NotMissed(v, k)' <=> NotMissed(v, k)
<1>1. \A q : IsHit(q)' <=> IsHit(q)
  BY DEF IsHit, isInMap, InRange
<1>2. \A k : RayEnd(k)' = RayEnd(k)
  BY DEF RayEnd, IsHit, isInMap, InRange, SameSide, At
<1>3. \A e : Ways(e)' = Ways(e)
  BY DEF Ways, Cells
<1> QED
  BY <1>1, <1>2, <1>3 DEF NotMissed

LEMMA ProjectMeasures ==
  ASSUME IInv, MInv, ProjectDepthImage
  PROVE  MInv'
<1> DEFINE points == Projected(depth_image_)
<1>1. /\ stage = "idle" /\ occ_need_update_ /\ has_first_depth_
      /\ measured' = measured \cup {v \in Voxel : v \in Returns(depth_image_) /\ InRange(v)}
  BY DEF ProjectDepthImage
<1>2. UNCHANGED <<has_cloud_, occupancy_buffer_, inflated, camera_pos_, camera_face, depth_image_,
                  count_hit_, count_hit_and_miss_, cast>>
  BY DEF ProjectDepthImage, buffers, camera
<1>3. CASE points = <<>>
  <2>1. stage' = "idle"
    BY <1>1, <1>3 DEF ProjectDepthImage
  <2>2. measured \subseteq measured'
    BY <1>1
  <2> QED
    BY <1>1, <1>2, <2>1, <2>2, QuietMeasured
<1>4. CASE points # <<>>
  <2>1. stage' = "cast" /\ proj_points_' = points
    BY <1>4 DEF ProjectDepthImage
  <2>2. TypeOK /\ depth_image_ \in Images
    BY <1>1 DEF IInv, PoseOfImage
  <2>3. /\ DOMAIN points \subseteq Nat
        /\ \A k \in DOMAIN points : k \in Pixels(depth_image_)
    BY <2>2, ProjectedTyped
  <2>4. \A k \in DOMAIN points : k >= 1
    <3>1. \A k \in Pixels(depth_image_) : k >= 1
      <4>1. Len(depth_image_) \in Nat
        BY <2>2, ImageAssumption
      <4> QED
        BY <4>1 DEF Pixels
    <3> QED
      BY <2>3, <3>1
  <2>5. \A p : IsHit(p)' <=> IsHit(p)
    BY <1>2 DEF IsHit, isInMap, InRange
  <2>6. \A k \in DOMAIN points : IsHit(points[k]) => points[k] \in measured'
    BY <1>1, <2>2, HitIsReturn
  <2> HIDE DEF points
  <2>7. PointsMeasured'
    BY <2>1, <2>5, <2>6 DEF PointsMeasured
  <2>8. OccupiedMeasured' /\ HitsMeasured' /\ InflatedWasMeasured'
    BY <1>1, <1>2 DEF MInv, OccupiedMeasured, HitsMeasured, InflatedWasMeasured, Occupied
  <2>9. cast' = 0 /\ count_hit_' = None /\ count_hit_and_miss_' = None
    BY <1>1, <1>2 DEF MInv, EndsOfCasting, IInv, HitsInBox
  <2>10. EndsOfCasting'
    BY <2>1, <2>4 DEF EndsOfCasting
  <2>11. Cast' = {}
    <3>1. \A k \in DOMAIN points : ~(k <= 0)
      BY <2>3, <2>4
    <3> QED
      BY <2>1, <2>9, <3>1 DEF Cast
  <2>12. HitsCounted'
    BY <2>11 DEF HitsCounted
  <2>13. \A v \in Voxel : count_hit_and_miss_'[v] = 0 /\ count_hit_'[v] = 0
    BY <2>9 DEF None
  <2>14. HalfAreHits'
    BY <2>13 DEF HalfAreHits
  <2> QED
    BY <2>7, <2>8, <2>10, <2>12, <2>14 DEF MInv
<1> QED
  BY <1>3, <1>4

(* One ray: a hit counts its own voxel, a voxel it does not miss at least  *)
(* half of what it adds, and is put in the queue under its own index.      *)
LEMMA CastRayCounts ==
  ASSUME IInv, NEW k \in Left, NextRay(k), NEW way \in Ways(RayEnd(k)),
         CastRayOf(k, RayEnd(k), Passes(RayEnd(k), way)), NEW v \in Voxel
  PROVE  LET p == proj_points_[k] IN
         /\ count_hit_'[v] = IF IsHit(p) /\ v = p THEN count_hit_[v] + 1 ELSE count_hit_[v]
         /\ count_hit_and_miss_'[v] >= count_hit_and_miss_[v]
         /\ IsHit(p) /\ v = p => count_hit_and_miss_'[v] > 0
         /\ NotMissed(v, k) =>
              \/ count_hit_and_miss_'[v] = count_hit_and_miss_[v]
              \/ /\ IsHit(p) /\ v = p /\ count_hit_and_miss_'[v] <= count_hit_and_miss_[v] + 2
                 /\ count_hit_and_miss_[v] = 0 => v \in cache_voxel_'
         /\ cache_voxel_ \subseteq cache_voxel_'
<1> DEFINE p == proj_points_[k]
           e == RayEnd(k)
           cells == Passes(e, way)
<1>1. TypeOK /\ stage = "cast" /\ k \in DOMAIN proj_points_
  BY DEF IInv, NextRay, Left
<1>2. count_hit_' = IF IsHit(p) THEN [count_hit_ EXCEPT ![e] = @ + 1] ELSE count_hit_
  BY DEF CastRayOf
<1>3. count_hit_and_miss_' =
        [w \in Voxel |-> count_hit_and_miss_[w] + (IF w \in Slot(e) THEN 1 ELSE 0)
                                                + (IF w \in Passed(cells) THEN 1 ELSE 0)
                                                + (IF w \in PassedTwice(cells) THEN 1 ELSE 0)]
      /\ cache_voxel_' = cache_voxel_ \cup Cached(e, cells)
  BY DEF CastRayOf
<1>4. IsHit(p) => e = p /\ Slot(p) = {p}
  BY HitEnds, SlotFacts
<1>5. \A j \in DOMAIN cells : j \in DOMAIN way /\ cells[j] = way[j]
  BY DEF Passes
<1>6. ASSUME NotMissed(v, k)
      PROVE  /\ v \in Slot(e) => v = e /\ IsHit(p)
             /\ v \notin PassedTwice(cells)
             /\ v \in Passed(cells) => v = e
  <2>1. v \in Slot(e) => v = e /\ IsHit(p)
    BY <1>6 DEF NotMissed
  <2>2. \A j \in DOMAIN way : v \in Slot(way[j]) => e = v /\ j = 1
    BY <1>6 DEF NotMissed
  <2> HIDE DEF cells, e
  <2>3. \A j \in DOMAIN cells : v \in Slot(cells[j]) => e = v /\ j = 1
    BY <1>5, <2>2
  <2>4. v \notin PassedTwice(cells)
    BY <2>3 DEF PassedTwice
  <2>5. v \in Passed(cells) => v = e
    BY <2>3 DEF Passed
  <2> QED
    BY <2>1, <2>4, <2>5
<1>7. count_hit_ \in [Voxel -> Nat] /\ count_hit_[v] \in Nat /\ count_hit_and_miss_[v] \in Nat
  BY <1>1 DEF TypeOK
<1>8. v = e => v \in Slot(e)
  BY SlotFacts
<1> HIDE DEF e, p, cells
<1>9. count_hit_'[v] = IF IsHit(p) /\ v = p THEN count_hit_[v] + 1 ELSE count_hit_[v]
  <2>1. CASE IsHit(p)
    <3>1. count_hit_' = [count_hit_ EXCEPT ![e] = @ + 1] /\ e = p
      BY <1>2, <1>4, <2>1
    <3> QED
      BY <1>7, <2>1, <3>1
  <2>2. CASE ~IsHit(p)
    <3>1. count_hit_' = count_hit_
      BY <1>2, <2>2, Zenon
    <3> QED
      BY <2>2, <3>1
  <2> QED
    BY <2>1, <2>2
<1>10. PICK a \in {0, 1}, b \in {0, 1}, c \in {0, 1} :
         /\ a = (IF v \in Slot(e) THEN 1 ELSE 0) /\ b = (IF v \in Passed(cells) THEN 1 ELSE 0)
         /\ c = (IF v \in PassedTwice(cells) THEN 1 ELSE 0)
         /\ count_hit_and_miss_'[v] = count_hit_and_miss_[v] + a + b + c
  BY <1>3
<1>11. count_hit_and_miss_'[v] >= count_hit_and_miss_[v]
  BY <1>7, <1>10
<1>12. IsHit(p) /\ v = p => count_hit_and_miss_'[v] > 0
  BY <1>4, <1>7, <1>10
<1>13. ASSUME NotMissed(v, k)
       PROVE  \/ count_hit_and_miss_'[v] = count_hit_and_miss_[v]
              \/ /\ IsHit(p) /\ v = p /\ count_hit_and_miss_'[v] <= count_hit_and_miss_[v] + 2
                 /\ count_hit_and_miss_[v] = 0 => v \in cache_voxel_'
  <2>1. CASE v = e
    <3>1. IsHit(p) /\ v = p /\ v \in Slot(e)
      BY <1>4, <1>6, <1>8, <1>13, <2>1
    <3>2. c = 0
      BY <1>6, <1>10, <1>13
    <3>3. count_hit_and_miss_'[v] <= count_hit_and_miss_[v] + 2
      BY <1>7, <1>10, <3>2
    <3>4. count_hit_and_miss_[v] = 0 => v \in Cached(e, cells)
      BY <2>1, <3>1 DEF Cached
    <3> QED
      BY <1>3, <3>1, <3>3, <3>4
  <2>2. CASE v # e
    <3>1. a = 0 /\ b = 0 /\ c = 0
      BY <1>6, <1>10, <1>13, <2>2
    <3> QED
      BY <1>7, <1>10, <3>1
  <2> QED
    BY <2>1, <2>2
<1>14. cache_voxel_ \subseteq cache_voxel_'
  BY <1>3
<1> QED
  BY <1>9, <1>11, <1>12, <1>13, <1>14 DEF p

LEMMA CastMeasured ==
  ASSUME IInv, MInv, NEW k \in Left, NextRay(k), NEW way \in Ways(RayEnd(k)),
         CastRayOf(k, RayEnd(k), Passes(RayEnd(k), way))
  PROVE  MInv'
<1>1. /\ TypeOK /\ stage = "cast" /\ stage' \in {"cast", "fuse"} /\ cast' = k /\ k \in Nat
      /\ k \in DOMAIN proj_points_ /\ k > cast /\ \A l \in Left : k <= l
      /\ stage' = (IF Left = {k} THEN "fuse" ELSE "cast")
  BY DEF IInv, NextRay, CastRayOf, Left, TypeOK
<1>2. UNCHANGED <<proj_points_, occupancy_buffer_, inflated, camera_pos_, camera_cell, camera_face,
                  has_cloud_, measured>>
  BY DEF CastRayOf, buffers, camera, flags
<1>3. \A q : IsHit(q)' <=> IsHit(q)
  BY <1>2, SameRays
<1>4. \A v, l : NotMissed(v, l)' <=> NotMissed(v, l)
  BY <1>2, SameRays
<1>5. DOMAIN proj_points_ \subseteq Nat /\ cast \in Nat
  BY <1>1 DEF TypeOK
<1>6. Cast' = Cast \cup {k}
  <2>1. ASSUME NEW l \in DOMAIN proj_points_, l <= k PROVE l <= cast \/ l = k
    <3>1. l > cast => k <= l
      BY <1>1 DEF Left
    <3> QED
      BY <1>1, <1>5, <2>1, <3>1
  <2>2. \A l \in DOMAIN proj_points_ : l <= cast => l <= k
    BY <1>1, <1>5
  <2> QED
    BY <1>1, <1>2, <2>1, <2>2 DEF Cast
<1>7. OccupiedMeasured' /\ InflatedWasMeasured' /\ PointsMeasured'
  BY <1>1, <1>2, <1>3 DEF MInv, OccupiedMeasured, InflatedWasMeasured, Occupied, PointsMeasured
<1>8. HitsMeasured'
  <2> SUFFICES ASSUME NEW v \in Voxel, count_hit_'[v] > 0 PROVE v \in measured
    BY <1>2 DEF HitsMeasured
  <2>1. count_hit_'[v] = (IF IsHit(proj_points_[k]) /\ v = proj_points_[k] THEN count_hit_[v] + 1
                          ELSE count_hit_[v])
    BY CastRayCounts
  <2>2. CASE IsHit(proj_points_[k]) /\ v = proj_points_[k]
    BY <1>1, <2>2 DEF MInv, PointsMeasured
  <2>3. CASE ~(IsHit(proj_points_[k]) /\ v = proj_points_[k])
    <3>1. count_hit_'[v] = count_hit_[v]
      BY <2>1, <2>3, Zenon
    <3> QED
      BY <3>1 DEF MInv, HitsMeasured
  <2> QED
    BY <2>2, <2>3
<1>9. EndsOfCasting'
  <2>1. stage' = "cast" => \A l \in DOMAIN proj_points_' : l >= 1
    BY <1>1, <1>2 DEF MInv, EndsOfCasting
  <2>2. ASSUME stage' = "fuse" PROVE Left' = {}
    <3>1. Left = {k}
      BY <1>1, <2>2
    <3>2. \A l \in DOMAIN proj_points_ : l > k => l > cast /\ l # k
      BY <1>1, <1>5
    <3>3. \A l \in DOMAIN proj_points_ : ~(l > k)
      BY <3>1, <3>2 DEF Left
    <3> QED
      BY <1>1, <1>2, <3>3 DEF Left
  <2> QED
    BY <1>1, <2>1, <2>2 DEF EndsOfCasting
<1>10. HitsCounted'
  <2> SUFFICES ASSUME NEW l \in Cast', IsHit(proj_points_[l])
               PROVE  /\ count_hit_'[proj_points_[l]] > 0
                      /\ count_hit_and_miss_'[proj_points_[l]] > 0
    BY <1>2, <1>3 DEF HitsCounted
  <2> DEFINE v == proj_points_[l]
  <2>1. v \in Voxel
    BY DEF IsHit, isInMap
  <2> HIDE DEF v
  <2>2. count_hit_[v] \in Nat /\ count_hit_and_miss_[v] \in Nat
    BY <1>1, <2>1 DEF TypeOK
  <2>3. /\ count_hit_'[v] = (IF IsHit(proj_points_[k]) /\ v = proj_points_[k] THEN count_hit_[v] + 1
                             ELSE count_hit_[v])
        /\ count_hit_and_miss_'[v] >= count_hit_and_miss_[v]
        /\ IsHit(proj_points_[k]) /\ v = proj_points_[k] => count_hit_and_miss_'[v] > 0
    BY <2>1, CastRayCounts
  <2>4. count_hit_and_miss_'[v] \in Nat
    <3>1. IInv'
      BY CastKeeps
    <3> QED
      BY <2>1, <3>1 DEF IInv, TypeOK
  <2>5. CASE IsHit(proj_points_[k]) /\ v = proj_points_[k]
    BY <2>2, <2>3, <2>5 DEF v
  <2>6. CASE ~(IsHit(proj_points_[k]) /\ v = proj_points_[k])
    <3>1. l # k
      BY <2>6 DEF v
    <3>2. l \in Cast
      BY <1>6, <3>1
    <3>3. count_hit_[v] > 0 /\ count_hit_and_miss_[v] > 0
      BY <1>1, <3>2 DEF MInv, HitsCounted, v
    <3>4. count_hit_'[v] = count_hit_[v]
      BY <2>3, <2>6, Zenon
    <3> QED
      BY <2>2, <2>3, <2>4, <3>3, <3>4 DEF v
  <2> QED
    BY <2>5, <2>6
<1>11. HalfAreHits'
  <2> SUFFICES ASSUME NEW v \in Voxel, \A l \in Cast' : NotMissed(v, l)
               PROVE  /\ count_hit_and_miss_'[v] <= 2 * count_hit_'[v]
                      /\ count_hit_and_miss_'[v] > 0 => v \in cache_voxel_'
    BY <1>2, <1>4 DEF HalfAreHits
  <2>1. NotMissed(v, k) /\ \A l \in Cast : NotMissed(v, l)
    BY <1>6
  <2>2. /\ count_hit_and_miss_[v] <= 2 * count_hit_[v]
        /\ count_hit_and_miss_[v] > 0 => v \in cache_voxel_
    BY <1>1, <2>1 DEF MInv, HalfAreHits
  <2>3. count_hit_[v] \in Nat /\ count_hit_and_miss_[v] \in Nat
    BY <1>1 DEF TypeOK
  <2>4. count_hit_and_miss_'[v] \in Nat
    <3>1. IInv'
      BY CastKeeps
    <3> QED
      BY <3>1 DEF IInv, TypeOK
  <2>5. count_hit_'[v] = (IF IsHit(proj_points_[k]) /\ v = proj_points_[k] THEN count_hit_[v] + 1
                          ELSE count_hit_[v])
        /\ cache_voxel_ \subseteq cache_voxel_'
    BY CastRayCounts
  <2>6. \/ count_hit_and_miss_'[v] = count_hit_and_miss_[v]
        \/ /\ IsHit(proj_points_[k]) /\ v = proj_points_[k]
           /\ count_hit_and_miss_'[v] <= count_hit_and_miss_[v] + 2
           /\ count_hit_and_miss_[v] = 0 => v \in cache_voxel_'
    BY <2>1, CastRayCounts
  <2>7. count_hit_and_miss_'[v] > 0 => v \in cache_voxel_'
    BY <2>2, <2>3, <2>5, <2>6
  <2>8. CASE IsHit(proj_points_[k]) /\ v = proj_points_[k]
    <3>1. count_hit_'[v] = count_hit_[v] + 1
      BY <2>5, <2>8, Zenon
    <3>2. count_hit_and_miss_'[v] <= count_hit_and_miss_[v] + 2
      BY <2>3, <2>6
    <3>3. count_hit_and_miss_'[v] <= 2 * count_hit_'[v]
      BY <2>2, <2>3, <2>4, <3>1, <3>2
    <3> QED
      BY <2>7, <3>3
  <2>9. CASE ~(IsHit(proj_points_[k]) /\ v = proj_points_[k])
    <3>1. count_hit_'[v] = count_hit_[v]
      BY <2>5, <2>9, Zenon
    <3>2. count_hit_and_miss_'[v] = count_hit_and_miss_[v]
      BY <2>6, <2>9
    <3>3. count_hit_and_miss_'[v] <= 2 * count_hit_'[v]
      BY <2>2, <3>1, <3>2
    <3> QED
      BY <2>7, <3>3
  <2> QED
    BY <2>8, <2>9
<1> QED
  BY <1>7, <1>8, <1>9, <1>10, <1>11 DEF MInv

(* A voxel is taken for a hit only if some ray hit it.                     *)
LEMMA FuseMeasured ==
  ASSUME IInv, MInv, FuseCached
  PROVE  MInv'
<1>1. TypeOK /\ stage = "fuse" /\ stage' = "inflate"
  BY DEF IInv, FuseCached
<1>2. UNCHANGED <<inflated, has_cloud_, measured>> /\ count_hit_' = None
  BY DEF FuseCached, flags
<1>3. occupancy_buffer_' = [v \in Voxel |-> IF count_hit_and_miss_[v] > 0 THEN Fused(v)
                                            ELSE occupancy_buffer_[v]]
  BY DEF FuseCached
<1>4. OccupiedMeasured'
  <2> SUFFICES ASSUME NEW v \in Voxel, occupancy_buffer_'[v] > min_occupancy_log_
               PROVE  v \in measured
    BY <1>2 DEF OccupiedMeasured, Occupied
  <2> DEFINE old == occupancy_buffer_[v]
  <2>1. old \in Int /\ count_hit_[v] \in Nat /\ count_hit_and_miss_[v] \in Nat
    BY <1>1, LogOddsAssumption DEF TypeOK, Unknown
  <2>2. old > min_occupancy_log_ => v \in measured
    BY DEF MInv, OccupiedMeasured, Occupied
  <2>3. CASE ~(count_hit_and_miss_[v] > 0)
    <3>1. occupancy_buffer_'[v] = old
      BY <1>3, <2>3
    <3> QED
      BY <2>2, <3>1
  <2>4. CASE count_hit_and_miss_[v] > 0 /\ MoreHits(v)
    <3>1. count_hit_[v] > 0
      BY <2>1, <2>4 DEF MoreHits
    <3> QED
      BY <3>1 DEF MInv, HitsMeasured
  <2>5. CASE count_hit_and_miss_[v] > 0 /\ ~MoreHits(v)
    <3>1. occupancy_buffer_'[v] = Fused(v)
      BY <1>3, <2>5
    <3> QED
      BY <1>1, <2>2, <2>5, <3>1, MissedIsNoNews DEF Occupied
  <2> QED
    BY <2>3, <2>4, <2>5
<1>5. HitsMeasured'
  BY <1>2 DEF HitsMeasured, None
<1>6. PointsMeasured' /\ EndsOfCasting' /\ HitsCounted' /\ HalfAreHits'
  BY <1>1, <1>2 DEF PointsMeasured, EndsOfCasting, HitsCounted, HalfAreHits
<1>7. InflatedWasMeasured'
  BY <1>2 DEF MInv, InflatedWasMeasured
<1> QED
  BY <1>4, <1>5, <1>6, <1>7 DEF MInv

LEMMA InflateMeasured ==
  ASSUME IInv, MInv, ClearAndInflate
  PROVE  MInv'
<1>1. TypeOK /\ stage = "inflate" /\ stage' = "idle"
  BY DEF IInv, ClearAndInflate
<1>2. UNCHANGED <<has_cloud_, measured, count_hit_>> /\ cast' = 0
  BY DEF ClearAndInflate
<1>3. /\ occupancy_buffer_' = [v \in Voxel |-> IF v \in Ring THEN Unknown ELSE occupancy_buffer_[v]]
      /\ inflated' = (inflated \ LocalBox)
                      \cup UNION {Inflation(v) : v \in {v \in LocalBox : Occupied(v)}}
  BY DEF ClearAndInflate
<1>4. OccupiedMeasured'
  <2> SUFFICES ASSUME NEW v \in Voxel, occupancy_buffer_'[v] > min_occupancy_log_
               PROVE  v \in measured
    BY <1>2 DEF OccupiedMeasured, Occupied
  <2>1. v \notin Ring
    BY <1>3, LogOddsAssumption DEF Unknown
  <2> QED
    BY <1>3, <2>1 DEF MInv, OccupiedMeasured, Occupied
<1>5. LocalBox \subseteq Voxel
  <2>1. local_bound_min_ \in Voxel /\ local_bound_max_ \in Voxel
    BY <1>1 DEF TypeOK
  <2>2. /\ local_bound_min_[1] \in 0 .. NX - 1 /\ local_bound_min_[2] \in 0 .. NY - 1
        /\ local_bound_max_[1] \in 0 .. NX - 1 /\ local_bound_max_[2] \in 0 .. NY - 1
    BY <2>1 DEF Voxel
  <2>3. /\ local_bound_min_[1] .. local_bound_max_[1] \subseteq 0 .. NX - 1
        /\ local_bound_min_[2] .. local_bound_max_[2] \subseteq 0 .. NY - 1
    BY <2>2, SizeAssumption
  <2> QED
    BY <2>3 DEF LocalBox, Box, Voxel
<1>6. InflatedWasMeasured'
  <2> SUFFICES ASSUME ~has_cloud_, NEW u \in inflated'
               PROVE  \E v \in measured :
                        /\ u \in Inflation(v)
                        /\ AtFace(v) \/ u \in Box(Moved(v, -inf_step), Moved(v, inf_step))
    BY <1>2 DEF InflatedWasMeasured
  <2>1. CASE u \in inflated
    BY <2>1 DEF MInv, InflatedWasMeasured
  <2>2. CASE u \notin inflated
    <3>1. PICK v \in LocalBox : Occupied(v) /\ u \in Inflation(v)
      BY <1>3, <2>2
    <3>2. v \in Voxel /\ v \in measured
      BY <1>5, <3>1 DEF MInv, OccupiedMeasured
    <3> QED
      BY <3>1, <3>2, InflationNear
  <2> QED
    BY <2>1, <2>2
<1>7. HitsMeasured'
  BY <1>2 DEF MInv, HitsMeasured
<1>8. PointsMeasured' /\ HitsCounted' /\ HalfAreHits'
  BY <1>1 DEF PointsMeasured, HitsCounted, HalfAreHits
<1>9. EndsOfCasting'
  BY <1>1, <1>2 DEF MInv, EndsOfCasting
<1> QED
  BY <1>4, <1>6, <1>7, <1>8, <1>9 DEF MInv

LEMMA StutterMeasured == MInv /\ (Undefined \/ UNCHANGED vars) => MInv'
<1> SUFFICES ASSUME MInv, Undefined \/ UNCHANGED vars PROVE MInv'
  OBVIOUS
<1>1. UNCHANGED <<occupancy_buffer_, inflated, camera_pos_, camera_cell, camera_face, has_cloud_,
                  count_hit_, count_hit_and_miss_, cache_voxel_, proj_points_, cast, stage, measured>>
  BY DEF vars, buffers, camera, flags, casting, Undefined
<1>2. \A q : IsHit(q)' <=> IsHit(q)
  BY <1>1, SameRays
<1>3. \A v, k : NotMissed(v, k)' <=> NotMissed(v, k)
  BY <1>1, SameRays
<1>4. Cast' = Cast
  BY <1>1 DEF Cast
<1>5. OccupiedMeasured' /\ HitsMeasured' /\ InflatedWasMeasured' /\ EndsOfCasting'
  BY <1>1 DEF MInv, OccupiedMeasured, HitsMeasured, InflatedWasMeasured, EndsOfCasting, Occupied, Left
<1>6. PointsMeasured' /\ HitsCounted'
  BY <1>1, <1>2, <1>4 DEF MInv, PointsMeasured, HitsCounted
<1>7. HalfAreHits'
  BY <1>1, <1>3, <1>4 DEF MInv, HalfAreHits
<1> QED
  BY <1>5, <1>6, <1>7 DEF MInv

LEMMA InitMInv == Init => MInv
<1> SUFFICES ASSUME Init PROVE MInv
  OBVIOUS
<1>1. /\ occupancy_buffer_ = [v \in Voxel |-> Unknown] /\ inflated = {} /\ stage = "idle"
      /\ count_hit_ = None /\ cast = 0
  BY DEF Init
<1>2. OccupiedMeasured
  BY <1>1, LogOddsAssumption DEF OccupiedMeasured, Occupied, Unknown
<1>3. HitsMeasured
  BY <1>1 DEF HitsMeasured, None
<1> QED
  BY <1>1, <1>2, <1>3 DEF MInv, PointsMeasured, InflatedWasMeasured, EndsOfCasting, HitsCounted,
     HalfAreHits

LEMMA NextMInv == IInv /\ MInv /\ [Next]_vars => MInv'
<1> SUFFICES ASSUME IInv, MInv, [Next]_vars PROVE MInv'
  OBVIOUS
<1>1. CASE \E pose \in Poses, img \in Images : DepthPose(pose, img) \/ DepthOdom(pose, img)
  <2>1. PICK pose \in Poses, img \in Images : TakeImage(pose, img)
    BY <1>1 DEF DepthPose, DepthOdom
  <2> QED
    BY <2>1, QuietMeasured DEF TakeImage, buffers, casting
<1>2. CASE \E pos \in Odoms : Odom(pos)
  BY <1>2, QuietMeasured DEF Odom, buffers, casting
<1>3. CASE \E cloud \in Clouds : Cloud(cloud)
  BY <1>3, QuietMeasured DEF Cloud, casting
<1>4. CASE Silent \/ FirstImage
  BY <1>4, QuietMeasured DEF Silent, FirstImage, buffers, casting
<1>5. CASE ProjectDepthImage
  BY <1>5, ProjectMeasures
<1>6. CASE CastRay
  BY <1>6, CastMeasured DEF CastRay
<1>7. CASE FuseCached \/ ClearAndInflate
  BY <1>7, FuseMeasured, InflateMeasured
<1>8. CASE Undefined \/ UNCHANGED vars
  BY <1>8, StutterMeasured
<1> QED
  BY <1>1, <1>2, <1>3, <1>4, <1>5, <1>6, <1>7, <1>8 DEF Next, Timer

LEMMA Measured == Spec => [](IInv /\ MInv)
<1>1. Init => IInv /\ MInv
  BY InitIInv, InitMInv
<1>2. (IInv /\ MInv) /\ [Next]_vars => (IInv /\ MInv)'
  BY NextIInv, NextMInv
<1> QED
  BY <1>1, <1>2, PTL DEF Spec

(* No obstacle out of nothing, but for what wraps around the map's faces   *)
(* (projectDepthImage, raycastProcess, clearAndInflateLocalMap).           *)
THEOREM NoObstacleInvented == Spec => []InflatedWasMeasured
<1>1. IInv /\ MInv => InflatedWasMeasured
  BY DEF MInv
<1> QED
  BY <1>1, Measured, PTL

-----------------------------------------------------------------------------
(* What a surface gets when the image is fused.                            *)

LEMMA InRangeIsLocal ==
  ASSUME TypeOK, max_ray_length_ <= local_update_range_, NEW v \in Voxel, InRange(v),
         v \in cache_voxel_
  PROVE  InLocal(v)
<1>1. /\ camera_pos_[1] \in Int /\ camera_pos_[2] \in Int /\ camera_pos_ \in Position
      /\ v[1] \in Int /\ v[2] \in Int /\ v = <<v[1], v[2]>>
  BY SizeAssumption DEF TypeOK, Position, Voxel
<1>2. max_ray_length_ \in Nat /\ local_update_range_ \in Nat
  BY ImageAssumption
<1>3. PICK x \in Int, y \in Int : x = v[1] - camera_pos_[1] /\ y = v[2] - camera_pos_[2]
  BY <1>1
<1>4. Square(x) + Square(y) <= Square(max_ray_length_)
  BY <1>3 DEF InRange
<1>5. Square(x) \in Nat /\ Square(y) \in Nat /\ Square(max_ray_length_) \in Nat
  BY <1>2, SquareFacts
<1>6. Square(x) <= Square(max_ray_length_) /\ Square(y) <= Square(max_ray_length_)
  BY <1>4, <1>5
<1>7. -max_ray_length_ <= x /\ x <= max_ray_length_ /\ -max_ray_length_ <= y /\ y <= max_ray_length_
  BY <1>2, <1>6, SquareFacts
<1>8. /\ v[1] \in camera_pos_[1] + (-local_update_range_) .. camera_pos_[1] + local_update_range_
      /\ v[2] \in camera_pos_[2] + (-local_update_range_) .. camera_pos_[2] + local_update_range_
  BY <1>1, <1>2, <1>3, <1>7
<1>9. v \in Box(Moved(camera_pos_, -local_update_range_), Moved(camera_pos_, local_update_range_))
  BY <1>1, <1>8 DEF Box, Moved
<1>10. /\ Moved(camera_pos_, -local_update_range_) \in Position
       /\ Moved(camera_pos_, local_update_range_) \in Position
  BY <1>1, <1>2, MovedPosition
<1> QED
  BY <1>9, <1>10, BoundKeeps DEF InLocal

LEMMA SurfaceGains ==
  ASSUME max_ray_length_ <= local_update_range_, IInv, MInv, FuseCached,
         NEW v \in Voxel, MeasuredSurface(v)
  PROVE  occupancy_buffer_'[v] > occupancy_buffer_[v] \/ occupancy_buffer_'[v] = clamp_max_log_
<1> DEFINE old == occupancy_buffer_[v]
<1>1. TypeOK /\ stage = "fuse" /\ Left = {}
  BY DEF IInv, FuseCached, MInv, EndsOfCasting
<1>2. /\ DOMAIN proj_points_ \subseteq Nat /\ cast \in Nat
      /\ old \in Int /\ old >= -1 /\ old <= clamp_max_log_
      /\ count_hit_[v] \in Nat /\ count_hit_and_miss_[v] \in Nat
  BY <1>1, LogOddsAssumption DEF TypeOK, Unknown
<1>3. Cast = DOMAIN proj_points_
  BY <1>1, <1>2 DEF Left, Cast
<1>4. PICK k \in DOMAIN proj_points_ : proj_points_[k] = v /\ IsHit(v)
  BY DEF MeasuredSurface
<1>5. count_hit_[v] > 0 /\ count_hit_and_miss_[v] > 0
  BY <1>1, <1>3, <1>4 DEF MInv, HitsCounted
<1>6. count_hit_and_miss_[v] <= 2 * count_hit_[v] /\ v \in cache_voxel_
  BY <1>1, <1>3, <1>5 DEF MInv, HalfAreHits, MeasuredSurface
<1>7. MoreHits(v)
  BY <1>2, <1>6 DEF MoreHits
<1>8. InLocal(v)
  BY <1>1, <1>4, <1>6, InRangeIsLocal DEF IsHit
<1>9. occupancy_buffer_'[v] = Fused(v)
  BY <1>5 DEF FuseCached
<1>10. Fused(v) = IF old >= clamp_max_log_ THEN old ELSE Clamp(old + prob_hit_log_)
  BY <1>7, <1>8 DEF Fused
<1> HIDE DEF old
<1>11. clamp_max_log_ \in Nat /\ prob_hit_log_ \in Nat \ {0}
  BY LogOddsAssumption
<1>12. CASE old >= clamp_max_log_
  BY <1>2, <1>9, <1>10, <1>11, <1>12
<1>13. CASE ~(old >= clamp_max_log_)
  <2>1. PICK x \in Nat : x = old + prob_hit_log_ /\ x > old
    BY <1>2, <1>11
  <2>2. Clamp(x) = x \/ Clamp(x) = clamp_max_log_
    BY <1>11 DEF Clamp, Least, Greatest
  <2>3. occupancy_buffer_'[v] = Clamp(x)
    BY <1>9, <1>10, <1>13, <2>1
  <2> QED
    BY <2>1, <2>2, <2>3 DEF old
<1> QED
  BY <1>12, <1>13

(* Where the rays are no longer than the update range, a measured surface  *)
(* that no ray misses becomes more likely an obstacle (setCacheOccupancy   *)
(* and the loop over cache_voxel_).                                        *)
THEOREM SurfacesAreHit ==
  ASSUME max_ray_length_ <= local_update_range_
  PROVE  Spec => SurfaceIsHit
<1>1. ASSUME IInv, MInv, [Next]_vars
      PROVE  [stage = "fuse" =>
                \A v \in Voxel : MeasuredSurface(v) =>
                  \/ occupancy_buffer_'[v] > occupancy_buffer_[v]
                  \/ occupancy_buffer_'[v] = clamp_max_log_]_vars
  <2>1. stage = "fuse" => FuseCached \/ UNCHANGED vars
    BY <1>1 DEF Next, Timer, DepthPose, DepthOdom, TakeImage, Odom, Cloud, Silent, FirstImage,
       ProjectDepthImage, CastRay, NextRay, Undefined, ClearAndInflate
  <2> QED
    BY <1>1, <2>1, SurfaceGains
<1>2. IInv /\ MInv /\ [Next]_vars => [stage = "fuse" =>
                \A v \in Voxel : MeasuredSurface(v) =>
                  \/ occupancy_buffer_'[v] > occupancy_buffer_[v]
                  \/ occupancy_buffer_'[v] = clamp_max_log_]_vars
  BY <1>1
<1> QED
  BY <1>2, Measured, PTL DEF Spec, SurfaceIsHit
=============================================================================
