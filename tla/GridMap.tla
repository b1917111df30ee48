------------------------------- MODULE GridMap -------------------------------
(***************************************************************************)
(* The planner's map (plan_env/grid_map.cpp): depth images and the poses   *)
(* they were taken at are cast, ray by ray, into a buffer of log-odds,     *)
(* from which the timer builds the inflated map that the planner reads.    *)
(*                                                                         *)
(* Two of the three axes are modelled: every loop treats them alike.  A    *)
(* position is the voxel it lies in and may lie outside of the map, an     *)
(* image is the row of its pixels' depths.  Log-odds are shifted so that   *)
(* clamp_min_log_ is 0; an unknown voxel, a hair below it, has -1.         *)
(*                                                                         *)
(* The ray caster has a grid of its own, with a cell corner at the world's *)
(* origin, where the map's begins at map_origin_: the cell of a position,  *)
(* named by the voxel its middle lies in, may be a neighbour of its voxel. *)
(*                                                                         *)
(* ros::spin has one thread, so nothing interleaves with the timer's       *)
(* callback.  It is cut at its loops: one step for each point of the image *)
(* (CastRay), one for the cached voxels (FuseCached), one for the          *)
(* inflation (ClearAndInflate).                                            *)
(***************************************************************************)
EXTENDS Integers, Sequences, FiniteSets, FiniteSetsExt

CONSTANTS
  NX, NY,            \* map_voxel_num_
  PoseTypes,         \* what pose_type_ may be: "POSE_STAMPED", "ODOMETRY"
  Poses,             \* camera poses: [pos, cell, face], face is +1 or -1
  CellOffsets,       \* from a position's voxel to its ray caster's cell
  Images,            \* depth images: depths of the pixels, 0 is no return
  Slope,             \* Slope[k]: how far pixel k looks aside per unit of depth
  Odoms,             \* positions the odometry reports
  Clouds,            \* point clouds: sets of positions
  Line(_, _),        \* the voxels RayCaster visits from one voxel to another
  depth_filter_mindist_, depth_filter_maxdist_,
  max_ray_length_, local_update_range_,
  prob_hit_log_, prob_miss_log_,      \* both positive: what is added or taken
  clamp_max_log_, min_occupancy_log_,
  inf_step,          \* obstacles_inflation_ in voxels
  local_map_margin_, vec_margin,
  CharSize,          \* how many values a char has
  Timeout,           \* odom_depth_timeout_ in periods of the timer
  MaxFrames          \* bound: depth images received

Voxel == (0 .. NX - 1) \X (0 .. NY - 1)

Position == Int \X Int

Unknown == -1

(* The voxels between two corners.                                         *)
Least(a, b) == IF a <= b THEN a ELSE b
Greatest(a, b) == IF a >= b THEN a ELSE b

Box(a, b) == (a[1] .. b[1]) \X (a[2] .. b[2])

Low(a, b) == <<Least(a[1], b[1]), Least(a[2], b[2])>>
High(a, b) == <<Greatest(a[1], b[1]), Greatest(a[2], b[2])>>

Moved(v, d) == <<v[1] + d, v[2] + d>>

ASSUME SizeAssumption ==
  /\ NX \in Nat \ {0} /\ NY \in Nat \ {0}
  /\ CharSize \in Nat \ {0} /\ Timeout \in Nat /\ MaxFrames \in Nat
  /\ inf_step \in Nat /\ local_map_margin_ \in Nat /\ vec_margin \in Nat

ASSUME LogOddsAssumption ==
  /\ prob_hit_log_ \in Nat \ {0} /\ prob_miss_log_ \in Nat \ {0}
  /\ clamp_max_log_ \in Nat /\ min_occupancy_log_ \in Nat

(* The nearest depths are filtered: a point is never at the camera.        *)
ASSUME FilterAssumption == depth_filter_mindist_ \in Nat \ {0} /\ depth_filter_maxdist_ \in Nat

ASSUME InputAssumption ==
  /\ PoseTypes \subseteq {"POSE_STAMPED", "ODOMETRY"}
  /\ \A pose \in Poses : pose.pos \in Position /\ pose.face \in {1, -1}
  /\ Odoms \subseteq Position
  /\ \A cloud \in Clouds : cloud \subseteq Position

(* Where pixel k of a camera points at a depth.  A pixel without a return  *)
(* points too far.                                                         *)
Far == max_ray_length_ + 1

Ahead(pos, face, k, d) == <<pos[1] + face * d, pos[2] + face * d * Slope[k]>>

Pixels(img) == 1 .. Len(img) - 1

ASSUME ImageAssumption ==
  /\ Images \subseteq Seq(Nat) /\ max_ray_length_ \in Nat /\ local_update_range_ \in Nat
  /\ \A img \in Images : \A k \in Pixels(img) : Slope[k] \in Int

(* The line from a camera to what it sees, or beyond, starts at the camera.*)
ASSUME RayAssumption ==
  \A pose \in Poses, img \in Images : \A k \in Pixels(img) : \A d \in {img[k], Far} :
    LET way == Line(pose.pos, Ahead(pose.pos, pose.face, k, d))
    IN  way \in Seq(Position) /\ way # <<>> /\ way[1] = pose.pos

isInMap(v) == v \in Voxel

boundIndex(v) == <<Greatest(Least(v[1], NX - 1), 0),
                   Greatest(Least(v[2], NY - 1), 0)>>

toAddress(v) == v[1] * NY + v[2]

(* The voxel with the address of a position: its own, where it is in the   *)
(* map, or that of another row, or none, where the address is outside the  *)
(* buffers.                                                                *)
Slot(p) == IF isInMap(p) THEN {p} ELSE {u \in Voxel : toAddress(u) = toAddress(p)}

(* The voxels that the points of inflatePoint are written to: the buffer's *)
(* range is tested, not the axes, so that a point beyond a face of the map *)
(* lands on the next row.                                                  *)
Inflation(v) ==
  {u \in Voxel : \E i, j \in -inf_step .. inf_step :
                    toAddress(u) = toAddress(<<v[1] + i, v[2] + j>>)}
-----------------------------------------------------------------------------
VARIABLES
  pose_type_,
  undefined,         \* memory outside of the buffers was written
  occupancy_buffer_, inflated,          \* log-odds; occupancy_buffer_inflate_
  camera_pos_, camera_cell, camera_face, depth_image_,
  occ_need_update_, has_first_depth_, has_odom_, has_cloud_,
  flag_use_depth_fusion, flag_depth_odom_timeout_,
  silence,           \* now - last_occ_update_time_ at the next timer event
  local_bound_min_, local_bound_max_,
  raycast_num_, flag_rayend_, flag_traverse_, count_hit_, count_hit_and_miss_,
  cache_voxel_,      \* the voxels in the queue under their own index
  stage,             \* where in the timer's callback
  proj_points_, cast,                   \* the points of the pixels; the last pixel cast
  box_min, box_max,  \* min_x ... max_z
  frames,            \* depth images received so far
  taken, measured    \* ghosts: the image's pose; voxels measured occupied

config  == <<pose_type_, undefined>>
buffers == <<occupancy_buffer_, inflated>>
camera  == <<camera_pos_, camera_cell, camera_face, depth_image_, taken>>
flags   == <<occ_need_update_, has_first_depth_, has_odom_, has_cloud_,
             flag_use_depth_fusion, flag_depth_odom_timeout_, silence, frames>>
bounds  == <<local_bound_min_, local_bound_max_>>
casting == <<raycast_num_, flag_rayend_, flag_traverse_, count_hit_,
             count_hit_and_miss_, cache_voxel_, proj_points_, cast, box_min, box_max>>
vars    == <<config, buffers, camera, flags, bounds, casting, stage, measured>>

TypeOK ==
  /\ pose_type_ \in PoseTypes /\ undefined \in BOOLEAN
  /\ occupancy_buffer_ \in [Voxel -> Unknown .. clamp_max_log_]
  /\ inflated \subseteq Voxel
  /\ camera_pos_ \in Position /\ camera_face \in {1, -1}
  /\ depth_image_ \in Images \cup {<<>>}
  /\ \A f \in {occ_need_update_, has_first_depth_, has_odom_, has_cloud_,
               flag_use_depth_fusion, flag_depth_odom_timeout_} : f \in BOOLEAN
  /\ silence \in 0 .. Timeout + 1 /\ frames \in 0 .. MaxFrames
  /\ local_bound_min_ \in Voxel /\ local_bound_max_ \in Voxel
  /\ raycast_num_ \in 0 .. CharSize - 1
  /\ flag_rayend_ \in [Voxel -> 0 .. CharSize - 1]
  /\ flag_traverse_ \in [Voxel -> 0 .. CharSize - 1]
  /\ count_hit_ \in [Voxel -> Nat] /\ count_hit_and_miss_ \in [Voxel -> Nat]
  /\ cache_voxel_ \subseteq Voxel
  /\ stage \in {"idle", "cast", "fuse", "inflate"}
  /\ DOMAIN proj_points_ \subseteq Nat /\ cast \in Nat
  /\ \A k \in DOMAIN proj_points_ : proj_points_[k] \in Position
  /\ box_min \in Position /\ box_max \in Position
  /\ taken \in Position /\ measured \subseteq Voxel

None == [v \in Voxel |-> 0]

(* initMap.  The positions start with whatever the memory holds; the map's *)
(* first voxel stands for it, nothing reads them before they are set.      *)
Init ==
  /\ pose_type_ \in PoseTypes /\ undefined = FALSE
  /\ occupancy_buffer_ = [v \in Voxel |-> Unknown] /\ inflated = {}
  /\ camera_pos_ = <<0, 0>> /\ camera_cell = <<0, 0>> /\ camera_face = 1 /\ depth_image_ = <<>>
  /\ occ_need_update_ = FALSE /\ has_first_depth_ = FALSE
  /\ has_odom_ = FALSE /\ has_cloud_ = FALSE
  /\ flag_use_depth_fusion = FALSE /\ flag_depth_odom_timeout_ = FALSE
  /\ silence = 0 /\ frames = 0
  /\ local_bound_min_ = <<0, 0>> /\ local_bound_max_ = <<0, 0>>
  /\ raycast_num_ = 0
  /\ flag_rayend_ = [v \in Voxel |-> CharSize - 1]
  /\ flag_traverse_ = [v \in Voxel |-> CharSize - 1]
  /\ count_hit_ = None /\ count_hit_and_miss_ = None /\ cache_voxel_ = {}
  /\ stage = "idle" /\ proj_points_ = <<>> /\ cast = 0
  /\ box_min = <<0, 0>> /\ box_max = <<0, 0>>
  /\ taken = <<0, 0>> /\ measured = {}
-----------------------------------------------------------------------------
(* An image and the camera's pose replace the last ones, whether or not    *)
(* the timer has used those.                                               *)
TakeImage(pose, img) ==
  /\ stage = "idle"
  /\ frames < MaxFrames /\ frames' = frames + 1
  /\ depth_image_' = img
  /\ camera_pos_' = pose.pos /\ camera_cell' = pose.cell /\ camera_face' = pose.face
  /\ taken' = pose.pos
  /\ flag_use_depth_fusion' = TRUE
  /\ UNCHANGED <<config, has_first_depth_, has_cloud_, flag_depth_odom_timeout_, silence,
                 buffers, bounds, casting, stage, measured>>

(* depthPoseCallback: from outside the map the image is not used.          *)
DepthPose(pose, img) ==
  /\ pose_type_ = "POSE_STAMPED"
  /\ TakeImage(pose, img)
  /\ occ_need_update_' = isInMap(pose.pos)
  /\ has_odom_' = (has_odom_ \/ isInMap(pose.pos))

(* depthOdomCallback: the pose is that of the odometry and the extrinsics  *)
(* (extrinsicCallback) at that time, and may be anywhere.                  *)
DepthOdom(pose, img) ==
  /\ pose_type_ = "ODOMETRY"
  /\ TakeImage(pose, img)
  /\ occ_need_update_' = TRUE
  /\ UNCHANGED has_odom_

(* odomCallback: the odometry moves the camera until a depth image has     *)
(* been used.                                                              *)
OdomAlwaysMoves == TRUE

OdomMoves == ~has_first_depth_

Odom(pos) ==
  /\ stage = "idle"
  /\ OdomMoves
  /\ camera_pos_' = pos /\ has_odom_' = TRUE
  /\ UNCHANGED <<config, camera_cell, camera_face, depth_image_, taken, occ_need_update_,
                 has_first_depth_, has_cloud_, flag_use_depth_fusion,
                 flag_depth_odom_timeout_, silence, frames, buffers, bounds,
                 casting, stage, measured>>

(* The points of a cloud that lie within the update range of the camera.   *)
Near(cloud) ==
  {p \in cloud : \A i \in {1, 2} :
     /\ p[i] - camera_pos_[i] < local_update_range_
     /\ camera_pos_[i] - p[i] < local_update_range_}

Cubes(cloud) == UNION {Box(Moved(p, -inf_step), Moved(p, inf_step)) : p \in cloud}

(* The corners of a set of positions, starting from given ones.            *)
LowOf(S, a) == <<Min({v[1] : v \in S} \cup {a[1]}), Min({v[2] : v \in S} \cup {a[2]})>>
HighOf(S, a) == <<Max({v[1] : v \in S} \cup {a[1]}), Max({v[2] : v \in S} \cup {a[2]})>>

(* cloudCallback: the inflated map around the camera is built anew from    *)
(* the cloud.                                                              *)
Cloud(cloud) ==
  /\ stage = "idle"
  /\ has_cloud_' = TRUE
  /\ IF has_odom_ /\ cloud # {}
     THEN /\ inflated' = (inflated \ Box(boundIndex(Moved(camera_pos_, -local_update_range_)),
                                         boundIndex(Moved(camera_pos_, local_update_range_))))
                         \cup (Cubes(Near(cloud)) \cap Voxel)
          /\ local_bound_min_' = boundIndex(LowOf(Cubes(Near(cloud)), camera_pos_))
          /\ local_bound_max_' = boundIndex(HighOf(Cubes(Near(cloud)), camera_pos_))
     ELSE UNCHANGED <<inflated, bounds>>
  /\ UNCHANGED <<config, occupancy_buffer_, camera, occ_need_update_, has_first_depth_,
                 has_odom_, flag_use_depth_fusion, flag_depth_odom_timeout_,
                 silence, frames, casting, stage, measured>>
-----------------------------------------------------------------------------
(* The depth that projectDepthImage uses for pixel k.  The pointer has     *)
(* moved on when it is asked whether there was a return: the answer is the *)
(* next pixel's.                                                           *)
Skipped(img, k) == img[k + 1] # 0 /\ img[k] < depth_filter_mindist_

Depth(img, k) ==
  IF img[k + 1] = 0 \/ img[k] > depth_filter_maxdist_ THEN Far ELSE img[k]

At(k, d) == Ahead(camera_pos_, camera_face, k, d)

Projected(img) ==
  [k \in {k \in Pixels(img) : ~Skipped(img, k)} |-> At(k, Depth(img, k))]

Square(n) == n * n

InRange(p) ==
  Square(p[1] - camera_pos_[1]) + Square(p[2] - camera_pos_[2])
    <= Square(max_ray_length_)

(* What the image really measured: returns in the sensor's range.          *)
Returns(img) ==
  {At(k, img[k]) : k \in {k \in Pixels(img) :
     img[k] \in depth_filter_mindist_ .. depth_filter_maxdist_ /\ img[k] > 0}}

(* updateOccupancyCallback without an image: the alarm.                    *)
Silent ==
  /\ stage = "idle" /\ ~occ_need_update_
  /\ flag_depth_odom_timeout_' =
       (flag_depth_odom_timeout_ \/ (flag_use_depth_fusion /\ silence > Timeout))
  /\ silence' = Least(silence + 1, Timeout + 1)
  /\ UNCHANGED <<config, occ_need_update_, has_first_depth_, has_odom_, has_cloud_,
                 flag_use_depth_fusion, frames, buffers, camera, bounds, casting,
                 stage, measured>>

(* updateOccupancyCallback with the first image: it is only noted, and     *)
(* raycastProcess finds no point.                                          *)
FirstImage ==
  /\ stage = "idle" /\ occ_need_update_ /\ ~has_first_depth_
  /\ silence' = 1 /\ has_first_depth_' = TRUE /\ occ_need_update_' = FALSE
  /\ UNCHANGED <<config, has_odom_, has_cloud_, flag_use_depth_fusion,
                 flag_depth_odom_timeout_, frames, buffers, camera, bounds,
                 casting, stage, measured>>

(* updateOccupancyCallback with a later image: projectDepthImage and the   *)
(* head of raycastProcess.                                                 *)
ProjectDepthImage ==
  /\ stage = "idle" /\ occ_need_update_ /\ has_first_depth_
  /\ silence' = 1
  /\ LET points == Projected(depth_image_)
     IN  IF points = <<>>
         THEN /\ occ_need_update_' = FALSE
              /\ UNCHANGED <<stage, raycast_num_, proj_points_, box_min, box_max>>
         ELSE /\ stage' = "cast" /\ proj_points_' = points
              /\ raycast_num_' = (raycast_num_ + 1) % CharSize
              /\ box_min' = <<NX - 1, NY - 1>> /\ box_max' = <<0, 0>>
              /\ UNCHANGED occ_need_update_
  /\ measured' = measured \cup
                   {v \in Voxel : v \in Returns(depth_image_) /\ InRange(v)}
  /\ UNCHANGED <<config, has_first_depth_, has_odom_, has_cloud_, flag_use_depth_fusion,
                 flag_depth_odom_timeout_, frames, buffers, camera, bounds,
                 flag_rayend_, flag_traverse_, count_hit_, count_hit_and_miss_,
                 cache_voxel_, cast>>

(* Where the ray of pixel k ends: at its point, or, cut to max_ray_length_ *)
(* and for a point outside by closetPointInMap, at the last position that  *)
(* is in range and before the first plane of a face of the map that the    *)
(* ray crosses.  From outside, that plane is crossed on the way in.        *)
IsHitAnyRange(p) == isInMap(p)

IsHit(p) == isInMap(p) /\ InRange(p)

SameSide(p, q) ==
  /\ (p[1] < 0 <=> q[1] < 0) /\ (p[1] >= NX <=> q[1] >= NX)
  /\ (p[2] < 0 <=> q[2] < 0) /\ (p[2] >= NY <=> q[2] >= NY)

RayEnd(k) ==
  LET p == proj_points_[k]
      way == Line(camera_pos_, IF isInMap(p) THEN p ELSE At(k, Far))
      usable == {j \in DOMAIN way : /\ InRange(way[j])
                                    /\ isInMap(p) \/ SameSide(way[j], camera_pos_)}
  IN  IF IsHit(p) THEN p ELSE way[CHOOSE j \in usable : \A l \in usable : l <= j]

(* The cells of a ray, from its end to the camera's, which it does not     *)
(* count.                                                                  *)
Cells(p) == {<<p[1] + o[1], p[2] + o[2]>> : o \in CellOffsets}

Ways(end) ==
  {LET line == Line(cell, camera_cell) IN [j \in 1 .. Len(line) - 1 |-> line[j]] :
     cell \in Cells(end)}

(* Those it passes: up to the first that another ray of this image, or     *)
(* this one under another index, has passed, that one included.  A ray     *)
(* that ends where another has ended is not cast.                          *)
PassedBefore(way, l) ==
  \/ \E u \in Slot(way[l]) : flag_traverse_[u] = raycast_num_
  \/ \E m \in 1 .. l - 1 : Slot(way[m]) \cap Slot(way[l]) # {}

Passes(end, way) ==
  [j \in {j \in DOMAIN way : /\ \A u \in Slot(end) : flag_rayend_[u] # raycast_num_
                             /\ \A l \in 1 .. j - 1 : ~PassedBefore(way, l)} |-> way[j]]

Passed(cells) == UNION {Slot(cells[j]) : j \in DOMAIN cells}

PassedTwice(cells) ==
  {u \in Voxel : \E j, l \in DOMAIN cells : j # l /\ u \in Slot(cells[j]) /\ u \in Slot(cells[l])}

OutsideBuffer(end, cells) == Slot(end) = {} \/ \E j \in DOMAIN cells : Slot(cells[j]) = {}

(* The voxels that this ray puts in the queue under their own index: those *)
(* it counts first, and not by way of another position.                    *)
Cached(end, cells) ==
  {u \in Slot(end) \cup Passed(cells) :
     /\ count_hit_and_miss_[u] = 0
     /\ IF u \in Slot(end) THEN u = end
        ELSE \E j \in DOMAIN cells : u = cells[j] /\ \A l \in 1 .. j - 1 : u \notin Slot(cells[l])}

(* The loop of raycastProcess: setCacheOccupancy for the end of the ray    *)
(* and for every cell it passes.                                           *)
Left == {k \in DOMAIN proj_points_ : k > cast}

CastRayOf(k, end, cells) ==
  /\ ~OutsideBuffer(end, cells)
  /\ count_hit_' = IF IsHit(proj_points_[k]) THEN [count_hit_ EXCEPT ![end] = @ + 1]
                   ELSE count_hit_
  /\ LET passed == Passed(cells)
         twice == PassedTwice(cells)
     IN  /\ count_hit_and_miss_' =
              [v \in Voxel |-> count_hit_and_miss_[v]
                                 + (IF v \in Slot(end) THEN 1 ELSE 0)
                                 + (IF v \in passed THEN 1 ELSE 0)
                                 + (IF v \in twice THEN 1 ELSE 0)]
         /\ flag_traverse_' = [v \in Voxel |-> IF v \in passed THEN raycast_num_
                                               ELSE flag_traverse_[v]]
  /\ cache_voxel_' = cache_voxel_ \cup Cached(end, cells)
  /\ flag_rayend_' = [v \in Voxel |-> IF v \in Slot(end) THEN raycast_num_ ELSE flag_rayend_[v]]
  /\ box_min' = Low(box_min, end) /\ box_max' = High(box_max, end)
  /\ cast' = k
  /\ stage' = IF Left = {k} THEN "fuse" ELSE "cast"
  /\ UNCHANGED <<config, raycast_num_, proj_points_, buffers, camera, flags, bounds, measured>>

NextRay(k) == stage = "cast" /\ \A l \in Left : k <= l

CastRay ==
  \E k \in Left : NextRay(k) /\ \E way \in Ways(RayEnd(k)) :
    CastRayOf(k, RayEnd(k), Passes(RayEnd(k), way))

(* A ray of a camera outside the map, or at its border in the ray caster's *)
(* grid, may count a voxel that the buffers do not have.                   *)
Undefined ==
  /\ \E k \in Left : NextRay(k) /\ \E way \in Ways(RayEnd(k)) :
       OutsideBuffer(RayEnd(k), Passes(RayEnd(k), way))
  /\ undefined' = TRUE
  /\ UNCHANGED <<pose_type_, buffers, camera, flags, bounds, casting, stage, measured>>

(* One cached voxel's log-odds after the update.  One that is in the queue *)
(* under the index of a position outside is not in the local range.        *)
InLocal(v) == v \in cache_voxel_ \cap Box(boundIndex(Moved(camera_pos_, -local_update_range_)),
                        boundIndex(Moved(camera_pos_, local_update_range_)))

MostlyHits(v) == count_hit_[v] > count_hit_and_miss_[v] - count_hit_[v]

MoreHits(v) == count_hit_[v] >= count_hit_and_miss_[v] - count_hit_[v]

Clamp(x) == Least(Greatest(x, 0), clamp_max_log_)

Fused(v) ==
  LET old == occupancy_buffer_[v]
      base == IF InLocal(v) THEN old ELSE 0
  IN  IF MoreHits(v)
      THEN IF old >= clamp_max_log_ THEN old ELSE Clamp(base + prob_hit_log_)
      ELSE IF old <= 0 THEN 0 ELSE Clamp(base - prob_miss_log_)

(* The rest of raycastProcess: the local bounds and the cached voxels.     *)
FuseCached ==
  /\ stage = "fuse"
  /\ stage' = "inflate"
  /\ local_bound_min_' = boundIndex(Low(box_min, camera_pos_))
  /\ local_bound_max_' = boundIndex(High(box_max, camera_pos_))
  /\ occupancy_buffer_' =
       [v \in Voxel |-> IF count_hit_and_miss_[v] > 0 THEN Fused(v)
                        ELSE occupancy_buffer_[v]]
  /\ count_hit_' = None /\ count_hit_and_miss_' = None /\ cache_voxel_' = {}
  /\ UNCHANGED <<config, inflated, camera, flags, raycast_num_, flag_rayend_,
                 flag_traverse_, proj_points_, cast, box_min, box_max, measured>>

Occupied(v) == occupancy_buffer_[v] > min_occupancy_log_

LocalBoxOpen == Box(local_bound_min_, Moved(local_bound_max_, -1))

LocalBox == Box(local_bound_min_, local_bound_max_)

(* The ring around the local map that is forgotten.                        *)
Cut(d) == Box(boundIndex(Moved(local_bound_min_, -d)), boundIndex(Moved(local_bound_max_, d)))

CutWithin(d, e) ==
  Box(boundIndex(Moved(boundIndex(Moved(local_bound_min_, -d)), -e)),
      boundIndex(Moved(boundIndex(Moved(local_bound_max_, d)), e)))

Ring == CutWithin(local_map_margin_, vec_margin) \ Cut(local_map_margin_)

(* clearAndInflateLocalMap and the end of the callback.                    *)
ClearAndInflate ==
  /\ stage = "inflate"
  /\ stage' = "idle" /\ occ_need_update_' = FALSE
  /\ occupancy_buffer_' = [v \in Voxel |-> IF v \in Ring THEN Unknown
                                           ELSE occupancy_buffer_[v]]
  /\ inflated' = (inflated \ LocalBox)
                 \cup UNION {Inflation(v) : v \in {v \in LocalBox : Occupied(v)}}
  /\ proj_points_' = <<>> /\ cast' = 0
  /\ box_min' = <<0, 0>> /\ box_max' = <<0, 0>>
  /\ UNCHANGED <<config, camera, has_first_depth_, has_odom_, has_cloud_,
                 flag_use_depth_fusion, flag_depth_odom_timeout_, silence, frames,
                 bounds, raycast_num_, flag_rayend_, flag_traverse_, count_hit_,
                 count_hit_and_miss_, cache_voxel_, measured>>

Timer == Silent \/ FirstImage \/ ProjectDepthImage \/ CastRay \/ Undefined \/ FuseCached
           \/ ClearAndInflate

Next ==
  /\ ~undefined
  /\ \/ \E pose \in Poses, img \in Images : DepthPose(pose, img) \/ DepthOdom(pose, img)
     \/ \E pos \in Odoms : Odom(pos)
     \/ \E cloud \in Clouds : Cloud(cloud)
     \/ Timer

Spec == Init /\ [][Next]_vars

-----------------------------------------------------------------------------
(* An obstacle is never missing from the map that the planner reads, even  *)
(* where the local box of a later image has cleared it: what the box       *)
(* clears it rebuilds, and what lies outside is not touched.  A point      *)
(* cloud takes the inflated map over and is excepted.                      *)
OccupiedIsInflated ==
  stage = "idle" /\ ~has_cloud_ => \A v \in Voxel : Occupied(v) => v \in inflated

(* An image is only ever cast from the pose it was taken at: odometry      *)
(* between the image and the timer does not move the camera (odomCallback  *)
(* and the first image, which is not used).  With stamped poses it is cast *)
(* from inside the map only; depthOdomCallback does not ask.               *)
CastsFromItsPose ==
  occ_need_update_ /\ has_first_depth_ =>
    /\ camera_pos_ = taken
    /\ pose_type_ = "POSE_STAMPED" => isInMap(taken)

(* No obstacle out of nothing: an inflated voxel is near one that was once *)
(* measured, or such a voxel lies so near a face of the map that its       *)
(* inflation came out on the other side.  Points out of range or out of    *)
(* the map, and pixels without a return, make no obstacle.                 *)
AtFace(v) == \E i \in {1, 2} : v[i] < inf_step \/ v[i] > (IF i = 1 THEN NX ELSE NY) - 1 - inf_step

InflatedWasMeasured ==
  ~has_cloud_ => \A u \in inflated : \E v \in measured :
                   u \in Inflation(v)
                   /\ (AtFace(v) \/ u \in Box(Moved(v, -inf_step), Moved(v, inf_step)))

(* A measured surface that no other ray passes, and at which none is cut   *)
(* short, becomes more likely an obstacle, although its own ray counts it  *)
(* as passed too, and whatever the flags of earlier images hold.           *)
NotMissed(v, k) ==
  /\ v \in Slot(RayEnd(k)) => RayEnd(k) = v /\ IsHit(proj_points_[k])
  /\ \A way \in Ways(RayEnd(k)) : \A j \in DOMAIN way :
       v \in Slot(way[j]) => RayEnd(k) = v /\ j = 1 /\ way[j] = v

MeasuredSurface(v) ==
  /\ \E k \in DOMAIN proj_points_ : proj_points_[k] = v /\ IsHit(v)
  /\ \A k \in DOMAIN proj_points_ : NotMissed(v, k)

SurfaceIsHit ==
  [][stage = "fuse" =>
       \A v \in Voxel : MeasuredSurface(v) =>
         \/ occupancy_buffer_'[v] > occupancy_buffer_[v]
         \/ occupancy_buffer_'[v] = clamp_max_log_]_vars
=============================================================================
