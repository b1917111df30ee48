SPECIFICATION Spec
CONSTANTS
  NX = 5
  NY = 3
  PoseTypes <- PoseKinds
  Poses <- CameraPoses
  CellOffsets <- Offsets
  Images <- DepthImages
  Slope <- Slopes
  Odoms <- Odometry
  Clouds <- PointClouds
  Line <- RayLines
  depth_filter_mindist_ = 1
  depth_filter_maxdist_ = 3
  max_ray_length_ = 3
  local_update_range_ = 4
  prob_hit_log_ = 2
  prob_miss_log_ = 2
  clamp_max_log_ = 4
  min_occupancy_log_ = 2
  inf_step = 1
  local_map_margin_ = 0
  vec_margin = 1
  CharSize = 2
  Timeout = 1
  MaxFrames = 4
INVARIANTS
  OccupiedIsInflated
  CastsFromItsPose
  InflatedWasMeasured
PROPERTY
  SurfaceIsHit
CHECK_DEADLOCK FALSE
