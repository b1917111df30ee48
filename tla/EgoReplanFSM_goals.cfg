SPECIFICATION EgoSpec
CONSTANTS
  p1 = p1
  p2 = p2
  Points <- TwoPoints
  TargetTypes = {"MANUAL_TARGET", "PRESET_TARGET"}
  Waypoints <- Tour
  WaypointNum = 2
  Realworld = FALSE
  FailSafe = TRUE
  FirstDrone = FALSE
  NoReplanThresh = TRUE
  QueueSize = 1
  MaxWaits = 2
INVARIANTS
  PlanInputsExist
  FliesNewestGoal
  SwarmKnowsPlan
