SPECIFICATION EgoSpec
CONSTANTS
  p1 = p1
  p2 = p2
  Points <- TwoPoints
  TargetTypes = {"MANUAL_TARGET"}
  Waypoints <- OneWaypoint
  WaypointNum = 1
  Realworld = FALSE
  FailSafe = TRUE
  FirstDrone = TRUE
  NoReplanThresh = TRUE
  QueueSize = 1
  MaxWaits = 1
PROPERTY
  EmergencyStops
