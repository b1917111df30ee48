SPECIFICATION FairSpec
CONSTANTS
  p1 = p1
  p2 = p2
  Points <- TwoPoints
  TargetTypes = {"PRESET_TARGET"}
  Waypoints <- Tour
  WaypointNum = 2
  Realworld = TRUE
  FailSafe = TRUE
  FirstDrone = TRUE
  NoReplanThresh = TRUE
  QueueSize = 2
  MaxWaits = 1
INVARIANTS
  ServerFollowsPlanner
  StopsOnce
PROPERTIES
  GivesUpOnlyOnArrival
  EmergencyReachesServer
