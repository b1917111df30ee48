SPECIFICATION Spec
CONSTANTS
  Cameras = {TRUE, FALSE}
  ThreadModes = {TRUE, FALSE}
  Period = 2
  InitFrames = 1
  MaxTime = 8
  MaxSkew = 2
  MaxRestarts = 1
INVARIANTS
  ImuDataComplete
  PopsItsFrame
PROPERTIES
  OdometryForward
  CatchesUp
CHECK_DEADLOCK FALSE
