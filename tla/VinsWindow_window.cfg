SPECIFICATION Spec
CONSTANTS
  WINDOW_SIZE = 3
  UsedNum = 3
  MAX_CNT = 2
  SensorTypes <- AllSensors
  ThreadModes = {TRUE, FALSE}
  Switches = {"imu"}
  MaxId = 2
  MaxFrames = 6
  MaxMessages = 2
INVARIANTS
  ObservationsAligned
  LostForGood
  PriorAligned
  ImuConnectsFrames
  ImagesCoverWindow
CHECK_DEADLOCK FALSE
