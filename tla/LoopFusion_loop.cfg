SPECIFICATION Spec
CONSTANTS
  Bases <- MCBases
  MAX_SEQUENCES = 3
  SKIP_FIRST_CNT = 1
  Recent = 1
  MaxResults = 3
  MaxImages = 5
  MaxKeyframes = 6
  MaxRestarts = 1
INVARIANTS
  PairsSameStamp
  LoopEdgesInside
  SettlesInOneFrame
CHECK_DEADLOCK FALSE
