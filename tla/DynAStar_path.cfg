SPECIFICATION Spec
CONSTANTS
  PoolX = 7
  PoolY = 5
  Maps <- Walls
  Halves <- Distances
  MaxRounds = 2
INVARIANTS
  PathIsFree
  ExhaustedMeansCutOff
  ScoresAddUp
CHECK_DEADLOCK FALSE
