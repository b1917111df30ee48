SPECIFICATION FairSpec
CONSTANTS
  NumPoints = 9
  Samples = 6
  Lines <- Some
  Distinctive = {TRUE, FALSE}
  Swarm = TRUE
  Occupancies <- Patterns
  Costs = {1, 2}
  MAX_RESART_NUMS_SET = 1
  MAX_REBOUNDS = 0
  MaxEvaluations = 6
INVARIANTS
  SegmentsCover
  SegmentsReady
  EveryChoiceOnce
PROPERTY
  Returns
