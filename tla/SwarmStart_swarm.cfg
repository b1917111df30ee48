SPECIFICATION SwarmFairSpec
CONSTANTS
  N = 3
  LoopsBack = TRUE
  Late = {1}
  MaxVersion = 2
  MaxReads = 2
  Roams <- FarPair
  Hears <- Listening
  MaxDatagrams = 1
  Fragile = {1}
  MaxCrashes = 1
INVARIANTS
  StartsInOrder
  SlotHoldsItsDrone
  SendsTheWholeChain
PROPERTY
  StartsOrLost
CHECK_DEADLOCK FALSE
