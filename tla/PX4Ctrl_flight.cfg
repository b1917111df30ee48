SPECIFICATION Spec
CONSTANTS
  RCInputs <- FlightRC
  FcuModes <- TwoModes
  NoRC = FALSE
  Enable = TRUE
  EnableAutoArm = TRUE
  PilotActs = TRUE
  C12InAir = FALSE
INVARIANTS
  CommandPostdatesEngagement
  LandingSeenThisFlight
PROPERTY
  LevelsSpec
