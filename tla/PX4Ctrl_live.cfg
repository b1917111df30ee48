SPECIFICATION FairSpec
CONSTANTS
  RCInputs <- OnOffRC
  FcuModes <- TwoModes
  NoRC = FALSE
  Enable = TRUE
  EnableAutoArm = FALSE
  PilotActs = FALSE
  C12InAir = FALSE
PROPERTIES
  SwitchEndsFlight
  OdomLossEndsFlight
  CommandLossEndsControl
