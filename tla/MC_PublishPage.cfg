SPECIFICATION PageSpec
CONSTANTS
  Credits = 2
  MaxBacklog = 1
  MaxClicks = 3
  MaxToggles = 3
INVARIANTS CreditsAreConserved StopEndsAll
PROPERTIES FramesFlow
CONSTRAINT Patient
CHECK_DEADLOCK FALSE
