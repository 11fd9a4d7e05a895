SPECIFICATION FairSpec
CONSTANTS
  Scenarios <- StreamScenarios
INVARIANTS
  LiveViewIsServerState
PROPERTIES
  ShownNeverGoesBack
  CatchesUp
CHECK_DEADLOCK FALSE
