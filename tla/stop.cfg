SPECIFICATION FairSpec
CONSTANTS
  None = None
  Runs = {r1}
  Operations = {o1, o2, o3}
  TerminalRuns = {r1}
  MaxCrashes = 2
  BeginMayLoseReply = FALSE
  GroupsMayStray = TRUE
CHECK_DEADLOCK FALSE
INVARIANTS
  TypeOK
  ControlsAgreeWithLedger
PROPERTIES
  OwnedExitIsComplete
  StopsComplete
  NoStopIsStuck
