SPECIFICATION Spec
CONSTANTS
  None = None
  Runs = {r1}
  Operations = {o1}
  TerminalRuns = {}
  MaxCrashes = 1
  BeginMayLoseReply = FALSE
  GroupsMayStray = TRUE
CHECK_DEADLOCK FALSE
PROPERTY
  ExitIsComplete
