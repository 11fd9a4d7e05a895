SPECIFICATION FairSpec
CONSTANTS
  None = None
  Runs = {r1}
  Operations = {o1, o2}
  TerminalRuns = {}
  MaxCrashes = 0
  BeginMayLoseReply = TRUE
  GroupsMayStray = FALSE
CHECK_DEADLOCK FALSE
PROPERTY
  BlockedSupersessionClears
