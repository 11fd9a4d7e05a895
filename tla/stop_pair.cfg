SPECIFICATION Spec
CONSTANTS
  None = None
  Runs = {r1, r2}
  Operations = {o1, o2}
  TerminalRuns = {r2}
  MaxCrashes = 1
  BeginMayLoseReply = TRUE
  GroupsMayStray = TRUE
SYMMETRY Symmetry
CHECK_DEADLOCK FALSE
INVARIANTS
  LedgerCoherent
  AtMostOneAttempt
PROPERTIES
  ResultsAreFinal
  ImplementsLifecycle
