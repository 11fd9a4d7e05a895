SPECIFICATION Spec
CONSTANTS
  None = None
  Runs = {r1, r2}
  Operations = {o1}
  Nonces = {n1, n2}
  StartedRuns = {r1}
  Bounds <- ExitBounds
CHECK_DEADLOCK FALSE
INVARIANTS
  OnlyShownRunsAreStopped
  ExitIsJustified
PROPERTIES
  ExitFlowSettles
