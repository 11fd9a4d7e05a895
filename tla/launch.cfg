SPECIFICATION LaunchesSpec
CONSTANTS
  None = None
  Runs = {r1, r2}
  Platforms = {"macOS", "Windows"}
  Capacity = 1
  CleanupRetryAttempts = 2
  MaxCrashes = 2
  Unset = Unset
  RowRuns = {r3}
  RowStops = {o1, o2, o3}
  Readings = {1, 3}
  MaxRestarts = 2
  Days <- Cycle
  Missing = Missing
  Ids <- PageIds
  Lists <- PageLists
  NoChild = NoChild
  Children = {c1, c2}
  Machines <- LaunchMachines
  MaxCandidates = 2
SYMMETRY Symmetry
CHECK_DEADLOCK FALSE
INVARIANTS
  CodeNeedsDurableIdentity
  ProcessesAreAccounted
  RowsAreReadable
  PagesAreComplete
  HandlesAreAccounted
