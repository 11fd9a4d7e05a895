SPECIFICATION ProfilesSpec
CONSTANTS
  Nil = Nil
  Profiles = {p1, p2}
  Names = {a, b}
  References = {1, 2, 3}
  Operations = {o1, o2, o3}
  Capacity = 2
  Batch = 1
  Passes = 1
  MaxFaults = 2
  NoFile = NoFile
  Spelling <- Spellings
  Capital <- Capitals
  Aliases = {"p."}
  SensitiveNames = {"TOKEN"}
  Invocations <- AllInvocations
  MaxUnits = 42
  MaxPathUnits = 43
  MaxPatternUnits = 5
  MaxEnvironmentUnits = 14
  MaxCandidatePaths = 4
  MaxEntries = 2
INVARIANTS
  NoSecretIsForgotten
  ProfilesKeepTheirSecrets
  RepeatsAreRecognised
  LaunchesAreAsAsked
SYMMETRY Symmetry
CHECK_DEADLOCK FALSE
