SPECIFICATION DiscoverySpec
CONSTANTS
  None = None
  Processes = {1, 2}
  Directories = {"d1", "d2"}
  EnrichmentConcurrency = 1
  ProjectConcurrency = 1
  EnrichmentCapacity = 1
  MaxGeneration = 3
  Scenarios <- DiscoveryScenarios
  CatalogOperations = {o1, o2}
  Projects = {j1}
  Rules = {u1}
  UsedProjects = {}
  Nothing = Nothing
  Owners = {"p1", "p2"}
  Endpoints = {"e1", "e2"}
  ManagedRuns = {"r1"}
  PortCapacity = 2
  MaxEntities = 3
  FeedCases <- DiscoveryFeedCases
CHECK_DEADLOCK FALSE
INVARIANTS
  EvidenceIsCurrent
  DemandIsServed
  CatalogChangesAreWhole
  FeedIsFaithful
