SPECIFICATION StartsSpec
CONSTANTS
  Latest = 2
  Builds = {1, 2}
  MaxWrites = 2
  MaxFaults = 3
  Nobody = Nobody
  Supervisors = {1, 2, 3}
  Links = {1, 2}
  FrameUnits = 2
  MaxConnections = 1
  Calls = {1, 2, 3, 4}
  KindOf <- ChannelKinds
  RequestId <- ChannelRequests
  OperationId <- ChannelOperations
  QueueCapacity = 1
  ChannelCases <- StartCases
INVARIANTS
  NothingIsLost
  ServesFinishedDatabase
  ConversationsAreGenuine
PROPERTIES
  EventuallyServes
  NobodyWaitsForever
