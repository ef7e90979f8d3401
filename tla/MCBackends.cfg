SPECIFICATION MCSpec
CONSTANTS
  Handles = {1}
  Ids = {1, 2}
  UsedShapes <- MCShapes
  SocketShapes <- MCSocketShapes
  MaxGeneration = 2
  MaxCalls = 1
  DrainSizes = {1, 2}
  MaxEvents = 2
  SubmissionCapacity = 2
  SubmitBatchLimit = 1
  CompletionBatchLimit = 1
INVARIANTS
  ActiveIdsAccounted
  PendingOnCurrentHandle
  ProviderAgrees
PROPERTIES
  ImplementsContract
  StaleEventsIgnored
  ReadyEventuallyCompletes
CHECK_DEADLOCK FALSE
