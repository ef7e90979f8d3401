SPECIFICATION Spec
CONSTANTS
  Handles = {sock, file}
  FileHandles = {file}
  Ids = {a, b}
  Reasons = {"manual"}
  QueueCapacity = 1
  SubmitBatch = 2
  CompletionBatch = 1
  DrainSizes <- MCDrainSizes
  Registration = FALSE
  MaxGeneration = 1
  MaxAcks = 1
SYMMETRY IdSymmetry
INVARIANTS
  OperationsAccounted
PROPERTIES
  ImplementsContract
CHECK_DEADLOCK FALSE
