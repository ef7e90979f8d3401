SPECIFICATION FairSpec
CONSTANTS
  Handles = {sock, file}
  FileHandles = {file}
  Ids = {a}
  Reasons = {"manual", "deadline"}
  QueueCapacity = 1
  SubmitBatch = 1
  CompletionBatch = 2
  DrainSizes <- MCDrainSizes
  Registration = TRUE
  MaxGeneration = 2
  MaxAcks = 1
PROPERTIES
  IntentEventuallyCompletes
  ShutdownDrainsKernel
CHECK_DEADLOCK FALSE
