SPECIFICATION FairSpec
CONSTANTS
  Handles = {1, 2}
  Ids = {a, b}
  Reasons = {"manual"}
  Capacity = 1
  KeyMax = 2
  BatchLimit = 2
  DrainSizes <- MCDrainSizes
  MaxGeneration = 2
  MaxWakes = 1
INVARIANTS
  StorageOutlivesOs
  AssociationsAccounted
PROPERTIES
  ImplementsContract
  ShutdownClosesPort
CHECK_DEADLOCK FALSE
