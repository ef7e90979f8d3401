SPECIFICATION Spec
CONSTANTS
  Capacity = 0
  MaxSends = 5
  MaxWaits = 3
INVARIANTS
  Fifo
CHECK_DEADLOCK FALSE
