SPECIFICATION MCSpec
CONSTANTS
  Ops = {a, b, c, d}
  Clients = {t}
  MaxWaiters = 2
  NoOp = none
  AcquireOps = {a, b, c}
  Initial = 1
  MaxPermits = 2
  MaxRelease = 2
  MaxIssued = 5
INVARIANTS
  LockAccounted
  NoWaiterStranded
  PermitsConserved
PROPERTIES
  WaiterEventuallyResumed
  GrantedInOrder
CHECK_DEADLOCK FALSE
