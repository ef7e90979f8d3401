SPECIFICATION Spec
CONSTANTS
  Threads = {owner, other}
  Owner = owner
  Loop = loopThread
  UserMessages = {u1, u2, u3}
  SystemMessages = {s1}
  Capacity = 2
  Budgets = {0, 1, 2}
  MaxStarts = 2
INVARIANTS
  AcceptedInOrder
  CleanExitDrained
PROPERTIES
  AcceptedEventuallyRun
  StopEndsLoop
CHECK_DEADLOCK FALSE
