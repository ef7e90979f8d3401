SPECIFICATION MCSpec
CONSTANTS
  N = 4
  NoTask = none
  K = 4
  NoWinner = none
  ScopeTasks = {a, b, c, d}
  Threads = {t1, t2}
  Slots = {c1, c2, c3}
  Reasons = {manual, deadline}
  MaxDepth = 3
INVARIANTS
  ContinuationLive
  FirstWinsRestJoined
  JoinAccountsForAll
  InvokedOnceUnlessRevoked
PROPERTIES
  AwaiterEventuallyResumed
  EventuallyReturns
  CancelledEventuallyInvoked
CHECK_DEADLOCK FALSE
