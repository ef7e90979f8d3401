SPECIFICATION MCSpec
CONSTANTS
  Workers = {w1, w2}
  Callers = {c1, c2}
  Works = {x, y, z}
  NoWork = NoWork
  QueueLimit = 2
  Ops = {x, y}
  Sizes = {1}
  ShardThread = c1
  LaneLimit = 1
INVARIANTS
  ShutdownDrains
  CompletionsHonoured
PROPERTIES
  ShutdownEnds
  EventuallyResumed
CHECK_DEADLOCK FALSE
