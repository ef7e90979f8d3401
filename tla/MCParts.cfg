SPECIFICATION MCSpec
CONSTANTS
  Holders = {r1, r2, r3}
  Works = {x1, x2, x3, x4}
  Capacity = 2
  MaxSends = 5
  MaxWaits = 3
  Heaps = {h, g}
  MaxTimers = 6
  MaxOwners = 3
  Items = {c1, c2, c3, p}
  Wrapped = {c1, c2, c3}
  Scoped = {d}
  Plain = {t}
  Inline = {i}
  NoScheduler = none
  Chains <- MCChains
  QueueLimit = 1
  IovecLimit = 2
  RequestLimit = 3
  PipeSize = 4
  MaxOps = 2
  Clients = {k1, k2}
  Acceptors = {a1, a2}
  MaxFd = 2
  Free = free
  Other = other
SYMMETRY HeapSymmetry
VIEW WithoutLastCall
INVARIANTS
  ReservationHonoured
  Fifo
  DrainedInOrder
  StreamInOrder
  HandlesAccounted
PROPERTIES
  ImplementsService
CHECK_DEADLOCK FALSE
