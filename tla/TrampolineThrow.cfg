SPECIFICATION FairSpec
CONSTANTS
  Items = {c1, c2}
  Wrapped = {c1, c2}
  Scoped = {d}
  Plain = {}
  Inline = {}
  NoScheduler = none
PROPERTIES
  DeferredEventuallyRun
CHECK_DEADLOCK FALSE
