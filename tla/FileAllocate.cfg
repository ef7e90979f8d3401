SPECIFICATION Spec
CONSTANTS
  Ops = {a, b}
  Sizes = {1, 2}
PROPERTIES
  AllocateOnlyGrows
CHECK_DEADLOCK FALSE
