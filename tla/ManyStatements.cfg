SPECIFICATION ArraysSpec
CONSTANTS
  Children     = 2
  Fields       = 2
  Ops          = 1
  StaticBytes  = 16
  OpGrowth     = 1
  StaticGrowth = 8
  MaxElements  = 4
INVARIANT
  ChildrenFit
CHECK_DEADLOCK FALSE
