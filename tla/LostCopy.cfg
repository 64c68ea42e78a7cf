SPECIFICATION CompilerSpec
CONSTANTS
  MaxStatements   = 2
  IntMax          = 32767
  Precision       = 12
  NameRoom        = 3
  PrintRoom       = 2
  InitialCapacity = 8
  MaxCapacity     = 64
  Children        = 100
  Fields          = 2
  Ops             = 1
  StaticBytes     = 16
  OpGrowth        = 1
  StaticGrowth    = 8
  MaxElements     = 0
  Streams         = {}
  Values          = {}
  Programs <- MCPrograms
  Code     <- MCCode
INVARIANT
  AssignmentsStore
