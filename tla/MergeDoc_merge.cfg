CONSTANTS
  r1 = r1
  r2 = r2
  Obj = Obj
  Null = Null
  Records <- MCRecords
  Paths <- MCPaths
  Link <- MCLink
  Asked <- MCAsked
  Ops <- MCOps
  ServerDels = {}
  MaxTime = 3
  MaxSteps = 4
  MaxLog = 2
SPECIFICATION Spec
CHECK_DEADLOCK FALSE
INVARIANTS CopyAgrees DiskAgrees DecidesByTime ReplayIsHarmless
PROPERTIES NoOrphansMade RefusedLeavesNothing
