CONSTANTS
  Records = {a, b}
  Edits = {{a}, {a, b}}
  Adapters = {"indexeddb", "sqlite", "document"}
  DeltaLog = 1
  Uses = {"drop", "die", "fetch", "fetchfails", "again", "restore", "destroy"}
  MaxEdits = 2
  MaxWrites = 1
  MaxTurns = 2
  MaxAll = 3
SPECIFICATION FairSpec
CHECK_DEADLOCK FALSE
INVARIANTS BaseIsWhole DiskIsWhole EditsAreAccounted
PROPERTIES Converges
