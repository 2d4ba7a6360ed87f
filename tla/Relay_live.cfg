CONSTANTS
  Clients = {c1}
  Writers = {c1}
  Movers = {c1}
  Own = relay
  Others = others
  DeltaLog = 1
  Uses = {"drop", "leave", "unload", "crash", "limit", "lose"}
  MaxOps = 1
  MaxOwn = 0
  MaxWrites = 1
  MaxSessions = 2
  MaxTurns = 1
SPECIFICATION FairSpec
CHECK_DEADLOCK FALSE
INVARIANTS BaseIsWhole
PROPERTIES NothingLost Drains
