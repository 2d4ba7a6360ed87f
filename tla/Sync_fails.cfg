CONSTANTS
  HelloLimit = 1
  Uses = {"drop", "fail", "unload", "limit", "limithello", "refuse"}
  MaxOps = 2
  MaxWrites = 0
  MaxSockets = 2
  MaxTurns = 2
SPECIFICATION FairSpec
CHECK_DEADLOCK FALSE
INVARIANTS LandsOnce
PROPERTIES Drains
