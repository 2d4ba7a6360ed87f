CONSTANTS
  HelloLimit = 1
  Uses = {"drop", "lose", "replace", "restart", "again", "limit", "limithello"}
  MaxOps = 2
  MaxWrites = 1
  MaxSockets = 2
  MaxTurns = 1
SPECIFICATION FairSpec
CHECK_DEADLOCK FALSE
INVARIANTS BaseIsWhole
PROPERTIES OwnEditsStay Delivers
