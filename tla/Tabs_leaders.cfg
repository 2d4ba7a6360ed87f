CONSTANTS
  Tabs = {t1, t2}
  Adapters = {"rows", "leased"}
  Uses = {"drop", "dispose", "die", "kill", "refuse", "sweep"}
  MaxEdits = 2
  MaxWrites = 1
  MaxTurns = 2
  MaxAll = 3
SPECIFICATION FairSpec
CHECK_DEADLOCK FALSE
INVARIANTS EditsAreKept TabsAgree
PROPERTIES EditsArrive
