CONSTANTS
  p1 = p1
  p2 = p2
  c1 = c1
  Nobody = Nobody
  Dead = Dead
  Procs = {p1, p2}
  Clients = {c1}
  SameHost = FALSE
  Early = {p2}
  Skew = 1
  Ttl = 3
  DeltaLog = 1
  PruneEvery = 2
  Uses = {"crash", "restore", "remove", "fail", "race"}
  MaxOps = 2
  MaxEpochs = 1
  MaxTurns = 1
SPECIFICATION FairSpec
CHECK_DEADLOCK FALSE
INVARIANTS FileIsOne HolderIsCurrent AckedIsStored ToldIsHistory
PROPERTIES NoneIsRobbed
