SPECIFICATION Spec
CONSTANTS
  Peers = {p1, p2}
  Server = server
  GroupMax = 2
  Faults = {"fail", "crash"}
  Uses = {"leave", "fetch", "observe", "evict", "dispose"}
  MaxVersion = 2
  MaxSeq = 1
  MaxSessions = 2
  MaxHeld = 3
INVARIANTS DecidedOnce HeldIsScheduled
