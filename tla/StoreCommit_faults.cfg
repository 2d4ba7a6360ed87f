SPECIFICATION Spec
CONSTANTS
  Peers = {p1, p2}
  Server = server
  GroupMax = 3
  Faults = {"fail", "crash"}
  Uses = {"leave", "lose", "reject", "evict", "dispose"}
  MaxVersion = 3
  MaxSeq = 1
  MaxSessions = 3
  MaxHeld = 2
SYMMETRY Symmetry
INVARIANTS HeardIsStored CopiesAreWhole EndedAreTold
PROPERTIES Durable
