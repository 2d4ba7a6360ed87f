CONSTANTS
  Clients = {c1, c2}
  Writers = {c1}
  Movers = {c2}
  Own = relay
  Others = others
  DeltaLog = 1
  Uses = {"drop", "halfopen", "refuse", "revoke", "hold", "limit", "limithello", "limitvouch"}
  MaxOps = 1
  MaxOwn = 1
  MaxWrites = 0
  MaxSessions = 2
  MaxTurns = 1
SPECIFICATION Spec
CHECK_DEADLOCK FALSE
INVARIANTS ViewIsSettled ClientsAreInStep
