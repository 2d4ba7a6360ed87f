CONSTANTS
  c1 = c1
  c2 = c2
  Clients = {c1, c2}
  Movers = {c1}
  Hooked = TRUE
  Uses = {"revalidate", "disconnect", "close", "evict", "sweep", "unload", "locked", "leave"}
  MaxSockets = 2
  MaxHellos = 2
  MaxStores = 2
  MaxShares = 1
  MaxTurns = 1
SPECIFICATION FairSpec
CHECK_DEADLOCK FALSE
INVARIANTS TakenBackIsOut PeersAgree
PROPERTIES HellosAreAnswered
