CONSTANTS
  Base = 3
  Heads = 2
  Ids = {1, 2, 3}
  Users = {u1, u2}
  u1 = u1
  u2 = u2
  Starts <- MCStarts
  MaxEdits = 2
SPECIFICATION Spec
SYMMETRY Symmetry
CHECK_DEADLOCK FALSE
INVARIANTS RoomEverywhere
PROPERTIES PlacedWhereAsked ReconciledAgrees
