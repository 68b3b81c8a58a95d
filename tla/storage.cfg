SPECIFICATION MCSpec
CONSTANTS
  Runs = {r1, r2}
  Stale = 3
  Margin = 2
  TaskLimit = 2
  Horizon = 6
  Swaps = 2
  N = 4
  Publishes = {1, 2, 4}
  Overwrites = {1, 4}
  Procs = {p1, p2}
  Edits = {"delete", "rename", "removeFolder"}
SYMMETRY Symmetry
INVARIANTS
  TypesOK
  InUseStays
  RunsFindTheirBlob
PROPERTIES
  LaterWins
  NoBlobLost
CHECK_DEADLOCK FALSE
