SPECIFICATION MCSpec
CONSTANTS
  Requests = {r1, r2, r3}
  Gens = 1
  Changes = 1
  Losses = 1
  None = None
  Failed = Failed
  Asks = {r1, r2, r3}
  Faults = 1
  Tasks = {r1, r2, r3}
  Cap = 1
  TaskLimit = 2
  QueueWait = 1
  ExportsHorizon = 6
  TTL = 4
  TICK = 1
  CONFIRM = 3
  Blips = 1
  Cut = 4
  WorkersHorizon = 9
SYMMETRY Symmetry
INVARIANTS
  TypesOK
  FreshAfterRefresh
  WorkedOutOnce
  OnlyTheNewest
  CapHolds
  LostIsGone
CHECK_DEADLOCK FALSE
