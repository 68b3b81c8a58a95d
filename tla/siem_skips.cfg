SPECIFICATION Spec
CONSTANTS
  Procs = {"p", "q"}
  Items = {1, 2, 3}
  Delay = 2
  Lag = 1
  Batch = 2
  InOrder = FALSE
  MaxFaults = 1
INVARIANT NothingSkipped
CHECK_DEADLOCK FALSE
