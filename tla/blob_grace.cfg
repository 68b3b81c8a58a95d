SPECIFICATION Spec
CONSTANTS
  Runs = {r1, r2}
  Stale = 4
  Margin = 2
  TaskLimit = 3
  Horizon = 8
  Swaps = 1
INVARIANT GraceOutlivesRuns
CHECK_DEADLOCK FALSE
