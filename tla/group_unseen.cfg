SPECIFICATION Spec
CONSTANTS
  c1 = c1
  c2 = c2
  c3 = c3
  flow = flow
  sql = sql
  after = after
  Cells = {c1, c2, c3}
  StepOf <- GridStep
  KindOf <- GridKind
  TargetOf <- GridTarget
  Others = {}
  Budget = 2
  SlotAttempts = 3
  MaxMishaps = 1
INVARIANT NothingRunsUnseen
CHECK_DEADLOCK FALSE
