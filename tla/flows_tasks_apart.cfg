SPECIFICATION Spec
CONSTANTS
  Flows = {f1}
  Procs = {p1, p2}
  MaxRuns = 2
  NSteps = 1
  Plan <- OneOutput
  Concurrency = 1
  MaxStarts = 1
  Triggers = {"manual"}
  Upsets = {"stop"}
  MaxUpsets = 1
  Nobody = Nobody
  NoFlow = NoFlow
SYMMETRY Symmetry
CHECK_DEADLOCK FALSE
INVARIANTS FlowsTasksApart
