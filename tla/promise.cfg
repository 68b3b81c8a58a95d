SPECIFICATION Spec
CONSTANTS
  Flows = {f1}
  Procs = {p1, p2}
  MaxRuns = 2
  NSteps = 1
  Plan <- OneRefresh
  Concurrency = 1
  MaxStarts = 1
  Triggers = {"manual", "schedule", "cell"}
  Upsets = {"crash", "outage", "db"}
  MaxUpsets = 1
  Nobody = Nobody
  NoFlow = NoFlow
SYMMETRY Symmetry
CHECK_DEADLOCK FALSE
PROPERTIES ImplementsFlowRuns OutageSparesTheLiving
