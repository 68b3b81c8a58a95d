SPECIFICATION FairSpec
CONSTANTS
  Flows = {f1}
  Procs = {p1, p2}
  MaxRuns = 1
  NSteps = 1
  Plan <- OneEmail
  Concurrency = 1
  MaxStarts = 2
  Triggers = {"manual"}
  Upsets = {"crash", "stop", "freeze", "outage", "db", "engine"}
  MaxUpsets = 2
  Nobody = Nobody
  NoFlow = NoFlow
CHECK_DEADLOCK FALSE
INVARIANTS TypeOK CarriedByItsSigner AnnouncedOnce
PROPERTIES EveryRunCloses EveryStepCloses ClosingIsFinal
