SPECIFICATION MCSpec
CONSTANTS
  Procs = {p1, p2}
  Requests = {q1}
  Users = {u1, u2}
  Schedules = {often, once}
  Slots <- OftenAndOnce
  Queued = FALSE
  Horizon = 3
  Edits = {"schedule", "save", "zone"}
  Upsets = {"crash", "fail", "deactivate"}
  MaxUpsets = 1
  NoText = NoText
  Nobody = Nobody
  often = often
  once = once
  Flows = {f1}
  NoFlow = NoFlow
  Restarts = 2
  Restarting = {"crash", "stop", "freeze"}
  MaxRestarting = 2
  Failing = {"db", "engine", "freeze"}
  MaxFailing = 2
SYMMETRY Symmetry
INVARIANTS
  AtMostOneLateStep
  OneStepAtATime
  StopsTheSequence
  SuccessIsWhole
  SlotFiredOnce
  SlotOfItsSchedule
CHECK_DEADLOCK FALSE
