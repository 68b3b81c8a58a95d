SPECIFICATION MCSpec
CONSTANTS
  Procs = {p1, p2}
  Deliveries = {1, 2}
  Of <- OneHook
  PerWebhook = 1
  Parallel = 2
  Waits <- OneWait
  Reclaim = 2
  CallTime = 1
  MaxAge = 4
  MaxUpsets = 1
  hook = hook
  Requests = {r1, r2}
  Email = email
  All = all
  MaxPassword = 1
  Threshold <- Thresholds
  Window = 2
  Block = 1
  MaxBlock = 2
  NoSession = NoSession
  Items = {1, 2, 3}
  Delay = 2
  Lag = 1
  Batch = 2
  MaxFaults = 1
  Order <- WorkerThenOrchestrator
  Places = {1, 2, 3}
  MaxRequests = 2
  MaxFailures = 1
  Cells = {c1, c2, c3, c4, c5}
  StepOf <- ThreeSteps
  KindOf <- FlowTaskRefreshScript
  TargetOf <- SameFlowTwice
  Others = {other}
  Budget = 2
  SlotAttempts = 3
  MaxMishaps = 1
  flow = flow
  image = image
  dump = dump
  sql = sql
  c1 = c1
  c2 = c2
  c3 = c3
  c4 = c4
  c5 = c5
  Savers = {r1}
  Users = {u1}
  Schedules = {often, once}
  SlotsOf <- OftenAndOnce
  Horizon = 2
  Edits = {"save", "zone"}
  Upsets = {"crash", "fail", "deactivate"}
  MaxTickUpsets = 1
  often = often
  once = once
  NoText = NoText
  Nobody = Nobody
INVARIANTS
  TypesOK
  OneCallAtATime
  NoFailureLost
  OldPasswordIsOut
  NothingSkipped
  OneDownAtATime
  StepsInOrder
  FlowsEndWithTheGroup
PROPERTIES
  ClosedForGood
  EveryDeliveryCloses
  EveryItemArrives
  ClosedWhenAllAreNew
  EveryRolloutEnds
  GroupCloses
  EverySlotIsSpent
CHECK_DEADLOCK FALSE
