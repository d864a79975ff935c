SPECIFICATION FairSpec
CONSTANTS
  q = q
  x = x
  planner = planner
  notifier = notifier
  none = none
  Items <- MCItems
  Actions <- MCActions
  External <- MCExternal
  Agents <- MCAgents
  Consumes <- MCShared
  Produces <- MCProduces
  NoAction = none
  HasDispatcher = TRUE
  IsolateErrors = TRUE
  Policies = {"per_commit"}
  RunCaps = {1, 3}
  MaxIterations = 3
  LimitsTime = TRUE
  LimitsTokens = FALSE
  HasQuota = TRUE
  DrainsEvents = FALSE
  WritesInOrder = TRUE
  MaxVersion = 0
  MaxFaults = 2
INVARIANTS
  RunsWithinCap
PROPERTIES
  CompletedMeansDone
  TriggersSettle
  OutboxDrains
  RanBecomesDurable
CHECK_DEADLOCK FALSE
