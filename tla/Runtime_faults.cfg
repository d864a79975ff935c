SPECIFICATION Spec
CONSTANTS
  q = q
  x = x
  planner = planner
  notifier = notifier
  none = none
  Items <- MCItems
  Actions <- MCActions
  External <- MCExternal
  Agents <- MCAgents
  Consumes <- MCConsumes
  Produces <- MCProduces
  NoAction = none
  HasDispatcher = TRUE
  IsolateErrors = FALSE
  Policies = {"per_commit", "per_turn"}
  RunCaps = {9}
  MaxIterations = 3
  LimitsTime = FALSE
  LimitsTokens = TRUE
  HasQuota = FALSE
  DrainsEvents = TRUE
  WritesInOrder = TRUE
  MaxVersion = 1
  MaxFaults = 2
INVARIANTS
  NoTriggerLost
  NoReplay
  OncePerStableId
  DispatchedWasPerformed
  LastGenerationDurable
VIEW View
CHECK_DEADLOCK FALSE
