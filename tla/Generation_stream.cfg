SPECIFICATION FairSpec
CONSTANTS
  writer = writer
  critic = critic
  search = search
  None = None
  Agents <- MCAgents
  Priority <- MCPriority
  Limit <- MCLimit
  Concurrencies = {0, 2}
  HubSize = 1
  MaxSaid = 2
  RankLimit = 1
  Batches <- MCBatches
  Resumes = {{}, {2}}
  Caps = {0, 3}
INVARIANTS
  RunningWithinLimits
  DueIsServed
  NothingUnsaid
PROPERTIES
  GenerationEnds
CHECK_DEADLOCK FALSE
