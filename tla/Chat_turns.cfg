SPECIFICATION FairSpec
CONSTANTS
  Requests = {1, 2, 3}
  Sessions = {1}
  None = None
  MaxGone = 2
ACTION_CONSTRAINT InOrder
INVARIANTS
  MutualExclusion
  LockTableExact
  NoLostTurn
PROPERTIES
  EveryRequestEnds
  KeepsPromise
CHECK_DEADLOCK FALSE
