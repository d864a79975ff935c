SPECIFICATION Spec
CONSTANTS
  Items = {x, y}
  Names = {main, fork}
  Pending = pending
  Dispatched = dispatched
  Failed = failed
  Vals = {plain, pending, dispatched, failed}
  Absent = absent
  MaxSteps = 4
  MaxForks = 2
INVARIANTS
  LiveMatchesLog
  DependenciesTracked
  NothingSentIsPending
  MergeIsSymmetric
PROPERTIES
  MergeKeepsBothSides
  KeepsHistory
SYMMETRY Symmetry
CHECK_DEADLOCK FALSE
