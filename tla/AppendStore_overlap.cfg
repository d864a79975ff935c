SPECIFICATION Spec
CONSTANTS
  Items = {a}
  Vals = {v1, v2}
  Absent = absent
  Jobs = {s1, s2}
  CompactEvery = 3
  RetriesStatements = TRUE
  MaxCommits = 2
  MaxChanges = 4
  MaxFaults = 2
  MaxSteps = 5
INVARIANTS
  SessionIsSaved
  StoppedRewriteIsRepeated
  EntriesBounded
CONSTRAINT Unhurt
CONSTRAINT Bounded
SYMMETRY Symmetry
