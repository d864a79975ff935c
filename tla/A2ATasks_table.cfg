SPECIFICATION Spec
CONSTANTS
  Requests = {1, 2, 3, 4}
  None = None
  MaxTasks = 2
  MaxQuestions = 2
VIEW View
ACTION_CONSTRAINT Bounded
INVARIANTS
  SettledIsTrue
PROPERTIES
  LongestSilentLeaves
CHECK_DEADLOCK FALSE
