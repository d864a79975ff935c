SPECIFICATION Spec
CONSTANTS
  k8s = k8s
  dba = dba
  pods = pods
  Agents = {k8s}
  Goals = {pods}
  Consumes <- MCConsumes
  Clarifications = {"which"}
  Destructive = {"delete"}
  MaxSteps = 3
  MaxAsks = 2
  MaxApprovals = 1
  MaxToolCalls = 1
  AnswersAtRest = FALSE
  MaxAborts = 0
  MaxDrops = 0
INVARIANTS
  OneRunPerApproval
CHECK_DEADLOCK FALSE
