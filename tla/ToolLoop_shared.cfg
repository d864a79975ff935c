SPECIFICATION FairSpec
CONSTANTS
  k8s = k8s
  dba = dba
  pods = pods
  Agents = {k8s, dba}
  Goals = {pods}
  Consumes <- MCConsumes
  Clarifications = {"which", "where"}
  Destructive = {"delete", "restart"}
  MaxSteps = 4
  MaxAsks = 1
  MaxApprovals = 1
  MaxToolCalls = 1
  AnswersAtRest = TRUE
  MaxAborts = 1
  MaxDrops = 2
INVARIANTS
  TypeOK
  OneThread
  OneRunPerApproval
PROPERTIES
  ConversationEnds
CHECK_DEADLOCK FALSE
