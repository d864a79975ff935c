SPECIFICATION Spec
CONSTANTS
  writer = writer
  critic = critic
  local = local
  remote = remote
  Nobody = Nobody
  Agents = {writer, critic}
  Works <- MCWorks
  Sinks <- MCSinks
  MaxSpans = 2
  MaxLlm = 1
  MaxTurns = 2
  MaxGenerations = 2
  MaxCalls = 2
  MaxLost = 1
INVARIANTS
  CallToldOnce
  TraceTellsTurn
CHECK_DEADLOCK FALSE
