SPECIFICATION FairSpec
CONSTANTS
  Executions = {e1, e2}
  Requests = {r1, r2, r3}
  Workers = {w1, w2}
  NoExecution = NoExecution
  NoRequest = NoRequest
  LoopResolves = FALSE
  Crashes = TRUE
INVARIANTS
  NoTwoRunnersWithoutRetry
  OrphanHasCause
  OnlyCancellationEnds
PROPERTIES
  MessagesTaken
CHECK_DEADLOCK FALSE
