SPECIFICATION FairSpec
CONSTANTS
  Executions = {e1}
  Requests = {r1, r2, r3}
  Workers = {w1, w2}
  NoExecution = NoExecution
  NoRequest = NoRequest
  LoopResolves = TRUE
  Crashes = TRUE
INVARIANTS
  FailureNeverRecorded
PROPERTIES
  SettledStays
  OnlyKnownOverwrites
  CancelStopsRun
  StatusPromise
CHECK_DEADLOCK FALSE
