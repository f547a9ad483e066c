SPECIFICATION Spec
CONSTANTS
  Executions = {e1}
  Requests = {r1, r2, r3}
  Workers = {w1, w2}
  NoExecution = NoExecution
  NoRequest = NoRequest
  LoopResolves = FALSE
  Crashes = FALSE
SYMMETRY Symmetry
INVARIANT
  PersistedIsDispatched
CHECK_DEADLOCK FALSE
