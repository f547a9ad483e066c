SPECIFICATION FairSpec
CONSTANTS
  Requests = {r1, r2, r3}
  Names = {a, b}
  MaxBatch = 2
  Nobody = Nobody
INVARIANTS
  OnlyFirstPointsLose
  PointsHaveWindows
PROPERTIES
  RequestsEnd
CHECK_DEADLOCK FALSE
