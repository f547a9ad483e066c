SPECIFICATION Spec
CONSTANTS
  Callers = {c1, c2}
  MaxPoint = 3
  MaxBatch = 2
  WindowSize = 1
  Detectors = {1}
  Rules = {1}
  RuleFor <- MCRuleFor
  Nothing = Nothing
SYMMETRY Symmetry
INVARIANTS
  WindowBounded
  RecentUnlessOverlapped
  InOrderIsScored
  OncePerCooldown
  SilenceHasCause
