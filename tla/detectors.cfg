SPECIFICATION WindowSpec
CONSTANTS
  Values = {0, 1, 5}
  WindowSize = 8
  Sigma = 2
  MadHalves = 7
  Span = 2
  Period = 3
INVARIANTS
  LevelIsAbsorbed
  SameInSignAndOrigin
