SPECIFICATION Spec
CONSTANTS
  Rows = {a, b, c, d}
  Critical = {a, b}
  Size = 2
  Today = 2
INVARIANTS
  NothingMissed
  NothingTwice
  ReportsAgree
