SPECIFICATION FairSpec
CONSTANTS
  Schedules = {s1}
  Checkers = {k1, k2}
  Crons <- MCCrons
  NextSlot <- MCNextSlot
  MaxSlot = 2
  MaxCrashes = 1
  Stalls = FALSE
  NoSchedule = NoSchedule
INVARIANTS
  OneChecker
  EachSlotOnce
  RunsCounted
PROPERTIES
  DueIsServed
