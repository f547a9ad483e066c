SPECIFICATION Spec
CONSTANTS
  Schedules = {s1}
  Checkers = {k1, k2}
  Crons <- MCCrons
  NextSlot <- MCNextSlot
  MaxSlot = 2
  MaxCrashes = 0
  Stalls = TRUE
  NoSchedule = NoSchedule
INVARIANT EachSlotOnce
