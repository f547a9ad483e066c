SPECIFICATION FairSpec
CONSTANTS
  Tasks <- MCTasks
  Definitions <- MCDefinitions
  NoTask <- MCNoTask
  MaxConcurrent = 2
INVARIANTS
  PredecessorsFirst
  SkippedNeverRuns
  CompletedMeansAll
  FailureIsExhaustion
  CancelIsPrompt
  WavesAreGenerations
  NoRowLeftRunning
PROPERTIES
  RunEnds
CHECK_DEADLOCK FALSE
