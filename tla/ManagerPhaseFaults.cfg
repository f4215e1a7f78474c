SPECIFICATION FairSpec
CONSTANTS
  N = 2
  f1 = f1
  f2 = f2
  Foreign = {f1}
  IOFaults = TRUE
  Crashes = TRUE
  MaxEdits = 1
INVARIANTS
  EngineContract
  AnswerIsExact
PROPERTIES
  ForeignEditsSurvive
  ImplementsAtomicApply
  EveryExecutionEnds
CHECK_DEADLOCK FALSE
