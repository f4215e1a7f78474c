SPECIFICATION FairSpec
CONSTANTS
  N = 2
  IOFaults = TRUE
  Crashes = TRUE
  MaxEdits = 2
INVARIANTS
  MixedStateIsGuarded
  OriginalRecoverable
  ResultIsSound
  AccountIsSound
PROPERTY
  SeenEditsSurvive
  ImplementsAtomicApply
  EveryRunEnds
CHECK_DEADLOCK FALSE
