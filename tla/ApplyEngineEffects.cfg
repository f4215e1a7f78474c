SPECIFICATION Spec
CONSTANTS
  N = 2
  IOFaults = FALSE
  Crashes = FALSE
  MaxEdits = 1
INVARIANT
  EffectsStayUncertain
CHECK_DEADLOCK FALSE
