SPECIFICATION Spec
CONSTANTS
  Proc = {p1, p2, p3, p4}
  None = None
  Torn = Torn
  IOFaults = FALSE
  Crashes = FALSE
SYMMETRY Symmetry
INVARIANT LiveOwnerBlocks
CHECK_DEADLOCK FALSE
