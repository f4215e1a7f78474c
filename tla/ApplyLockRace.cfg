SPECIFICATION Spec
CONSTANTS
  Proc = {p1, p2, p3}
  None = None
  Torn = Torn
  IOFaults = TRUE
  Crashes = TRUE
SYMMETRY Symmetry
INVARIANTS ReclaimsOnlyTheDead MutualExclusion EvidenceKept
CHECK_DEADLOCK FALSE
