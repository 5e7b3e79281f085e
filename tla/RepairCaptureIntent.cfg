CONSTANTS
  Procs = {p1, p2}
  None = None
  Torn = Torn
  ArchiveLimit = 2
SPECIFICATION Spec
SYMMETRY Symmetry
INVARIANT FailureKeepsIntent
CHECK_DEADLOCK FALSE
