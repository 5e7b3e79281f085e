CONSTANTS
  Procs = {p1, p2, p3}
  None = None
  Torn = Torn
  ArchiveLimit = 2
SPECIFICATION Spec
SYMMETRY Symmetry
INVARIANTS TypeOK LeaseProtectsOwner Retriable
PROPERTIES FreshCaptureIsOwn ChoosesOnce
CHECK_DEADLOCK FALSE
