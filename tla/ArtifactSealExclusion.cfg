CONSTANTS
  Procs = {p1, p2, p3}
  Inodes = {i1, i2, i3}
  None = None
SPECIFICATION Spec
SYMMETRY Symmetry
INVARIANT OneSealer
CHECK_DEADLOCK FALSE
