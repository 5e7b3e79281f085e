CONSTANTS
  Procs = {p1, p2, p3}
  Inodes = {i1, i2, i3}
  None = None
SPECIFICATION Spec
SYMMETRY Symmetry
INVARIANTS TypeOK EarlierSealRevoked SealStands
PROPERTY SealsInTurn
CHECK_DEADLOCK FALSE
