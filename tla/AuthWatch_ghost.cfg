SPECIFICATION Spec
CONSTANTS
  Scans = {s1}
  Contents = {c1, c2}
  NoAuth = noAuth
  MaxChanges = 2
  MaxReloads = 1
INVARIANTS NoGhost
SYMMETRY ContentSymmetry
CHECK_DEADLOCK FALSE
