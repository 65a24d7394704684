SPECIFICATION Spec
CONSTANTS
  Scans = {s1}
  Contents = {c1, c2}
  NoAuth = noAuth
  MaxChanges = 2
  MaxReloads = 1
INVARIANTS WatchTypeOK FileWins
PROPERTIES ScanNeverGoesBack
SYMMETRY ContentSymmetry
CHECK_DEADLOCK FALSE
