SPECIFICATION Spec
CONSTANTS
  Refreshers = {r1, r2}
  NoAuth = noAuth
  NoFile = noFile
  NoToken = noToken
  Nobody = nobody
  Operations = {"result", "patch", "edit", "signIn", "delete"}
  MaxTries = 2
  MaxToken = 4
  MaxGeneration = 2
  MaxEdits = 1
INVARIANTS RefreshTypeOK FileAgrees SpentOnce TokenKept
PROPERTIES RefreshKeepsChanges
SYMMETRY RefresherSymmetry
CHECK_DEADLOCK FALSE
