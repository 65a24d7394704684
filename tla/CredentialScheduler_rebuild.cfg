SPECIFICATION Spec
CONSTANTS
  Models = {m1, m2}
  NoModel = noModel
  NoHint = noHint
  Unbuilt = unbuilt
  Absent = absent
  QuotaBase = 1
  QuotaMax = 2
  QuotaFloor = 1
  QuotaCeiling = 3
  TransientCooldown = 1
  RefusedCooldown = 2
  MissingCooldown = 4
  CoolingDisabled = FALSE
  Kinds = {"quota"}
  Hints = {noHint}
  Scopes = {FALSE}
  ResultModels = {m1, m2}
  PickModels = {m1, m2}
  Tokens = {k1}
  Expiries = {0}
  Operations = {"rebuild"}
  MaxTime = 1
  MaxEpoch = 1
  MaxGeneration = 3
  MaxInFlight = 2
SYMMETRY ModelSymmetry
CHECK_DEADLOCK FALSE
INVARIANT RebuildComplete
