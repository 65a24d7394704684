SPECIFICATION Spec
CONSTANTS
  Models = {m1, m2}
  NoModel = noModel
  NoHint = noHint
  Unbuilt = unbuilt
  Absent = absent
  QuotaBase = 1
  QuotaMax = 2
  QuotaFloor = 1
  QuotaCeiling = 3
  TransientCooldown = 1
  RefusedCooldown = 2
  MissingCooldown = 4
  CoolingDisabled = FALSE
  Kinds = {"success", "quota", "missing", "transient"}
  Hints = {noHint, 5}
  Scopes = {TRUE, FALSE}
  ResultModels = {m1, m2}
  PickModels = {}
  Tokens = {k1}
  Expiries = {0}
  Operations = {"reset", "probe", "update"}
  MaxTime = 3
  MaxEpoch = 1
  MaxGeneration = 4
  MaxInFlight = 1
SYMMETRY ModelSymmetry
CHECK_DEADLOCK FALSE

PROPERTIES CredentialQuotaHolds FailureKeepsCooldown RecoveryNeverExtends
