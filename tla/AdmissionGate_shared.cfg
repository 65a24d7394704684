SPECIFICATION GateSpec
CONSTANTS
  Daemons = {d1, d2}
  Turns = {u1}
  NoTurn = noTurn
  Never = 99
  BaseCooldown = 1
  MaxCooldown = 2
  QuietPeriod = 2
  IncidentWindow = 3
  RampInterval = 2
  RecoverySpacing = 1
  OpenSpacing = 1
  MaxWait = 5
  IncidentStopCount = 2
  MaxConcurrency = 2
  MaxTabs = 2
  MaxTime = 4
  MaxRestarts = 1
  MaxClockSetBack = 1
SYMMETRY DaemonSymmetry
PROPERTIES NewerPauseRespected
CHECK_DEADLOCK FALSE
