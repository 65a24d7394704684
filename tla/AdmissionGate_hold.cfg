SPECIFICATION GateSpec
CONSTANTS
  Daemons = {d1, d2}
  Turns = {u1, u2}
  NoTurn = noTurn
  Never = 99
  BaseCooldown = 1
  MaxCooldown = 2
  QuietPeriod = 2
  IncidentWindow = 3
  RampInterval = 2
  RecoverySpacing = 1
  OpenSpacing = 1
  MaxWait = 5
  IncidentStopCount = 2
  MaxConcurrency = 2
  MaxTabs = 2
  MaxTime = 5
  MaxRestarts = 0
  MaxClockSetBack = 0
PROPERTIES HoldRespected
CHECK_DEADLOCK FALSE
