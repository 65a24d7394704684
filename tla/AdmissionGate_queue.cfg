SPECIFICATION GateSpec
CONSTANTS
  Daemons = {d1}
  Turns = {u1, u2, u3}
  NoTurn = noTurn
  Never = 99
  BaseCooldown = 1
  MaxCooldown = 2
  QuietPeriod = 1
  IncidentWindow = 3
  RampInterval = 2
  RecoverySpacing = 2
  OpenSpacing = 1
  MaxWait = 4
  IncidentStopCount = 2
  MaxConcurrency = 2
  MaxTabs = 2
  MaxTime = 5
  MaxRestarts = 1
  MaxClockSetBack = 1
SYMMETRY TurnSymmetry
INVARIANTS GateTypeOK OneProbe WakeTimely IncidentsRare
PROPERTIES PauseKept HoldRespected
CHECK_DEADLOCK FALSE
