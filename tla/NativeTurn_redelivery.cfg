SPECIFICATION TurnSpec
CONSTANTS
  Tokens = {t1}
  Turn = t1
  Contracts = {"native"}
  Deadlines = {"none"}
  Calls = {r1, r2}
  Activities = {r1, r2}
  Polls = {p1}
  Poll = p1
  Answers = {}
  NoAnswer = noAnswer
  Traces = {tr1}
  NoFence = noFence
  MaxFaults = 0
  MaxDisconnects = 1
  MayCompact = FALSE
  MayCancel = FALSE
INVARIANTS VetoHonest
CHECK_DEADLOCK FALSE
