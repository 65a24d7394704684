SPECIFICATION FairTurnSpec
CONSTANTS
  Tokens = {t1}
  Turn = t1
  Contracts = {"native"}
  Deadlines = {"none"}
  Calls = {r1, r2}
  Activities = {r1, r2}
  Polls = {p1}
  Poll = p1
  Answers = {}
  NoAnswer = noAnswer
  Traces = {tr1}
  NoFence = noFence
  MaxFaults = 1
  MaxDisconnects = 1
  MayCompact = TRUE
  MayCancel = TRUE
INVARIANTS TurnTypeOK NoWorkAfterCommit JournalBacked NoLeakedActivity VetoExact
PROPERTIES FinalAnswerIsFresh RequestsSettle TurnFinishes PollsAnswered
CHECK_DEADLOCK FALSE
