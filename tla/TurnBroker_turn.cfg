SPECIFICATION Spec
CONSTANTS
  Tokens = {t1}
  Contracts = {"native", "awaiting_start"}
  Deadlines = {"none", "armed"}
  Calls = {x1, x2}
  Activities = {a1}
  Polls = {p1, p2}
  Answers = {y1, y2}
  NoAnswer = noAnswer
  Traces = {tr1}
SYMMETRY CallerSymmetry
INVARIANTS TypeOK CallLedger NoLostWakeup NoLeaseAfterClosure SafeAuthorization
PROPERTIES CompletionIsFinal DeadlineKept ImplementsToolCalls DrainStaysDrained
CHECK_DEADLOCK FALSE
