SPECIFICATION Spec
CONSTANTS
  Pids = {p1}
  Callers = {c1, c2}
  MaxCalls = 2
  MaxFaults = 1
  MayFail = TRUE
INVARIANTS
  AnswersMatchBeforeStop
  ProbesAgree
  KeepsItsChild
  StopIsComplete
PROPERTIES
  EveryCallReturns
  SidecarEnds
CHECK_DEADLOCK FALSE
