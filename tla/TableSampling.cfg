SPECIFICATION Spec
CONSTANTS
  p1 = p1
  p2 = p2
  Pids = {p1}
  Callers = {c1}
  FlushThread = flush
  Roots <- RootP1
  MaxGen = 2
  MaxCalls = 1
  MaxTicks = 2
  PidfdMayFail = TRUE
  WriteMayFail = FALSE
INVARIANTS
  BaselineIsOwn
  SampleHasRow
  SamplesConserved
PROPERTIES
  KeptReadingIsOwn
CHECK_DEADLOCK FALSE
