SPECIFICATION FairSpec
CONSTANTS
  p1 = p1
  p2 = p2
  Pids = {p1}
  Callers = {c1}
  FlushThread = flush
  Roots <- RootP1
  MaxGen = 2
  MaxCalls = 1
  MaxTicks = 1
  PidfdMayFail = FALSE
  WriteMayFail = TRUE
PROPERTIES
  RemovalCompletes
CHECK_DEADLOCK FALSE
