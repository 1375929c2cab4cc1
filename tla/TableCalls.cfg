SPECIFICATION Spec
CONSTANTS
  p1 = p1
  p2 = p2
  Pids = {p1}
  Callers = {c1, c2}
  FlushThread = flush
  Roots <- RootP1
  MaxGen = 2
  MaxCalls = 3
  MaxTicks = 0
  PidfdMayFail = FALSE
  WriteMayFail = FALSE
INVARIANTS
  OneRowPerPid
  PidfdPinsEntry
  DeferredHasBlocker
  DroppedWasAnnounced
PROPERTIES
  EndedStaysEnded
CHECK_DEADLOCK FALSE
