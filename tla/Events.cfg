SPECIFICATION Spec
CONSTANTS
  Clients = {c1, c2}
  Domains = {"GPU", "GENERIC"}
  MaxCalls = 4
  GpuMayFail = TRUE
INVARIANTS
  HandlesOwned
PROPERTIES
  WritesLikeALog
  EventuallyWritten
  StopReturns
CHECK_DEADLOCK FALSE
