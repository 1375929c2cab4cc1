SPECIFICATION Spec
CONSTANTS
  Procs = {a, b, c}
  First = a
  Pids = {1, 2}
  RootPids = {1}
  Recursive = TRUE
  Setups <- MCSetups
INVARIANTS
  OnlyOurs
  ReapsAdoptedOnly
CHECK_DEADLOCK FALSE
PROPERTIES
  ChildrenDiscovered
  AdoptedReaped
