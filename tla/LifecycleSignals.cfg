SPECIFICATION Spec
CONSTANTS
  Flusher = flusher
  Worker = worker
  None = none
  Suites = {s1}
  Probes = {p1}
  Hosts = {h1, h2}
  Signals = {int, segv}
  Crash = {segv}
  Handled = {int}
  HostCalls = {"stop", "exit", "fatal", "fork"}
  MaxCalls = 2
  SlowFlush = TRUE
PROPERTIES
  ChildLeavesParentAlone
INVARIANTS
  RunsOnce
  FlushedBeforeCourse
  ExitFlushes
  DeferralHasTaker
CHECK_DEADLOCK FALSE
SYMMETRY HostSymmetry
