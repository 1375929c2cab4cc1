SPECIFICATION Spec
CONSTANTS
  Flusher = flusher
  Worker = worker
  None = none
  Suites = {s1}
  Probes = {p1}
  Hosts = {h1, h2}
  Signals = {int}
  Crash = {}
  Handled = {int}
  HostCalls = {"stop", "exit", "destroy"}
  MaxCalls = 2
  SlowFlush = FALSE
PROPERTIES
  CallsReturn
  SignalTaken
CHECK_DEADLOCK FALSE
