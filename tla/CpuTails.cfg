SPECIFICATION CpuSpec
CONSTANTS
  r = r
  m = m
  l = l
  Procs = {r, m, l}
  Root = r
  BornTo <- MCBornTo
  Late = {}
  MaxUse = 1
  Setups <- MCSetups
INVARIANTS
  CpuCountedOnce
CHECK_DEADLOCK FALSE
