SPECIFICATION DiskSpec
CONSTANTS
  r = r
  m = m
  l = l
  Procs = {r, m, l}
  Root = r
  BornTo <- MCBornTo
  Late = {l}
  MaxUse = 1
  Setups <- MCSetups
INVARIANTS
  NoDoubleCount
  RemainderNotNegative
CHECK_DEADLOCK FALSE
