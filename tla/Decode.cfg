SPECIFICATION Spec
CONSTANTS
  Period = 2
  ImageCap = 2
  HwCap = 3
  MaxTime = 14
  CuptiMayFail = FALSE
  CuptiMayExit = TRUE
INVARIANTS
  ImagesExclusive
  StopTakesAll
  LossAccounted
PROPERTIES
  RestartDropsNothing
CHECK_DEADLOCK FALSE
