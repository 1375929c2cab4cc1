SPECIFICATION FairSpec
CONSTANTS
  Period = 2
  ImageCap = 1
  HwCap = 2
  MaxTime = 8
  CuptiMayFail = TRUE
  CuptiMayExit = TRUE
PROPERTIES
  WritesLikeALog
  RecoversFromOverflow
  StopReturns
CHECK_DEADLOCK FALSE
