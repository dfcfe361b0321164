CONSTANTS
  UseToggle = TRUE
  ReverseOnStop = FALSE
  KnownDurations = FALSE
  TTCTicks = 1
  TxLen = 1
  RxLen = 1
SPECIFICATION FairTimer
PROPERTY DelayEnds
