CONSTANTS
  UseToggle = FALSE
  ReverseOnStop = FALSE
  KnownDurations = TRUE
  TTCTicks = 1
  TxLen = 2
  RxLen = 1
SPECIFICATION Spec
PROPERTY OpenLeavesDoorOpen
