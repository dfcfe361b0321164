CONSTANTS
  UseToggle = TRUE
  ReverseOnStop = TRUE
  KnownDurations = TRUE
  TTCTicks = 0
  TxLen = 2
  RxLen = 1
SPECIFICATION Spec
PROPERTY CloseReversalGoesOut
