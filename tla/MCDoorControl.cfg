CONSTANTS
  UseToggle = FALSE
  ReverseOnStop = TRUE
  KnownDurations = TRUE
  TTCTicks = 0
  TxLen = 2
  RxLen = 1
SPECIFICATION FairSpec
INVARIANTS
  TypeOK
  ClosedIsHeard
  OneReversal
PROPERTIES
  ReversalGoesOut
  NeverShutOut
  ReportCatchesUp
