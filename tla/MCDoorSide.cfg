CONSTANTS
  ClockSpace = 8
  CloseTimeout = 3
  OneDay = 5
  Limits = {0, 2, 5}
  MaxGap = 2
  MaxRequests = 2
  History = 4
  MinDuration = 1
  MaxDuration = 4
  Travels = {2, 3}
  MaxOpenings = 5
  Size = 12
  LineLens = {2, 5, 7}
  Chunk = 4
  MaxBytes = 30
SPECIFICATION MCSpec
INVARIANTS
  UnitsTypeOK
  LeftOpenOnTime
  CloseFailsInTime
  StateFollowsEnds
  EstimateOutlivesErrors
  LogReadsInOrder
PROPERTIES
  FailureLatched
  TravelUnlessMissed
