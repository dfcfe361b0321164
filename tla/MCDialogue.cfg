CONSTANTS
  ClockSpace = 20
  Fast = 1
  Slow = 4
  MaxFast = 3
  PassGap = 1
  MaxBusy = 1
  CmdLen = 2
  ReplyLen = 2
  MaxLost = 1
  MaxOthers = 2
  States <- MCStates
  PollItems = 3
  QueueLen = 4
  MaxRetry = 1
  MaxFaults = 1
  MaxEvents = 1
  MaxAhead = 1
  PacketLen = 4
  PreLen = 2
  SerialCap = 2
  Capacity = 5
  PumpMax = 3
  DrainMax = 4
SPECIFICATION MCSpec
INVARIANTS
  UnitsTypeOK
  SilenceBounded
  FastRetriesBounded
  PendingIsUnderWay
  NotFooledOnce
  DoorButtonReleased
  GapFlagged
  SpliceNoticed
PROPERTIES
  LightRecordSettles
  LossRecovers
  RxPacketsComeThrough
