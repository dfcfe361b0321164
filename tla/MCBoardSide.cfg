CONSTANTS
  Chunks = 2
  MaxAsks = 3
  MaxMishaps = 2
  Channels = 3
  Viewers = {"a", "b", "c", "d"}
SPECIFICATION MCSpec
INVARIANTS
  UnitsTypeOK
  OnlyWholeImages
  ChannelsAddUp
PROPERTIES
  VerifyHarmless
  LiveUploadKept
  UploadEnds
  FailedUploadRestarts
  BoardComesBack
CHECK_DEADLOCK FALSE
