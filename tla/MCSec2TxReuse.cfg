CONSTANTS
  i1 = i1
  i2 = i2
  Id <- MCId
  NoId = NoId
  QueueSize = 4
  SyncLen = 2
  MaxRetry = 1
  SaveEvery = 2
  CodeSpace = 16
  CodeLimit = 6
SPECIFICATION Spec
PROPERTY EachCommandHigher
