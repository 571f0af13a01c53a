CONSTANTS
  Readers = {d1}
  Writers = {cl}
  CloseEvent = cl
SPECIFICATION SyncFairSpec
CHECK_DEADLOCK FALSE
PROPERTY StoppedNeverError
