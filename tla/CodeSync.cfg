CONSTANTS
  Readers = {d1, d2}
  Writers = {cl}
  CloseEvent = cl
SPECIFICATION SyncFairSpec
CHECK_DEADLOCK FALSE
INVARIANTS
  RWInv
  SyncInv
  DataBeforeClose
  KnownFailureIsKept
PROPERTIES
  FailedExitIsReported
  StopEndsProcess
  ImplementsReadWriteLock
