CONSTANTS
  Threads = {t1}
  FlushNodeCount = 1
  HighWaterLevelNodeCount = 3
  MaxFileSize = 2
  OpenMayFail = TRUE
  MaxLogs = 1
  MaxTime = 1
  MaxErrors = 0
  MaxFlushes = 1
SPECIFICATION Spec
INVARIANT NeverLocksTwice
CHECK_DEADLOCK FALSE
