CONSTANTS
  Threads = {t1, t2}
  NoThread = NoThread
  MaxDepth = 2
  MaxHandles = 2
  CreateMayFail = TRUE
SPECIFICATION MutexSpec
INVARIANT TimedLockReturns
CHECK_DEADLOCK FALSE
