CONSTANTS
  Threads = {t1, t2, t3}
  NoThread = NoThread
  MaxDepth = 2
  MaxHandles = 2
  CreateMayFail = TRUE
SPECIFICATION MutexSpec
INVARIANTS
  MutualExclusion
  ReturnCodesAgree
PROPERTIES
  ImplementsMutex
  StaticInitEnds
CHECK_DEADLOCK FALSE
