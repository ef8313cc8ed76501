CONSTANTS
  Threads = {t1, t2, t3, t4}
  FuncMayThrow = TRUE
SPECIFICATION OnceSpec
INVARIANTS
  RunsAtMostOnce
  ReturnAfterFunc
PROPERTY EveryCallReturns
CHECK_DEADLOCK FALSE
