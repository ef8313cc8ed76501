CONSTANTS
  Threads = {t1, t2}
  FuncMayThrow = TRUE
SPECIFICATION OnceSpec
PROPERTY EveryCallEnds
CHECK_DEADLOCK FALSE
