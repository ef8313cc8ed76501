CONSTANTS
  Callers = {c1, c2}
  MaxThreads = 2
  MaxIds = 2
  Uses = {"overlapping"}
SPECIFICATION ThreadSpec
INVARIANT RefusedOnlyStale
CHECK_DEADLOCK FALSE
