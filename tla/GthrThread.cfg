CONSTANTS
  Callers = {c1, c2}
  MaxThreads = 3
  MaxIds = 2
  Uses = {"serialized", "single"}
SPECIFICATION ThreadSpec
INVARIANTS
  NoDangling
  RefusedOnlyStale
  JoinHasResult
  NoLeak
PROPERTIES
  JoinReturnsInTime
  DetachedFreed
CHECK_DEADLOCK FALSE
