CONSTANTS
  g1 = g1
  g2 = g2
  Threads = {t1, t2, t3}
  Guards = {g1, g2}
  NoThread = NoThread
  NoGuard = NoGuard
  Needs <- OneNeedsTwo
  MaxNest = 2
  MaxThrows = 1
SPECIFICATION GuardSpec
INVARIANTS
  OneInitializer
  BuiltOnce
  PassedIsBuilt
  NoStrandedSleeper
PROPERTIES
  OthersNotBlocked
  EveryAcquireReturns
