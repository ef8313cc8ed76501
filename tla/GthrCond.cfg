CONSTANTS
  Waiters = {w1, w2}
  Signalers = {s1, s2}
  NoThread = NoThread
  UMax = 7
  Uses = {"locked", "any", "static"}
  MaxWaits = 1
SPECIFICATION CondSpec
INVARIANTS
  SignalWakesOne
  NoLostWakeup
  NoUseAfterDestroy
  WaitersCounted
  TokenReachable
  EventsCreatedOnce
  BroadcastWakesAll
PROPERTY SignalersReturn
CHECK_DEADLOCK FALSE
