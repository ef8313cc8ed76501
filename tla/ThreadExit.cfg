CONSTANTS
  t1 = t1
  x = x
  y = y
  z = z
  Threads = {main, t1}
  Main = main
  NoThread = NoThread
  Objects = {x, y, z}
  NoObject = NoObject
  Names <- TwoAndThree
  Destructible = {x, y}
  Slack = 0
  MaxBlocks = 3
  Orders = {"list", "storage"}
  MaxRounds = 3
SPECIFICATION ThreadExitSpec
INVARIANTS
  OneOffset
  AddressStable
  NothingLeaks
  CleanupsRun
  CleanupsFindStorage
CHECK_DEADLOCK FALSE
