CONSTANTS
  dllA = dllA
  dllB = dllB
  Threads = {t1, t2}
  NoThread = NoThread
  Modules = {dllA, dllB}
  NoModule = NoModule
  Layouts <- SomeLayouts
  Pcs = {1, 4, 6, 9}
  MaxPc = 10
  MaxCount = 2
SPECIFICATION RegistrySpec
INVARIANTS
  NoFreedRead
  AbortOnlyUnhandled
  UnloadedIsGone
  FramesWhileRunning
PROPERTIES
  ImplementsRegistry
  FindsReturn
CHECK_DEADLOCK FALSE
