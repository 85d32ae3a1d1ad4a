CONSTANTS
  t1 = t1 t2 = t2 t3 = t3
  f1 = f1 f2 = f2 f3 = f3
  Root = Root NoFutex = NoFutex
  Task <- ThreeTasks
  Addr <- OneTwo
  Futex <- ThreeFutexes
  Getter <- ThreeTasks
  Finder <- ThreeTasks
  Dropper <- ThreeTasks
  Unmapping = TRUE
  MaxCalls = 4
SPECIFICATION Spec
SYMMETRY Perms
INVARIANTS WellLinked LocksProtect
PROPERTY ImplementsMap
CHECK_DEADLOCK FALSE
