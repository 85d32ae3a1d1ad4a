CONSTANTS
  t1 = t1 t2 = t2 t3 = t3
  f1 = f1 f2 = f2 f3 = f3 f4 = f4
  Root = Root NoFutex = NoFutex
  Task <- TwoTasks
  Addr <- OneTwo
  Futex <- ThreeFutexes
  Getter <- TwoTasks
  Finder <- TwoTasks
  Dropper <- None
  Unmapping = FALSE
  MaxCalls = 3
SPECIFICATION FairSpec
CHECK_DEADLOCK FALSE
PROPERTY FutexReturned
