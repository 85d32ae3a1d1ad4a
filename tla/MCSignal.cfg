SPECIFICATION Spec
CONSTANTS
  t1 = t1
  t2 = t2
  t3 = t3
  s1 = s1
  ch = ch
  Task <- ThreeTasks
  Sig <- OneSig
  Chan <- OneChan
  NoSig = NoSig
  Garbage = Garbage
  NULL = NULL
  Master = Master
  Slots = 1
  MaxThreads = 1
  Listener <- TwoTasks
  Poller <- First
  Pusher <- Second
  Joiner <- First
INVARIANTS WellLinked OnlyPushLosesSignals CountedWakesKept
PROPERTY ImplementsQueue
