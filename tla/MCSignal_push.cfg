SPECIFICATION Spec
CONSTANTS
  t1 = t1
  t2 = t2
  t3 = t3
  s1 = s1
  ch = ch
  Task <- TwoTasks
  Sig <- OneSig
  Chan <- NoChan
  NoSig = NoSig
  Garbage = Garbage
  NULL = NULL
  Master = Master
  Slots = 1
  MaxThreads = 1
  Listener <- None
  Poller <- Second
  Pusher <- First
  Joiner <- None
INVARIANTS SavedSetsListen
