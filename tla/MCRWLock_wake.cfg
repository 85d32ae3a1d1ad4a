SPECIFICATION FairSpec
CONSTANTS
  t1 = t1
  t2 = t2
  t3 = t3
  NoSig = NoSig
  NoTask = NoTask
  rw_chmode = rw_chmode
  rw_unshare = rw_unshare
  Task <- TheTasks
  Sig <- TheSigs
  Timed <- None
  Serving <- None
  Interruptible <- None
  Writer <- TheTasks
  Upgrader <- None
  Downgrader <- None
  Poller <- None
  MaxHeld = 2
INVARIANTS WriterExclusion CountsMatch NoStrandedWaiter
PROPERTY UpgradeEnds
