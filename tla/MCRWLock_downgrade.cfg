SPECIFICATION Spec
CONSTANTS
  t1 = t1
  t2 = t2
  t3 = t3
  NoSig = NoSig
  NoTask = NoTask
  rw_chmode = rw_chmode
  rw_unshare = rw_unshare
  Task <- TheTasks
  Sig <- TheSigs
  Timed <- None
  Serving <- None
  Interruptible <- None
  Writer <- FirstTwo
  Upgrader <- None
  Downgrader <- First
  Poller <- None
  MaxHeld = 1
INVARIANTS WriterExclusion
CHECK_DEADLOCK FALSE
