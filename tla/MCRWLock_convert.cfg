SPECIFICATION Spec
CONSTANTS
  t1 = t1
  t2 = t2
  t3 = t3
  NoSig = NoSig
  NoTask = NoTask
  rw_chmode = rw_chmode
  rw_unshare = rw_unshare
  Task <- TheTasks
  Sig <- TheSigs
  Timed <- TheTasks
  Serving <- Third
  Interruptible <- Third
  Writer <- First
  Upgrader <- First
  Downgrader <- First
  Poller <- Third
  MaxHeld = 2
INVARIANTS WriterExclusion
