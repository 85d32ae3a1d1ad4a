SPECIFICATION FairSpec
CONSTANTS
  t1 = t1
  t2 = t2
  t3 = t3
  sig = sig
  NoSig = NoSig
  NoTask = NoTask
  Task <- TheTasks
  Sig <- TheSig
  Timed <- None
  Serving <- None
  Interruptible <- None
  Poller <- First
  SMP = FALSE
  MaxHeld = 2
INVARIANTS NoStrandedWaiter
PROPERTY FreeMutexIsTaken
