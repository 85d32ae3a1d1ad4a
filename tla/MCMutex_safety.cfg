SPECIFICATION Spec
CONSTANTS
  t1 = t1
  t2 = t2
  t3 = t3
  sig = sig
  NoSig = NoSig
  NoTask = NoTask
  Task <- TheTasks
  Sig <- TheSig
  Timed <- TheTasks
  Serving <- TheTasks
  Interruptible <- TheTasks
  Poller <- First
  SMP = TRUE
  MaxHeld = 2
INVARIANTS HolderOwns MutualExclusion
