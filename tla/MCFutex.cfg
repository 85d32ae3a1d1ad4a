CONSTANTS
  t1 = t1 t2 = t2 t3 = t3
  cond = cond lock = lock NoSig = NoSig NoTask = NoTask
  Task <- ThreeTasks
  Sig <- Words
  Waiter <- T12
  Waker <- T3
  Locker <- ThreeTasks
  Opener <- T3
  Timed <- T1
  Serving <- T2
  Interruptible <- T2
  WakeAll = TRUE
  MaxCalls = 2
SPECIFICATION Spec
INVARIANTS LockExclusion NoLostWake LockersKnown
CHECK_DEADLOCK FALSE
