SPECIFICATION Spec
CONSTANTS
  tr = tr
  tw = tw
  tu = tu
  stat = stat
  NoSig = NoSig
  Task <- ThreeTasks
  Sig <- OneSig
  RBUFFER_INIT_ALLOC = 3
  r_limt = 3
  Slack = 0
  MaxBytes = 3
  Stamps = 3
  Reader <- RU
  Writer <- WU
  Seeker <- None
  Waiter <- None
  WaitFor <- EmptyOnly
  Closer <- None
  Serving <- None
  Interruptible <- None
  Faulty <- None
  MaxCalls <- Calls121
INVARIANT NoStrandedWriter
CHECK_DEADLOCK FALSE
