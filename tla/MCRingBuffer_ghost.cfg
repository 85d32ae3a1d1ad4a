SPECIFICATION Spec
CONSTANTS
  tr = tr
  tw = tw
  tu = tu
  stat = stat
  NoSig = NoSig
  Task <- ThreeTasks
  Sig <- OneSig
  RBUFFER_INIT_ALLOC = 2
  r_limt = 2
  Slack = 0
  MaxBytes = 2
  Stamps = 3
  Reader <- R
  Writer <- W
  Seeker <- None
  Waiter <- U
  WaitFor <- NonFullOnly
  Closer <- None
  Serving <- None
  Interruptible <- None
  Faulty <- None
  MaxCalls <- Calls2
INVARIANT OneWriterTold
CHECK_DEADLOCK FALSE
