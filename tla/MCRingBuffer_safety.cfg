SPECIFICATION Spec
CONSTANTS
  tr = tr
  tw = tw
  tu = tu
  stat = stat
  NoSig = NoSig
  Task <- ThreeTasks
  Sig <- OneSig
  RBUFFER_INIT_ALLOC = 2
  r_limt = 3
  Slack = 0
  MaxBytes = 2
  Stamps = 3
  Reader <- RU
  Writer <- WU
  Seeker <- U
  Waiter <- U
  WaitFor <- EmptyOrNonFull
  Closer <- U
  Serving <- ThreeTasks
  Interruptible <- U
  Faulty <- U
  MaxCalls <- Calls121
INVARIANTS NoStrandedReader RoomTold
PROPERTIES ImplementsQueue DeliversWhatLeaves
CHECK_DEADLOCK FALSE
