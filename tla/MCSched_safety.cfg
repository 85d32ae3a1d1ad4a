SPECIFICATION FairSpec
CONSTANTS
  c1 = c1
  c2 = c2
  i2 = i2
  tw = tw
  tm = tm
  tx = tx
  ty = ty
  Cpu <- TwoCpus
  BootCpu = c1
  Task = {i2, tw, tm, tx, ty}
  IdleOf <- MCIdle
  Home <- MCHome
  New = {ty}
  Sleeper = {tx}
  Waker = {tw, tm}
  Mover = {tm, tw}
  Starter = {tw}
  Exiting = {tx, tm}
  Movable = {tx}
  Quiet = {tm}
  Impatient = {tw}
  Slots = 2
  MaxCalls <- Once
  NoSmp = FALSE
INVARIANTS ScheduledOnce PendingAnnounced WakeTruth StatusInScope
PROPERTY AnswersArrive
CHECK_DEADLOCK FALSE
