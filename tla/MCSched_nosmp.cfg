SPECIFICATION Spec
CONSTANTS
  c1 = c1
  c2 = c2
  i2 = i2
  tw = tw
  tm = tm
  tx = tx
  ty = ty
  Cpu <- OneCpu
  BootCpu = c1
  Task = {tw, tm, tx}
  IdleOf <- NoIdle
  Home <- AllBoot
  New = {}
  Sleeper = {tx, tm}
  Waker = {tw}
  Mover = {}
  Starter = {}
  Exiting = {tx, tm}
  Movable = {tx}
  Quiet = {}
  Impatient = {}
  Slots = 2
  MaxCalls <- Once
  NoSmp = TRUE
INVARIANT RunningAwake
CHECK_DEADLOCK FALSE
