SPECIFICATION Spec
CONSTANTS
  c1 = c1
  c2 = c2
  i2 = i2
  tw = tw
  tm = tm
  tx = tx
  ty = ty
  Cpu <- TwoCpus
  BootCpu = c1
  Task = {i2, tw, tm, ty}
  IdleOf <- MCIdle
  Home <- MCHome
  New = {ty}
  Sleeper = {tm, ty}
  Waker = {}
  Mover = {}
  Starter = {tw}
  Exiting = {}
  Movable = {}
  Quiet = {}
  Impatient = {}
  Slots = 2
  MaxCalls <- Once
  NoSmp = FALSE
INVARIANT SleepersStarted
CHECK_DEADLOCK FALSE
