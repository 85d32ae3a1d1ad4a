SPECIFICATION FairSpec
CONSTANTS
  c1 = c1
  c2 = c2
  i2 = i2
  tw = tw
  tm = tm
  tx = tx
  ty = ty
  Cpu <- TwoCpus
  BootCpu = c1
  Task = {i2, tw, tm, tx}
  IdleOf <- MCIdle
  Home <- MCHome
  New = {}
  Sleeper = {}
  Waker = {}
  Mover = {tw}
  Starter = {}
  Exiting = {}
  Movable = {tx, tm}
  Quiet = {}
  Impatient = {}
  Slots = 2
  MaxCalls <- Twice
  NoSmp = FALSE
PROPERTY NoIpiLost
CHECK_DEADLOCK FALSE
