SPECIFICATION Spec
CONSTANTS
  t1 = t1
  t2 = t2
  t3 = t3
  r1 = r1
  r2 = r2
  r3 = r3
  NoRpc = NoRpc
  NoSig = NoSig
  join_signal = join_signal
  Task <- TwoTasks
  RpcId <- ThreeRpcs
  Sig <- ThreeSigs
  Modes <- KernelModes
  Caller <- TwoTasks
  KernelJob <- None
  Exiting <- T2
  Interruptible <- T1
  Masker <- T2
  Nothrower <- T2
  StaticSlots = 1
INVARIANTS ThrowNotScheduled
CHECK_DEADLOCK FALSE
