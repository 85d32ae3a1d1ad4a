SPECIFICATION Spec
CONSTANTS
  Lock <- TheLocks
  Contended <- Others
  Recursive <- Nine
  ServeInWait = FALSE
  MaxMsk = 7
  MaxNest = 2
  MaxHeld = 2
INVARIANTS CountersAgree
PROPERTY ImplementsMap
CHECK_DEADLOCK FALSE
