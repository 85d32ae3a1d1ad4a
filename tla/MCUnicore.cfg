SPECIFICATION FairSpec
CONSTANTS
  cpu_count = 3
  Slots = 2
  Users = {0, 1}
  Shared = {1}
  MaxSections = 1
  MaxOthers = 1
  MaxRestarts = 1
  NoCpu = NoCpu
INVARIANTS SectionSuspends SuspensionBalanced
PROPERTY SectionsEnd
CHECK_DEADLOCK FALSE
