\* A loop sees quit_ before the destructor writes its eventfd.
SPECIFICATION Spec
CONSTANTS
  MaxThreads = 1
  MaxPicks = 1
  UserQuits = FALSE
INVARIANTS WakeupReachesLoop
CHECK_DEADLOCK FALSE
