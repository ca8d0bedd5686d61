\* The pool is destroyed before its thread has entered loop().
SPECIFICATION FairSpec
CONSTANTS
  MaxThreads = 1
  MaxPicks = 1
  UserQuits = FALSE
PROPERTIES DestroyAlwaysEnds
CHECK_DEADLOCK FALSE
