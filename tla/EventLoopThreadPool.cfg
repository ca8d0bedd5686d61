\* Up to three threads; user code may end a loop at any time.
SPECIFICATION FairSpec
CONSTANTS
  MaxThreads = 3
  MaxPicks = 2
  UserQuits = TRUE
INVARIANTS TypeOK StartedWithLoop PublishedIsAlive DestroyedIsLeft MainIsAnswered
PROPERTIES ImplementsLoopPool PoolStarts DestroyEnds
CHECK_DEADLOCK FALSE
