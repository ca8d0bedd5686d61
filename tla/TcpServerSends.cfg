\* One loop in the pool or none, two connections, one call of send() on a
\* thread that is not the connection's.
SPECIFICATION FairSpec
CONSTANTS
  Others = {t1}
  MaxThreads = 1
  MaxConns = 2
  MaxSends = 1
  MaxFds = 2
INVARIANTS TypeOK EventsHaveTheirObject GoneWasDown MapIsServed QueuedOnce
PROPERTIES ImplementsConnections ClosedIsReleased
CHECK_DEADLOCK FALSE
