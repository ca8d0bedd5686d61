\* A pool of none or one or two threads, two threads that call start(), two
\* connections, no calls of send() (TcpServerSends).
SPECIFICATION FairSpec
CONSTANTS
  Others = {t1}
  MaxThreads = 2
  MaxConns = 2
  MaxSends = 0
  MaxFds = 2
INVARIANTS ServerOutlivesLoops PoolIsFixed
PROPERTIES ImplementsLoopPool ClientsAreAccepted ServerEnds
CHECK_DEADLOCK FALSE
