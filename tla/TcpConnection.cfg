\* One other thread and the loop's thread send, one other thread shuts down.
SPECIFICATION FairSpec
CONSTANTS
  Owner = owner
  Senders = {t1}
  Closers = {t2}
  HighWater = 3
  MsgLen = 2
  MaxSends = 2
  MaxIn = 1
INVARIANTS TypeOK CallbacksPaired SendOrder HeardOrLeaving
PROPERTIES RemovedForGood ClosedIsDestroyed
CHECK_DEADLOCK FALSE
