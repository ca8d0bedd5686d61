\* Two callers and the owner, one queueInLoop call each and any number of quit
\* calls.  Fairness for running threads only: epoll_wait may never time out.
SPECIFICATION FairSpec
CONSTANTS
  Owner = owner
  Callers = {t1, t2}
  Channels = {c1}
  WakeupChannel = wakeupChannel
  MaxCalls = 1
INVARIANTS TypeOK NoLostWakeup
PROPERTIES BatchIsFixed ImplementsTaskQueue Delivered QuitStopsLoop
CHECK_DEADLOCK FALSE
