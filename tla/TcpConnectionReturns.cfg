\* Another thread sends while the peer closes.
SPECIFICATION Spec
CONSTANTS
  Owner = owner
  Senders = {t1}
  Closers = {}
  HighWater = 3
  MsgLen = 2
  MaxSends = 1
  MaxIn = 0
INVARIANTS ChannelStaysRemoved
CHECK_DEADLOCK FALSE
