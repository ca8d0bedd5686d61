\* Only the loop's thread sends.
SPECIFICATION FairSpec
CONSTANTS
  Owner = owner
  Senders = {}
  Closers = {}
  HighWater = 3
  MsgLen = 2
  MaxSends = 1
  MaxIn = 0
PROPERTIES BufferIsFlushed
CHECK_DEADLOCK FALSE
