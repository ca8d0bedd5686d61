\* Only the loop's thread sends.
SPECIFICATION Spec
CONSTANTS
  Owner = owner
  Senders = {}
  Closers = {}
  HighWater = 3
  MsgLen = 2
  MaxSends = 1
  MaxIn = 0
INVARIANTS BufferHoldsSentBytes
CHECK_DEADLOCK FALSE
