\* A vector of 1 + 2 bytes, an extrabuf of 2.
SPECIFICATION Spec
CONSTANTS
  Byte = {0, 1}
  Zero = 0
  kCheapPrepend = 1
  kInitialSize = 2
  ExtraSize = 2
  MaxLen = 3
  MaxBytes = 5
INVARIANTS IndexOrder BytesKeptInOrder
