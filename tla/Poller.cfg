\* Two channels, room for one event at first, a kernel that may always leave
\* the same channel out.
SPECIFICATION FairSpec
CONSTANTS
  Channels = {c1, c2}
  kInitEventListSize = 1
  MaxCalls = 5
INVARIANTS TypeOK PollerAgrees CapacityIsBounded
PROPERTIES NoStarvation
