SPECIFICATION Spec
CONSTANTS
  PktCap = 2
  FrameCap = 1
  FreeCap = 2
  MaxPackets = 3
  Messages <- MCMessages
CHECK_DEADLOCK FALSE
INVARIANTS BufferOwnedOnce
PROPERTIES NewestIsDecoded
