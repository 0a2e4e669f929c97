CHECK_DEADLOCK FALSE
SPECIFICATION Spec
CONSTANTS
  NumOutput = 2
  NumCapture = 2
  InputCap = 1
  BufferLimit = 2
  Packets = 4
  MaxFaults = 1
  MaxChanges = 1
INVARIANTS NothingLost
PROPERTIES ImplementsDecoder DecodeReturns CloseReturns
