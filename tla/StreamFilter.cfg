CONSTANTS
  HeaderSize = 3
  MaxRecvSize = 10
  Lengths = {3, 5, 9}
  NFrames = 3
  MaxFaults = 2
SPECIFICATION Spec
INVARIANTS NothingSkipped FramesHandled
PROPERTIES ByteHandlerReturns
CHECK_DEADLOCK FALSE
