SPECIFICATION Spec
CONSTANTS
  MaxReq = 2
  Scripts <- TwoRequests
  Faults = {}
  MaxBody = 1
  ChunkSizes = {1}
  Extensions = {}
  QueueSize = 1
  KeepAliveMax = 1
  HighWater = 2
  LowWater = 1
  FrameSize = 1
  InitialWindow = 1
  WindowIncrement = 1
INVARIANTS TypeOK Disconnects IdleBetweenRequests SenderInStep
CHECK_DEADLOCK FALSE
