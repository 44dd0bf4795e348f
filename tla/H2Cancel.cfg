SPECIFICATION Spec
CONSTANTS
  MaxReq = 1
  Scripts <- Failing
  Faults = {"terminate", "eof", "timeout"}
  MaxBody = 2
  ChunkSizes = {1}
  Extensions = {"flush", "headers"}
  QueueSize = 1
  KeepAliveMax = 1000
  HighWater = 2
  LowWater = 1
  FrameSize = 1
  InitialWindow = 1
  WindowIncrement = 1
INVARIANTS Disconnects SenderInStep
CHECK_DEADLOCK FALSE
