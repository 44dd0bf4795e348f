SPECIFICATION Spec
CONSTANTS
  MaxReq = 1
  Scripts <- OneRequest
  Faults = {"reset"}
  MaxBody = 2
  ChunkSizes = {1, 2}
  Extensions = {}
  QueueSize = 2
  KeepAliveMax = 1000
  HighWater = 2
  LowWater = 1
  FrameSize = 1
  InitialWindow = 1
  WindowIncrement = 1
INVARIANTS SenderInStep TasksSurvive
PROPERTIES ImplementsResponses
CHECK_DEADLOCK FALSE
