SPECIFICATION FairSpec
CONSTANTS
  MaxReq = 1
  Scripts <- WindowUpdates
  Faults = {"reset"}
  MaxBody = 1
  ChunkSizes = {1}
  Extensions = {}
  QueueSize = 3
  KeepAliveMax = 1000
  HighWater = 2
  LowWater = 1
  FrameSize = 1
  InitialWindow = 0
  WindowIncrement = 1
PROPERTIES SendableIsSent SenderStops
CHECK_DEADLOCK FALSE
