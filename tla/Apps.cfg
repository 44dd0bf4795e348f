SPECIFICATION MCSpec
CONSTANTS
  None = None
  MountPoints = {m1, m2, m3}
  MaxQueueSize = 2
  MaxBodySize = 1
  MaxParts = 3
  MaxChunks = 2
  QueueSize = 2
  MaxHops = 2
INVARIANTS BodyWhole  
PROPERTIES DispatcherIsAnApp AllAnswered
CHECK_DEADLOCK FALSE
