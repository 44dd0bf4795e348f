SPECIFICATION MCSpec
CONSTANTS
  Conns = {c1, c2}
  Servers = 2
  QueueSize = 2
  MaxRequests = 1
  WaitsForConnections = TRUE
INVARIANTS EndsClean
PROPERTIES ImplementsService WorkerEnds
CHECK_DEADLOCK FALSE
