SPECIFICATION Spec
CONSTANTS
  MaxReq = 3
  QueueSize = 1
  KeepAliveMax = 2
  Scripts <- MCScripts
  ConcurrentReceive = FALSE
INVARIANTS TypeOK DisconnectOnce DisconnectNotLost  Mitigations
PROPERTIES ImplementsExchange
CHECK_DEADLOCK FALSE
