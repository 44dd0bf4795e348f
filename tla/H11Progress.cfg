SPECIFICATION FairSpec
CONSTANTS
  MaxReq = 1
  QueueSize = 3
  KeepAliveMax = 1000
  Scripts <- SingleScripts
  ConcurrentReceive = TRUE
PROPERTIES EndsWhenLost  StreamsEnd
CHECK_DEADLOCK FALSE
