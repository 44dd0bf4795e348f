SPECIFICATION FairSpec
CONSTANTS
  QueueSize = 1
  Timers = {t1, t2, t3}
INVARIANTS OneView 
PROPERTIES ClosedIsForgotten
CHECK_DEADLOCK FALSE
