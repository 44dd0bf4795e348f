SPECIFICATION FairSpec
CONSTANTS
  QueueSize = 2
  MaxLength = 1
  MaxFrames = 2
INVARIANTS  ToldOnce 
PROPERTIES AllEnd
CHECK_DEADLOCK FALSE
