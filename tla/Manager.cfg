SPECIFICATION FairSpec
CONSTANTS
  Workers = {w1, w2}
  MaxReloads = 2
  MaxEdits = 1
INVARIANTS TypeOK Justified NoWorkerLeft
PROPERTIES ShutdownEnds WorkersCurrent
CHECK_DEADLOCK FALSE
