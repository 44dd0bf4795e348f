SPECIFICATION FairSpec
CONSTANTS
  Workers = {w1, w2}
  MaxReloads = 0
  MaxEdits = 0
INVARIANTS ExitCodeReturned
CHECK_DEADLOCK FALSE
