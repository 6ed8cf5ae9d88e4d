CONSTANTS
  NumThreads = 2
  MAX_TOKENS = 2
  Tasks = {1, 2}
  Parents = {0}
  NumLines = 1
  nTotalSets = 1
  MaxDepth = 1
  MaxTime = 4
SPECIFICATION FairSpec
PROPERTIES LockReleased
CHECK_DEADLOCK FALSE
