CONSTANTS
  NumThreads = 2
  MAX_TOKENS = 2
  Tasks = {1, 2, 3}
  Parents = {1}
  NumLines = 1
  nTotalSets = 1
  MaxDepth = 2
  MaxTime = 2
SPECIFICATION Spec
INVARIANTS TypeOK RecordsUnderOwnToken TokensShared TokensReturned TimesInOrder
PROPERTIES MapStableForReaders
CHECK_DEADLOCK FALSE
