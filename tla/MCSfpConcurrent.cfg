CONSTANTS
  NumThreads = 2
  MaxStarts = 2
  SublogBits = 1
  WordBits = 3
  LineSize = 2
  NumLines = 4
  NumSets = 3
  MAX_THREAD = 2
  Accesses <- SpanningAccesses
  MaxTrace = 3
SPECIFICATION FairSpec
INVARIANTS TypeOK LocksExclusive StampsInOrder ListsSorted WalkCountsSharers LevelsInRange NoLockCycle ReportIsExact BoundariesExact
PROPERTIES NoLostUpdate RefinesRecencyTable AccessesComplete
