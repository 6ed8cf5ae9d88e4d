CONSTANTS
  NumThreads = 2
  MaxStarts = 2
  SublogBits = 1
  WordBits = 3
  NumTasks = 2
  NumLines = 1
  NumSets = 1
  MAX_THREAD = 2
  MAX_PILLARS = 2
  gLowestPillar = 0
  SFP_LIST_TRIM_FREQUENCY = 2
  Controlled = {0}
  Started = {1}
  MaxDepth = 1
  MaxTime = 5
SPECIFICATION Spec
INVARIANTS TypeOK SharingGraphIsExact ReportIsExact WindowsCountedOnce
