CONSTANTS
  NumThreads = 2
  MaxStarts = 2
  SublogBits = 1
  WordBits = 3
  LineSize = 2
  NumLines = 2
  NumSets = 2
  MAX_THREAD = 2
  Accesses <- StraddlingAccesses
  MaxTrace = 3
SPECIFICATION Spec
INVARIANTS ReportIsExact
