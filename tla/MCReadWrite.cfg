CONSTANTS
  NumThreads = 3
  SublogBits = 1
  WordBits = 3
  NumLines = 1
  MaxTrace = 5
SPECIFICATION Spec
INVARIANTS TypeOK ReadOnlyIsExact ReadWriteIsExact
