CONSTANTS
  NumThreads = 2
  MaxStarts = 2
  SublogBits = 1
  WordBits = 3
  LineSize = 2
  NumLines = 1
  NumSets = 1
  MAX_THREAD = 2
  Accesses <- LineAccesses
  MaxTrace = 3
  gLowestPillar = 1
  MAX_PILLARS = 2
  lowest_pillar = 1
  pillar_step = 1
SPECIFICATION AnySetSpec
INVARIANTS PillarsAsRecorded 
