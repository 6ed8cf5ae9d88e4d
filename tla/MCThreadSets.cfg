CONSTANTS
  NumThreads = 3
  MaxStarts = 4
  SublogBits = 1
  WordBits = 3
  LineSize = 2
  NumLines = 1
  NumSets = 1
  MAX_THREAD = 3
  Accesses <- LineAccesses
  MaxTrace = 5
  gLowestPillar = 0
  MAX_PILLARS = 2
  lowest_pillar = 0
  pillar_step = 1
SPECIFICATION AnySetSpec
INVARIANTS AnySetTypeOK WalksCountSharers SharingGraphIsExact ReportIsExact ComposedIsExact ProportionsBounded
