CONSTANTS
  NumThreads = 2
  MaxStarts = 2
  MaxBlock = 2
  Knobs <- MCKnobs
  MaxInstructions <- MCInstructions
  NumLines = 2
  NumSets = 2
  MaxSpan = 2
  MaxAccesses <- MCAccesses
SPECIFICATION Spec
INVARIANTS TypeOK StartsAfterSkip StopsAfterLength RangeWaits RangeStops HandlersStored UniformSamples SamplesApart SharedIsExact
