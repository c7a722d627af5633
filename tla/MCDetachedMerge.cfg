CONSTANTS
  Tag <- MCTag
  PairMaxPending = 1
  MaxBatch = 2
  MaxHalves = 3
  NoTag = NoTag
SPECIFICATION MergeFairSpec
INVARIANTS
  MergedInOrder
  PairsNeverWait
  HalvesConserved
  EvenWithNextOdd
PROPERTIES
  RejectsOnlyDisorder
  PassedHalfEndsRun
