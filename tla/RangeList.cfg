SPECIFICATION Spec
CONSTANTS
  Word = 16
  TotalSize = 8
INVARIANTS
  RangesAreCoveredRuns
  MissingIsComplement
  NeighbourTestIsExact
