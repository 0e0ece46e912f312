SPECIFICATION Spec
CONSTANTS
  Ids = {i1}
  TotalBlocks = 2
  ChunkBlocks = 2
  Content = {0, 1}
  Zero = 0
  NoRecord = NoRecord
  NoFile = NoFile
  FlushPolicy = "every_n_chunks"
  FlushInterval = 1
  FinalVerify = "verified_chunks"
  Streams = {s1, s2}
  Options <- PlainOptions
  InitialOutputs <- NoOutput
  MaxRanges = 1
  DecayPhases = {"down"}
  MaxFaults = 1
SYMMETRY StreamSymmetry
INVARIANTS
  VerifiedChunksIntact
  SkipIsSound
  InductiveInv
