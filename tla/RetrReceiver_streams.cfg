SPECIFICATION Spec
CONSTANTS
  Ids = {i1}
  TotalBlocks = 2
  ChunkIds = {0, 1}
  Content = {0, 1}
  Zero = 0
  NoFile = NoFile
  FlushPolicy = "every_n_chunks"
  FlushInterval = 1
  FinalVerify = "verified_chunks"
  Streams = {s1, s2}
  Options <- FirstOrLater
  InitialOutputs <- NoOutput
  MaxRanges = 1
  DecayPhases = {"down"}
  MaxFaults = 1
CONSTRAINT OneByOneLater
SYMMETRY StreamSymmetry
INVARIANTS
  Integrity
  VerifiedChunksIntact
  SkipIsSound
  InductiveInv
