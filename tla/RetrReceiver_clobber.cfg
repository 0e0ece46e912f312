SPECIFICATION Spec
CONSTANTS
  Ids = {i1}
  TotalBlocks = 1
  ChunkIds = {0}
  Content = {0, 1}
  Zero = 0
  NoFile = NoFile
  FlushPolicy = "every_n_chunks"
  FlushInterval = 1
  FinalVerify = "verified_chunks"
  Streams = {s1, s2}
  Options <- OverwriteOptions
  InitialOutputs <- OldOutput
  MaxRanges = 1
  DecayPhases = {"down"}
  MaxFaults = 0
SYMMETRY StreamSymmetry
INVARIANTS
  OldOrNewOutput
