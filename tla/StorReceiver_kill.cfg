SPECIFICATION Spec
CONSTANTS
  Ids = {i1}
  TotalBlocks = 1
  ChunkBlocks = 1
  Content = {0, 1}
  Zero = 0
  NoRecord = NoRecord
  NoFile = NoFile
  FlushPolicy = "every_n_chunks"
  FlushInterval = 1
  FinalVerify = "verified_chunks"
  Streams = {s1}
  Options <- PlainOptions
  InitialOutputs <- NoOutput
  MaxRanges = 1
  DecayPhases = {"down"}
  MaxFaults = 1
INVARIANTS
  KillIsRecoverable
