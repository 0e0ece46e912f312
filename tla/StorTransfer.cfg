SPECIFICATION FairTransferSpec
CONSTANTS
  Ids = {i1}
  TotalBlocks = 3
  ChunkBlocks = 2
  Content = {0, 1, 2}
  Zero = 0
  NoRecord = NoRecord
  NoFile = NoFile
  FlushPolicy = "every_n_chunks"
  FlushInterval = 1
  FinalVerify = "verified_chunks"
  Streams = {0, 1}
  Options <- OverwriteOptions
  InitialOutputs <- FreeOrOld
  MaxRanges = 1
  DecayPhases = {"down"}
  MaxFaults = 2
  Source <- Alternating
  Window = 1
PROPERTIES
  ServerTerminates
  EventuallyCommitted
  ImplementsAtomicUpload
CHECK_DEADLOCK FALSE
