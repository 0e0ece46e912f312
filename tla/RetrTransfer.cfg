SPECIFICATION FairTransferSpec
CONSTANTS
  Ids = {i1}
  TotalBlocks = 2
  ChunkIds = {0, 1}
  Content = {0, 1, 2}
  Zero = 0
  NoFile = NoFile
  FlushPolicy = "every_n_chunks"
  FlushInterval = 1
  FinalVerify = "full"
  Streams = {0, 1}
  Options <- AllOptions
  InitialOutputs <- FreeOrOld
  MaxRanges = 1
  DecayPhases = {"down"}
  MaxFaults = 2
  Source <- Alternating
  ChunkBlocks = 1
  Window = 1
INVARIANTS
  BoundedLoss
  SenderOkMeansVerified
PROPERTIES
  OneTransferPerOutput
  StuckLosesNothing
  ImplementsAtomicDownload
  BothEnd
  EventuallyDownloaded
