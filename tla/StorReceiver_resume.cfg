SPECIFICATION Spec
CONSTANTS
  Ids = {i1, i2}
  TotalBlocks = 2
  ChunkBlocks = 1
  Content = {0, 1}
  Zero = 0
  NoRecord = NoRecord
  NoFile = NoFile
  FlushPolicy = "every_n_chunks"
  FlushInterval = 2
  FinalVerify = "full"
  Streams = {s1}
  Options <- AllOptions
  InitialOutputs <- FreeOrOld
  MaxRanges = 1
  DecayPhases = {"down", "serving"}
  MaxFaults = 2
INVARIANTS
  Integrity
  AckAfterCommit
  BoundedLoss
  StuckLosesNothing
PROPERTIES
  PublishesVerifiedOnly
  CommittedIsFinal
  OneTransferPerOutput
