\* A match in front of a tail that was not read.
SPECIFICATION FairReaderSpec
CONSTANTS
  Byte = {0, 1, 4}
  BlockSize = 3
  ChunkSize = 1
  CharOffset = 31
  Mod = 4
  MaxProbe = 6
  MaxChain = 1024
  MinTable = 4
  Crowded = 1
  MaxCalls = 2
  TableSizes <- Powers
  Strong <- MCStrong
  Digest <- MCDigest
  Bases <- ReaderBases
  Inputs <- ManySources
  Searched = {}
  FileSizes <- Exact
  ReadSizes = {1, 2}
  JoinedEOF = FALSE
  ReadFails = FALSE
  CallbackFails = FALSE
INVARIANTS
  WholeDelivered
