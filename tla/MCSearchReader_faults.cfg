\* Failing reads and callbacks, sources shorter or longer than announced, searches
\* in memory and signatures replaced in between, probe limits below the collisions.
SPECIFICATION ReaderSpec
CONSTANTS
  Byte = {0, 1, 4}
  BlockSize = 3
  ChunkSize = 2
  CharOffset = 31
  Mod = 4
  MaxProbe = 2
  MaxChain = 1
  MinTable = 4
  Crowded = 1
  MaxCalls = 3
  TableSizes <- Powers
  Strong <- MCStrong
  Digest <- MCDigest
  Bases <- ReaderBases
  Inputs <- FewSources
  Searched <- OtherSources
  FileSizes <- Uneven
  ReadSizes = {1}
  JoinedEOF = TRUE
  ReadFails = TRUE
  CallbackFails = TRUE
INVARIANTS
  WindowBuffered
  SearchUndisturbed
  CallsCounted
PROPERTIES
  ReaderKeepsPromise
