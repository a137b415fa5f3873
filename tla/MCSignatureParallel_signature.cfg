\* One call of either kind, for every file, batch width and number of workers.
SPECIFICATION FairSpec
CONSTANTS
  Byte = {0, 1}
  BlockSize = 2
  ChunkSize = 2
  CharOffset = 31
  Mod = 4
  Procs = {1, 2, 3, 5}
  Widths = {1, 2, 4}
  ReadFails = TRUE
  Algorithms = {"md5", "none"}
  Known = {"md5"}
  MaxCalls = 1
  Strong <- MCStrong
  Digest <- MCDigest
  Files <- SomeFiles
  FileSizes <- Near
INVARIANTS
  SignatureExact
  PartialTrue
  RangesApart
  NoWriterLeft
PROPERTIES
  CallReturns
