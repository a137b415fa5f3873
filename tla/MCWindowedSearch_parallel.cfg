\* Calls of both kinds, workers in every order, reads and callbacks that fail.
SPECIFICATION FairSpec
CONSTANTS
  Byte = {0, 1}
  BlockSize = 2
  ChunkSize = 2
  CharOffset = 31
  Mod = 4
  MaxCalls = 2
  Workers = {0, 3}
  GOMAXPROCS = 2
  WindowSizes = {3, 6}
  ReadFails = TRUE
  CallbackFails = TRUE
  Strong <- MCStrong
  Digest <- MCDigest
  Bases <- SomeBases
  Inputs <- SomeSources
  FileSizes <- Uneven
  Reachable <- AllOrBut
INVARIANTS
  OrderOfFinishIrrelevant
  WindowLoss
PROPERTIES
  ParallelKeepsPromise
  WindowedKeepsPromise
  ParallelReturns
