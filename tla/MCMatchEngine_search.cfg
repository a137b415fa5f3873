\* One signature, one search: every source of up to five bytes.
SPECIFICATION FairSpec
CONSTANTS
  Byte = {0, 1, 4}
  BlockSize = 2
  ChunkSize = 1
  CharOffset = 31
  Mod = 4
  MaxProbe = 5
  MaxChain = 1024
  MinTable = 4
  Crowded = 1
  MaxCalls = 2
  TableSizes <- Powers
  Strong <- MCStrong
  Digest <- MCDigest
  Bases <- CoreBases
  Inputs <- AllInputs
INVARIANTS
  TypeOK
  ResultsRebuildData
  RollingInSync
  ProbeChainsUnbroken
  NoBlockMissed
  ComputesSearchResult
  IdenticalInOrder
PROPERTIES
  CallsReturn
  SenderSpec
