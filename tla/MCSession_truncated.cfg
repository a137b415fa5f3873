\* A receiver whose basis has lost its last block.
SPECIFICATION Spec
CONSTANTS
  Byte = {0, 1}
  BlockSize = 4
  ChunkSize = 2
  CharOffset = 31
  Mod = 4
  Word = 1000
  Octet = 16
  MaxWireBlocks = 2
  MaxSum2 = 2
  DigestCells = {1, 2, 3}
  Workers = {1, 2}
  MaxBatches = 2
  Strong <- MCStrong
  Digest <- MCDigest
  Bases <- SomeBases
  Inputs <- SomeSources
  Following <- NextMessage
  Holds <- LastLost
INVARIANTS
  MissingBlockReported
