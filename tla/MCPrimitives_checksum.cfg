\* Weak checksums by every path, digests in lanes, vector cores, block sizes.
SPECIFICATION PrimitivesSpec
CONSTANTS
  Mod = 64
  CharOffset = 31
  Word = 256
  Group = 2
  Groups = 2
  Unroll = 2
  MaxByte = 2
  None = None
  Kernels <- AllKernels
  Lanes = {1, 2}
  Chunk = 4
  Half = 16
  BitsOf = 2
  NoCall = NoCall
  Inputs <- SomeInputs
  HashCalls <- SomeCalls
  Width = 4
  Plus <- RippleCarry
  T <- SomeTable
  Shifts <- SomeShifts
  MaxFolded = 2
  Seeds <- SomeSeeds
  Buffers <- SomeBuffers
  SmallFile = 10
  LeastBlock = 3
  MostBlock = 12
  Divisor = 4
  HalfRange = 32
  MaxWireBlocks = 8
  Growth = {1, 5}
  MaxFile = 140
INVARIANTS
  ChecksumAgrees
  DigestsAgree
  AdviceAccepted
PROPERTIES
  CoreFollowsRounds
