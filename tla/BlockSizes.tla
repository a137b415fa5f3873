------------------------------ MODULE BlockSizes ------------------------------
(***************************************************************************)
(* CalculateBlockSize (signature.go), the block size advised for a file,   *)
(* and the number of blocks it leads to, which WireDecodeSignature bounds. *)
(* The file grows, and is signed anew at each size.                        *)
(***************************************************************************)
EXTENDS Integers

CONSTANTS
  SmallFile,      \* 490 * 1024
  LeastBlock,     \* 700
  MostBlock,      \* 128 * 1024
  Divisor,        \* 10000
  HalfRange,      \* 2^31
  MaxWireBlocks,  \* maxWireBlocks, 100 million
  Growth,         \* by how much a file grows between two signatures
  MaxFile         \* bound: the size of the file

ASSUME SizesAssumption ==
  /\ {SmallFile, LeastBlock, MostBlock, Divisor, HalfRange, MaxWireBlocks} \subseteq Nat \ {0}
  /\ LeastBlock <= MostBlock /\ MostBlock < HalfRange
  /\ SmallFile <= MaxWireBlocks * LeastBlock
  /\ 2 * Divisor <= MaxWireBlocks
  /\ MaxWireBlocks * MostBlock < Divisor * HalfRange
ASSUME GrowthAssumption == Growth \subseteq Nat /\ MaxFile \in Nat

VARIABLES
  fileSize,   \* fileSize
  blockSize,  \* what CalculateBlockSize returned for it
  largest     \* history: the largest block size advised so far

sizeVars == << fileSize, blockSize, largest >>

\* int32(n)
Int32(n) == ((n + HalfRange) % (2 * HalfRange)) - HalfRange

Clamped(n) ==
  IF n < LeastBlock THEN LeastBlock ELSE IF n > MostBlock THEN MostBlock ELSE n

\* Mutant: converted before the division.
ConvertedFirst(n) ==
  IF n <= SmallFile THEN LeastBlock ELSE Clamped(Int32(n) \div Divisor)

CalculateBlockSize(n) ==
  IF n <= SmallFile THEN LeastBlock ELSE Clamped(Int32(n \div Divisor))

BlocksOf(n, size) == (n + size - 1) \div size

SizesInit ==
  /\ fileSize = 0
  /\ blockSize = CalculateBlockSize(0) /\ largest = blockSize

Grow ==
  \E n \in Growth :
    /\ fileSize + n <= MaxFile
    /\ fileSize' = fileSize + n
    /\ blockSize' = CalculateBlockSize(fileSize')
    /\ largest' = IF blockSize' > largest THEN blockSize' ELSE largest

SizesSpec == SizesInit /\ [][Grow]_sizeVars

-----------------------------------------------------------------------------
(* Properties *)

\* A file that can be signed in blocks the decoder takes at all is advised a
\* block size with which it takes them (wire.go:76), and as a file grows its
\* blocks never get smaller.  Beyond this size, from Divisor * HalfRange on, the
\* conversion to int32 wraps.
AdviceAccepted ==
  fileSize <= MaxWireBlocks * MostBlock =>
    /\ blockSize \in LeastBlock .. MostBlock
    /\ BlocksOf(fileSize, blockSize) <= MaxWireBlocks
    /\ blockSize = largest
=============================================================================
