------------------------------- MODULE Blocks -------------------------------
(***************************************************************************)
(* The data every part of the package shares: files, their blocks and      *)
(* signatures, and the instructions (MatchResult) that rebuild a file from *)
(* literal data and the blocks of a basis file.                            *)
(*                                                                         *)
(* A file is a sequence of bytes.  Offsets and block indices are 0-based   *)
(* as in the code; Slice(f, lo, hi) is Go's f[lo:hi].                      *)
(***************************************************************************)
EXTENDS RollingSum

CONSTANTS
  Byte,        \* the bytes files are made of
  BlockSize,   \* block size, the same on both sides
  ChunkSize,   \* CHUNK_SIZE, 32K in the code
  Strong(_),   \* the strong checksum (MD5 or SHA-256)
  Digest       \* the values of the strong checksum

ASSUME ByteAssumption == Byte \subseteq Nat
ASSUME BlockSizeAssumption == BlockSize \in Nat \ {0}
ASSUME ChunkSizeAssumption == ChunkSize \in Nat \ {0}

\* Every string the strong checksum is ever taken of.
BlockStrings == UNION {[1 .. n -> Byte] : n \in 0 .. BlockSize}

\* Delta transfer trusts the strong checksum to tell blocks apart.
ASSUME StrongAssumption ==
  /\ \A x \in BlockStrings : Strong(x) \in Digest
  /\ \A x, y \in BlockStrings : Strong(x) = Strong(y) => x = y

Slice(f, lo, hi) == SubSeq(f, lo + 1, hi)
Least(a, b) == IF a <= b THEN a ELSE b
Most(a, b) == IF a >= b THEN a ELSE b

-----------------------------------------------------------------------------
(* Signatures *)

NumBlocks(f) == (Len(f) + BlockSize - 1) \div BlockSize
BlockEnd(f, i) == Least(i * BlockSize + BlockSize, Len(f))
Block(f, i) == Slice(f, i * BlockSize, BlockEnd(f, i))

BlockSum(f, i) ==
  [index  |-> i,
   sum1   |-> Checksum1(Block(f, i)),
   sum2   |-> Strong(Block(f, i)),
   length |-> BlockEnd(f, i) - i * BlockSize]

BlockSums == [index : Nat, sum1 : Nat, sum2 : Digest, length : Nat]

\* GenerateSignature of a file in memory.
Signature(f) == [k \in 1 .. NumBlocks(f) |-> BlockSum(f, k - 1)]

-----------------------------------------------------------------------------
(* Instructions *)

Literal(d, o) == [isLiteral |-> TRUE, data |-> d, blockIdx |-> 0, offset |-> o]
Match(i, o) == [isLiteral |-> FALSE, data |-> << >>, blockIdx |-> i, offset |-> o]

Instruction ==
  [isLiteral : BOOLEAN, data : Seq(Byte), blockIdx : Nat, offset : Nat]

\* What an instruction contributes to the rebuilt file, given the basis.
Apply(basis, inst) ==
  IF inst.isLiteral THEN inst.data ELSE Block(basis, inst.blockIdx)

EndOf(basis, inst) == inst.offset + Len(Apply(basis, inst))

\* d, found at offset o, as literals of at most ChunkSize bytes.
Chunks(d, o) ==
  [k \in 1 .. (Len(d) + ChunkSize - 1) \div ChunkSize |->
     LET lo == (k - 1) * ChunkSize
     IN  Literal(Slice(d, lo, Least(lo + ChunkSize, Len(d))), o + lo)]

\* The instructions follow each other without gap or overlap from offset lo
\* to offset hi, and each contributes the bytes of data at its offset.
Covers(basis, data, insts, lo, hi) ==
  /\ insts = << >> => lo = hi
  /\ insts # << >> => /\ insts[1].offset = lo
                      /\ EndOf(basis, insts[Len(insts)]) = hi
  /\ \A i \in 1 .. Len(insts) - 1 :
        insts[i + 1].offset = EndOf(basis, insts[i])
  /\ \A i \in 1 .. Len(insts) :
        /\ EndOf(basis, insts[i]) <= Len(data)
        /\ Apply(basis, insts[i]) =
             Slice(data, insts[i].offset, EndOf(basis, insts[i]))

\* The receiver rebuilds data[0:hi] from the instructions.
Rebuilds(basis, data, insts, hi) == Covers(basis, data, insts, 0, hi)
=============================================================================
