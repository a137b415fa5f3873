---------------------------- MODULE SignatureReader ----------------------------
(***************************************************************************)
(* GenerateSignatureReader (signature.go): the file is read block by block *)
(* into a batch buffer, as many blocks as the machine hashes at once (16,  *)
(* 8 or 4 with MD5 and vector instructions, else one), and a batch is      *)
(* hashed by the vector code only if all its blocks are full.              *)
(*                                                                         *)
(* One step is one io.ReadFull or the hashing of one batch.  The buffer is *)
(* reused and keeps the bytes of the batch before.  GenerateSignature is   *)
(* this with a reader that gives exactly the announced bytes and never     *)
(* fails; it drops the error.  SignatureParallel has the calls themselves. *)
(***************************************************************************)
EXTENDS Blocks, FiniteSets

CONSTANTS
  Files,         \* what a reader has to give
  FileSizes(_),  \* the sizes a caller may announce for it
  Widths,        \* blocks hashed at once, as the machine and the algorithm allow
  ReadFails,     \* whether a read may fail
  MaxCalls       \* bound: calls, each with a buffer of its own

ASSUME SignatureAssumption ==
  /\ Files \subseteq Seq(Byte) /\ Widths \subseteq Nat \ {0}
  /\ \A f \in Files : FileSizes(f) \subseteq Nat
  /\ ReadFails \in BOOLEAN /\ MaxCalls \in Nat

VARIABLES
  pc,        \* "idle", "read", "hash" or "returned" (SignatureParallel has two more)
  calls,     \* calls made so far
  file,      \* what the reader has to give
  fails,     \* whether the reader of this call may fail
  fileSize,  \* fileSize, as the caller announces it
  width,     \* batchSize of the path taken
  base,      \* base: the first block of the batch
  filled,    \* b of the loop that fills the batch
  total,     \* total: bytes in the batch
  batchBuf,  \* batchBuf, stale bytes included
  sums,      \* BlockSums, Blank until computed
  outcome    \* "none", "nil", "eof" (EOF or ErrUnexpectedEOF), "io" or "unknown";
             \* "neither" for a nil signature with a nil error

callVars == << calls, file, fails, fileSize, width >>
readerVars == << pc, callVars, base, filled, total, batchBuf, sums, outcome >>

\* A BlockSum that was never written; its Sum2 is nil.
Blank == [index |-> 0, sum1 |-> 0, sum2 |-> -1, length |-> 0]

Count == (fileSize + BlockSize - 1) \div BlockSize
AtRest == pc \in {"idle", "returned"}

ReaderInit ==
  /\ pc = "idle" /\ calls = 0
  /\ file = << >> /\ fails = FALSE /\ fileSize = 0 /\ width = 1
  /\ base = 0 /\ filled = 0 /\ total = 0 /\ batchBuf = << >>
  /\ sums = << >> /\ outcome = "none"

\* An algorithm that is not registered: a nil signature.
NoSignature(f, size, err) ==
  /\ file' = f /\ fileSize' = size /\ sums' = << >>
  /\ pc' = "returned" /\ outcome' = err
  /\ UNCHANGED << fails, width, base, filled, total, batchBuf >>

GenerateSignatureReader(f, mayFail, size, w) ==
  /\ file' = f /\ fails' = mayFail /\ fileSize' = size /\ width' = w
  /\ base' = 0 /\ filled' = 0 /\ total' = 0
  /\ batchBuf' = [i \in 1 .. w * BlockSize |-> 0]
  /\ sums' = [k \in 1 .. (size + BlockSize - 1) \div BlockSize |-> Blank]
  /\ pc' = "read" /\ outcome' = "none"

GenerateSignature(f, w) == GenerateSignatureReader(f, FALSE, Len(f), w)

-----------------------------------------------------------------------------
BatchCount == Least(width, Count - base)

\* The bytes of block i of the announced size.
BlockBytes(i) == Least(fileSize - i * BlockSize, BlockSize)

\* Everything read so far: full blocks before the batch, then the batch.
Fed == base * BlockSize + total

\* io.ReadFull of so many bytes.
FullReads(want) ==
  LET n == Least(want, Most(Len(file) - Fed, 0))
  IN  {[n |-> n, err |-> IF n < want THEN "eof" ELSE "nil"]}
      \cup {[n |-> k, err |-> "io"] : k \in {m \in 0 .. n : fails /\ m < want}}

Stored(n) ==
  [i \in DOMAIN batchBuf |->
     IF i \in total + 1 .. total + n THEN file[Fed + i - total] ELSE batchBuf[i]]

Failed(r) == r.err # "nil"

ReadBlock ==
  /\ pc = "read" /\ base < Count /\ filled < BatchCount
  /\ \E r \in FullReads(BlockBytes(base + filled)) :
       /\ batchBuf' = Stored(r.n)
       /\ IF Failed(r)
          THEN /\ pc' = "returned" /\ outcome' = r.err
               /\ UNCHANGED << total, filled >>
          ELSE /\ total' = total + BlockBytes(base + filled) /\ filled' = filled + 1
               /\ UNCHANGED << pc, outcome >>
  /\ UNCHANGED << callVars, base, sums >>

Filled ==
  /\ pc = "read" /\ base < Count /\ filled = BatchCount
  /\ pc' = "hash"
  /\ UNCHANGED << callVars, base, filled, total, batchBuf, sums, outcome >>

SumOf(idx, block, len) ==
  [index |-> idx, sum1 |-> Checksum1(block), sum2 |-> Strong(block), length |-> len]

\* Mutant: the number of blocks alone decides.
ByCount == BatchCount = width

\* All blocks are full, and there are as many as the vector code takes.
AllFull == BatchCount = width /\ total = width * BlockSize

\* The vector code hashes the blocks where full blocks would lie.
VectorSum(b) ==
  SumOf(base + b, Slice(batchBuf, b * BlockSize, (b + 1) * BlockSize), BlockBytes(base + b))

\* The scalar code walks over blocks of their own lengths.
ScalarSum(b) ==
  SumOf(base + b,
        Slice(batchBuf, b * BlockSize, b * BlockSize + BlockBytes(base + b)),
        BlockBytes(base + b))

HashBatch ==
  /\ pc = "hash"
  /\ sums' = [k \in DOMAIN sums |->
                IF k - 1 \notin base .. base + BatchCount - 1 THEN sums[k]
                ELSE IF AllFull THEN VectorSum(k - 1 - base) ELSE ScalarSum(k - 1 - base)]
  /\ base' = base + BatchCount /\ filled' = 0 /\ total' = 0
  /\ pc' = "read"
  /\ UNCHANGED << callVars, batchBuf, outcome >>

AllHashed ==
  /\ pc = "read" /\ base >= Count
  /\ pc' = "returned" /\ outcome' = "nil"
  /\ UNCHANGED << callVars, base, filled, total, batchBuf, sums >>

ReaderStep == ReadBlock \/ Filled \/ HashBatch \/ AllHashed

-----------------------------------------------------------------------------
(* Properties *)

\* The bytes the signature is to be of, as far as the reader has them.
Announced == Slice(file, 0, Least(fileSize, Len(file)))

\* The signature that comes along with a reader's error holds true sums for
\* the blocks of the batches hashed and blanks for all others, as it does while
\* it is made: no sum is ever taken of bytes that were not read.
PartialTrue ==
  pc \in {"read", "hash"} \/ outcome \in {"eof", "io"} =>
    \A k \in DOMAIN sums :
      sums[k] = IF k <= base THEN BlockSum(Announced, k - 1) ELSE Blank
=============================================================================
