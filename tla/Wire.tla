--------------------------------- MODULE Wire ---------------------------------
(***************************************************************************)
(* The wire format (wire.go): what each encoder hands to w.Write, call by  *)
(* call.  A wire is a sequence of cells; an integer field is one cell,     *)
(* whatever its bytes, and so is a byte of data or of a digest.  A reader  *)
(* that is cut off inside a field fails as one that is cut off before it.  *)
(***************************************************************************)
EXTENDS Blocks, SequencesExt

CONSTANTS
  Word,      \* values of a uint32 field, 2^32 in the code
  Octet,     \* values of a byte field, 256 in the code
  Following  \* the cells of the message behind the one that is read

ASSUME WireAssumption ==
  Word \in Nat \ {0} /\ Octet \in Nat \ {0} /\ Following \in Seq(Nat)

Uint32(n) == n % Word
Uint8(n) == n % Octet

\* Mutant: the buffer of a block is made one byte too large.
PaddedCells(bs) ==
  << Uint32(bs.index), bs.sum1, Uint8(Len(bs.sum2)) >> \o bs.sum2
    \o << bs.offset, Uint32(bs.length), 0 >>

\* index, sum1, the length of sum2, sum2, offset (64 bits) and length.
BlockCells(bs) ==
  << Uint32(bs.index), bs.sum1, Uint8(Len(bs.sum2)) >> \o bs.sum2
    \o << bs.offset, Uint32(bs.length) >>

\* WireEncodeSignature: the header, then one call for each block.
SignatureWrites(sig) ==
  << << Uint32(sig.blockSize), sig.fileSize, Uint32(Len(sig.sums)) >> >>
    \o [k \in DOMAIN sig.sums |-> BlockCells(sig.sums[k])]

InstructionWrites(inst) ==
  IF inst.isLiteral THEN << << 0, Uint32(Len(inst.data)) >>, inst.data >>
  ELSE << << 1, Uint32(inst.blockIdx) >> >>

\* WireEncodeInstructions: the count, then one or two calls for each.
InstructionsWrites(insts) ==
  << << Uint32(Len(insts)) >> >>
    \o FlattenSeq([k \in DOMAIN insts |-> InstructionWrites(insts[k])])

\* The batches of a streaming sender and the count of 0 that ends them.
BatchesWrites(batches) ==
  FlattenSeq([k \in DOMAIN batches |-> InstructionsWrites(batches[k])]) \o << << 0 >> >>
=============================================================================
