------------------------------ MODULE BlockSums ------------------------------
(***************************************************************************)
(* A full batch of GenerateSignature (signature.go): the strong digests of *)
(* all its blocks at once, by LaneHash, then the weak checksum of each, by *)
(* BatchedSum.  The two are also called by themselves: Checksum1 wherever  *)
(* a window starts afresh, MD5Hash8way and its like on blocks of any       *)
(* lengths, as hashsimd's own tests do.                                    *)
(***************************************************************************)
EXTENDS BatchedSum, LaneHash

CONSTANTS
  Inputs,    \* data of the direct calls of Checksum1
  HashCalls  \* arguments of the calls of MD5Hash8way and its like

ASSUME CallsAssumption ==
  /\ Inputs \subseteq Seq(0 .. MaxByte)
  /\ HashCalls \subseteq HashArguments
  /\ \A c \in HashCalls :
       /\ c.data \in Seq(0 .. MaxByte)
       /\ \A b \in Lanes : c.offsets[b] + c.lengths[b] <= Len(c.data)

VARIABLE sums  \* Sum1 of the blocks done

allVars == << vars, hashVars, sums >>

BlockSumsInit == Init /\ HashInit /\ sums = << >>

Untouched == pc = "idle" /\ phase = "idle"

\* Checksum1(data)
AskSum ==
  /\ Untouched
  /\ \E d \in Inputs : Call(d)
  /\ UNCHANGED << hashVars, sums >>

\* MD5Hash8way(batchBuf, off8, len8, &out8)
AskHash ==
  /\ Untouched
  /\ \E c \in HashCalls : CallHash(c)
  /\ UNCHANGED << vars, sums >>

\* The batch buffer: blocks of one size, one after another.
IsBatch ==
  \A b \in Lanes : /\ call.lengths[b] = call.lengths[1] /\ call.lengths[b] > 0
                   /\ call.offsets[b] = (b - 1) * call.lengths[1]

\* batchBuf[b*blockSize : (b+1)*blockSize]
BlockOf(b) ==
  LET size == call.lengths[1]
  IN  SubSeq(call.data, (b - 1) * size + 1, b * size)

SumBlock ==
  /\ phase = "hashed" /\ IsBatch /\ pc = "idle"
  /\ Len(sums) < Cardinality(Lanes)
  /\ Call(BlockOf(Len(sums) + 1))
  /\ UNCHANGED << hashVars, sums >>

\* Sum1: Checksum1(...)
KeepSum ==
  /\ phase = "hashed" /\ pc = "returned"
  /\ sums' = Append(sums, Packed)
  /\ pc' = "idle"
  /\ UNCHANGED << data, kernel, acc, i, s1, s2, hashVars >>

Done ==
  /\ \/ phase = "idle" /\ pc = "returned"
     \/ phase = "hashed" /\ pc = "idle" /\ (IsBatch => Len(sums) = Cardinality(Lanes))
  /\ UNCHANGED allVars

BlockSumsNext ==
  \/ AskSum \/ AskHash
  \/ Sums /\ UNCHANGED << hashVars, sums >>
  \/ Hash /\ UNCHANGED << vars, sums >>
  \/ SumBlock \/ KeepSum
  \/ Done

BlockSumsSpec == BlockSumsInit /\ [][BlockSumsNext]_allVars

-----------------------------------------------------------------------------
(* Properties *)

\* Whatever the lengths of the blocks, and whichever way the vector unit
\* finishes their tails, every lane gives the digest its block has by itself, and
\* the weak checksum kept beside it is of the same bytes: a signature is the same
\* with and without the vector unit.  (Left out are blocks with LengthCut.)
DigestsAgree ==
  phase = "hashed" =>
    \A b \in Lanes :
      LET block == BytesOf(b, 0, call.lengths[b])
      IN  /\ LengthCut(b) \/ out[b] = MD5(block)
          /\ b <= Len(sums) => sums[b] = Checksum1(block)
=============================================================================
