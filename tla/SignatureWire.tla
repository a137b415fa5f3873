----------------------------- MODULE SignatureWire -----------------------------
(***************************************************************************)
(* A signature on its way: WireEncodeSignature writes it to a pipe, and    *)
(* WireDecodeSignature reads it on the other side, while it is written or  *)
(* after.  The connection may break at any cell, and it carries on with    *)
(* the next message behind the signature.                                  *)
(*                                                                         *)
(* One step is one w.Write or one io.ReadFull with what is done to its     *)
(* bytes.  A reader waits for bytes as long as the writer has not ended.   *)
(* Session composes these steps with the answer on the other connection.   *)
(***************************************************************************)
EXTENDS Wire

CONSTANTS
  MaxWireBlocks,  \* maxWireBlocks, 100 million in the code
  MaxSum2         \* the longest digest accepted, 64 bytes in the code

ASSUME SignatureWireAssumption == MaxWireBlocks \in Nat /\ MaxSum2 \in Nat

VARIABLES
  sig,         \* the signature that is encoded
  sigWrites, \* the calls of w.Write still to be made
  sigWriter, \* "writing", "done" or "failed"
  sigWire,   \* what has been written
  sigPos,    \* cells read
  sigPc,     \* "header", "fixed", "sum2", "tail", "returned"; "used" in Session
  got,         \* the signature under construction
  sigCount,  \* count
  block,       \* bs, the block under construction
  sum2Len,     \* sum2Len
  sigOutcome   \* "none", "nil", "invalid" or "read"

sigWriterVars == << sig, sigWrites, sigWriter, sigWire >>
sigReaderVars == << sigPos, sigPc, got, sigCount, block, sum2Len, sigOutcome >>
sigVars == << sigWriterVars, sigReaderVars >>

NoBlock == [index |-> 0, sum1 |-> 0, sum2 |-> << >>, offset |-> 0, length |-> 0]

SignatureInit(s) ==
  /\ sig = s
  /\ sigWrites = SignatureWrites(s) \o << Following >>
  /\ sigWriter = "writing" /\ sigWire = << >>
  /\ sigPos = 0 /\ sigPc = "header" /\ sigCount = 0 /\ block = NoBlock /\ sum2Len = 0
  /\ got = [blockSize |-> 0, fileSize |-> 0, sums |-> << >>] /\ sigOutcome = "none"

-----------------------------------------------------------------------------
(* The writer *)

WriteSignature ==
  /\ sigWriter = "writing" /\ sigWrites # << >>
  /\ sigWire' = sigWire \o Head(sigWrites)
  /\ sigWrites' = Tail(sigWrites)
  /\ sigWriter' = IF Len(sigWrites) = 1 THEN "done" ELSE "writing"
  /\ UNCHANGED << sig, sigReaderVars >>

\* A write that fails may have written a part.
WriteSignatureFails ==
  /\ sigWriter = "writing" /\ sigWrites # << >>
  /\ \E n \in 0 .. Len(Head(sigWrites)) - 1 : sigWire' = sigWire \o Slice(Head(sigWrites), 0, n)
  /\ sigWriter' = "failed"
  /\ UNCHANGED << sig, sigWrites, sigReaderVars >>

-----------------------------------------------------------------------------
(* The reader *)

\* io.ReadFull of n cells.
SigArrived(n) == sigPos + n <= Len(sigWire)
SigCutOff(n) == ~ SigArrived(n) /\ sigWriter # "writing"
SigCell(k) == sigWire[sigPos + k]

SigFail(err) ==
  /\ sigPc' = "returned" /\ sigOutcome' = err
  /\ UNCHANGED << got, sigCount, block, sum2Len >>

\* An error of the reader, wherever it occurs, gives no signature.
SigReadFails ==
  /\ \/ sigPc = "header" /\ SigCutOff(3)
     \/ sigPc = "fixed" /\ SigCutOff(3)
     \/ sigPc = "sum2" /\ SigCutOff(sum2Len)
     \/ sigPc = "tail" /\ SigCutOff(2)
  /\ SigFail("read")
  /\ UNCHANGED << sigWriterVars, sigPos >>

\* Mutant: a file of one-byte blocks has one block too many.
AtLeastFile(blockSize, fileSize, n) ==
  blockSize <= 0 \/ n >= fileSize \/ n > MaxWireBlocks

Implausible(blockSize, fileSize, n) ==
  blockSize <= 0 \/ n > fileSize \/ n > MaxWireBlocks

NextBlock(i, n) == IF i < n THEN "fixed" ELSE "returned"
OutcomeAfter(i, n) == IF i < n THEN "none" ELSE "nil"

ReadSigHeader ==
  /\ sigPc = "header" /\ SigArrived(3)
  /\ sigPos' = sigPos + 3
  /\ IF Implausible(SigCell(1), SigCell(2), SigCell(3)) THEN SigFail("invalid")
     ELSE /\ got' = [blockSize |-> SigCell(1), fileSize |-> SigCell(2), sums |-> << >>]
          /\ sigCount' = SigCell(3)
          /\ sigPc' = NextBlock(0, SigCell(3)) /\ sigOutcome' = OutcomeAfter(0, SigCell(3))
          /\ UNCHANGED << block, sum2Len >>
  /\ UNCHANGED sigWriterVars

ReadBlockFixed ==
  /\ sigPc = "fixed" /\ SigArrived(3)
  /\ sigPos' = sigPos + 3
  /\ IF SigCell(3) > MaxSum2 THEN SigFail("invalid")
     ELSE /\ block' = [NoBlock EXCEPT !.index = SigCell(1), !.sum1 = SigCell(2)]
          /\ sum2Len' = SigCell(3)
          /\ sigPc' = "sum2"
          /\ UNCHANGED << got, sigCount, sigOutcome >>
  /\ UNCHANGED sigWriterVars

ReadBlockSum2 ==
  /\ sigPc = "sum2" /\ SigArrived(sum2Len)
  /\ sigPos' = sigPos + sum2Len
  /\ block' = [block EXCEPT !.sum2 = Slice(sigWire, sigPos, sigPos + sum2Len)]
  /\ sigPc' = "tail"
  /\ UNCHANGED << sigWriterVars, got, sigCount, sum2Len, sigOutcome >>

ReadBlockTail ==
  /\ sigPc = "tail" /\ SigArrived(2)
  /\ sigPos' = sigPos + 2
  /\ LET bs == [block EXCEPT !.offset = SigCell(1), !.length = SigCell(2)]
         i == Len(got.sums) + 1
     IN  /\ got' = [got EXCEPT !.sums = Append(@, bs)]
         /\ sigPc' = NextBlock(i, sigCount) /\ sigOutcome' = OutcomeAfter(i, sigCount)
  /\ UNCHANGED << sigWriterVars, sigCount, block, sum2Len >>

SignatureReads == SigReadFails \/ ReadSigHeader \/ ReadBlockFixed \/ ReadBlockSum2 \/ ReadBlockTail

-----------------------------------------------------------------------------
(* Properties *)

SignatureLength == Len(FlattenSeq(SignatureWrites(sig)))

\* A signature that is accepted is the one that was encoded, wherever the
\* connection broke, and not a byte of the next message is taken with it.
AcceptedIsSent ==
  sigPc = "returned" /\ sigOutcome = "nil" => got = sig /\ sigPos = SignatureLength

\* The plausibility checks of the decoder reject no signature the generators
\* make, down to the empty file, except by the two documented caps.
RejectsOnlyOversized ==
  sigOutcome = "invalid" =>
    \/ Len(sig.sums) > MaxWireBlocks
    \/ \E k \in DOMAIN sig.sums : Len(sig.sums[k].sum2) > MaxSum2
=============================================================================
