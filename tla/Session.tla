-------------------------------- MODULE Session --------------------------------
(***************************************************************************)
(* A transfer from end to end (api.go).  The receiver signs its basis and  *)
(* sends the signature on one connection; the sender decodes it, searches  *)
(* the new file for the blocks it describes and sends the instructions on  *)
(* another; the receiver rebuilds the new file from its basis.             *)
(*                                                                         *)
(* SignatureWire has the steps on the first connection and Receiver those  *)
(* on the second.  What the sender finds is SearchResult, ParallelResult   *)
(* or, for a SearchReader that reads all of its source, SearchResult but   *)
(* for sources below one block: what those searches are shown to compute.  *)
(* (One that leaves bytes unread is a run of SearchReader.)                *)
(***************************************************************************)
EXTENDS SignatureWire, Receiver, SearchResults

CONSTANTS
  Bases,       \* the receiver's files
  Inputs,      \* the new files
  Holds(_),    \* for a basis, what the receiver has of it when it rebuilds
  DigestCells, \* cells of a digest
  Workers,     \* worker counts for SearchParallel
  MaxBatches   \* bound: batches of one transfer

ASSUME SessionAssumption ==
  /\ Bases \subseteq Seq(Byte) /\ Inputs \subseteq Seq(Byte)
  /\ DigestCells \subseteq Nat \ {0} /\ Workers \subseteq Nat \ {0}
  /\ MaxBatches \in Nat

vars == << sigVars, receiverVars >>

\* The signature of f as WireEncodeSignature is given it; a digest is its
\* value and zeros, n cells together.
WireSignature(f, n) ==
  [blockSize |-> BlockSize, fileSize |-> Len(f),
   sums |-> [k \in 1 .. NumBlocks(f) |->
     LET bs == BlockSum(f, k - 1)
     IN  [index |-> bs.index, sum1 |-> bs.sum1,
          sum2 |-> << bs.sum2 >> \o [c \in 1 .. n - 1 |-> 0],
          offset |-> (k - 1) * BlockSize, length |-> bs.length]]]

Init ==
  /\ \E f \in Bases, n \in DigestCells : SignatureInit(WireSignature(f, n))
  /\ ReceiverInit

\* What the sender finds in d: by SearchReader, by Search or SearchParallel.
Deltas(f, d) ==
  LET known == 0 .. NumBlocks(f) - 1
  IN  {IF d # << >> /\ Len(d) < BlockSize THEN << Literal(d, 0) >>
       ELSE SearchResult(f, known, d)}
      \cup {ParallelResult(f, known, d, n) : n \in Workers}

\* Where l instructions are cut into n batches, none of them empty.
Cuts(n, l) ==
  {c \in [0 .. n -> 0 .. l] : c[0] = 0 /\ c[n] = l /\ \A j \in 1 .. n : c[j - 1] < c[j]}

\* The instructions as they are sent: as one message, or in batches.
Batchings(mode, delta) ==
  IF mode # "all" THEN {<< delta >>}
  ELSE UNION {{[j \in 1 .. n |-> SubSeq(delta, c[j - 1] + 1, c[j])] : c \in Cuts(n, Len(delta))}
              : n \in 0 .. MaxBatches}

\* Block counts, lengths and the counts of a batch are below 2^32, and the
\* lengths of digests below 256.
ASSUME FieldsAssumption ==
  /\ BlockSize < Word /\ ChunkSize < Word
  /\ \A n \in DigestCells : n < Octet
  /\ \A f \in Bases : NumBlocks(f) < Word
  /\ \A f \in Bases, d \in Inputs : \A delta \in Deltas(f, d) : Len(delta) < Word

\* The sender has decoded a signature, which is one of f, and answers it.  The
\* first connection is of no more interest.
Answer ==
  /\ pc = "signature" /\ sigPc = "returned" /\ sigOutcome = "nil"
  /\ \E f \in Bases, n \in DigestCells, d \in Inputs, mode \in {"stream", "all", "list"} :
       /\ got = WireSignature(f, n)
       /\ \E h \in Holds(f), delta \in Deltas(f, d) : \E b \in Batchings(mode, delta) :
            Begin([mode |-> mode, batches |-> b, source |-> d,
                   basis |-> f, held |-> h.held, blockLens |-> h.lens])
  /\ sigPc' = "used" /\ sigPos' = 0 /\ sigWrites' = << >> /\ sigWire' = << >>
  /\ sigWriter' = "done"
  /\ UNCHANGED << sig, got, sigCount, block, sum2Len, sigOutcome >>

\* The signature was not accepted, and no answer comes.
NoAnswer ==
  /\ pc = "signature" /\ sigPc = "returned" /\ sigOutcome # "nil"
  /\ Return("signature")
  /\ UNCHANGED << sigVars, senderVars, decoderVars, output >>

Rest == pc = "returned" /\ UNCHANGED vars

Next ==
  \/ (WriteSignature \/ WriteSignatureFails \/ SignatureReads) /\ UNCHANGED receiverVars
  \/ Answer
  \/ NoAnswer
  \/ (Write \/ WriteFails \/ Decoding \/ Rebuilding) /\ UNCHANGED sigVars
  \/ Rest

Spec == Init /\ [][Next]_vars

-----------------------------------------------------------------------------
(* What a transfer relies on *)

\* The receiver holds f as it was signed, or with bytes behind it where it
\* knows the lengths of the blocks: a block of f then is what it was.
StillHeld(f, h) ==
  \/ h.held = f /\ h.lens = << >>
  \/ /\ h.held \in Seq(Byte) /\ IsPrefix(f, h.held)
     /\ h.lens = [k \in 1 .. NumBlocks(f) |-> Len(Block(f, k - 1))]

BasisHeld == \A f \in Bases : \A h \in Holds(f) : StillHeld(f, h)
=============================================================================
