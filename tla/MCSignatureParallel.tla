-------------------------- MODULE MCSignatureParallel --------------------------
(***************************************************************************)
(* An instance of SignatureParallel for TLC: blocks of two bytes, files    *)
(* that end inside a batch, at its end and inside its last block, and up   *)
(* to seven blocks for up to five workers, so that the last ranges are     *)
(* short or empty.                                                         *)
(***************************************************************************)
EXTENDS SignatureParallel, SequencesExt

MCStrong(x) == FoldLeft(LAMBDA acc, b : 3 * acc + b + 1, 0, x)
MCDigest == 0 .. 3 ^ 4

\* A file of each length, its bytes as different as they can be.
Bytes(n) == [i \in 1 .. n |-> IF i % 3 = 0 THEN 1 ELSE i % 2]
SomeFiles == {Bytes(n) : n \in 0 .. 13} \cup {<<1, 1, 1, 0, 0, 1, 1>>, <<0, 0, 0>>}

Near(f) == {n \in Len(f) - 2 .. Len(f) + 3 : n >= 0}
=============================================================================
