--------------------------- MODULE MCWindowedSearch ---------------------------
(***************************************************************************)
(* An instance of WindowedSearch for TLC.  Bytes are 0 and 1: what counts  *)
(* is which windows equal which blocks, and every pair of phases occurs.   *)
(* With blocks of two bytes and two workers five bytes make two segments.  *)
(***************************************************************************)
EXTENDS WindowedSearch

MCStrong(w) == FoldLeft(LAMBDA acc, b : 3 * acc + b + 1, 0, w)
MCDigest == 0 .. 3 ^ 4

\* Every table that leads to all blocks, and one that has lost the first.
AllOrBut(f) == {0 .. NumBlocks(f) - 1, (0 .. NumBlocks(f) - 1) \ {0}}

\* Blocks of two bytes, with a short last one.
SomeBases == { <<0, 1, 1, 1, 0, 0, 1>>, <<1, 1, 0, 0, 0, 0, 1, 1, 1>> }

\* The bases, the second one in another phase, and a source too short to be
\* split.
SomeSources ==
  SomeBases \cup { <<1>>, <<0, 1, 1, 0, 0, 0, 0, 1, 1>> }

\* A reader that ends early, as announced, or goes on.
Uneven(d) == {Len(d) \div 2, Len(d), Len(d) + 1}
=============================================================================
