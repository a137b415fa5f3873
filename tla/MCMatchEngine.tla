--------------------------- MODULE MCMatchEngine ---------------------------
(***************************************************************************)
(* Instances of MatchEngine for TLC.  With bytes 0, 1 and 4, CHAR_OFFSET   *)
(* 31 and sums modulo 4, the blocks <<0, 4>> and <<4, 0>> and even <<0, 0>>*)
(* share a weak checksum; the strong one is the base-7 value of the block. *)
(***************************************************************************)
EXTENDS MatchEngine, SequencesExt

MCStrong(w) == FoldLeft(LAMBDA acc, b : 7 * acc + b + 1, 0, w)
MCDigest == 0 .. 7 ^ 3
Powers == {2 ^ e : e \in 0 .. 6}

Words(n) == UNION {[1 .. k -> Byte] : k \in 0 .. n}

\* Blocks that differ, that repeat, that collide in the weak sum, and a
\* shorter last block.
CoreBases == { << >>, <<0>>, <<0, 1>>, <<0, 1, 1, 4, 0>>,
               <<0, 0, 4, 0, 0, 4>>, <<1, 1, 1, 1, 1>> }
AllInputs == Words(5)
=============================================================================
