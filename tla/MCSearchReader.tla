--------------------------- MODULE MCSearchReader ---------------------------
(***************************************************************************)
(* Instances of SearchReader for TLC, with the strong checksum of          *)
(* MCMatchEngine.  A block of three bytes is the least in which a match    *)
(* can end so close to the end of the source that the scan never looks at  *)
(* its buffer again.  With ChunkSize 1 the buffer holds 7 bytes, its exact *)
(* need, and a source of 8 bytes makes it slide; with ChunkSize 2 it holds *)
(* 8, the floor of four chunks.                                            *)
(***************************************************************************)
EXTENDS SearchReader

MCStrong(w) == FoldLeft(LAMBDA acc, b : 7 * acc + b + 1, 0, w)
MCDigest == 0 .. 7 ^ 4
Powers == {2 ^ e : e \in 0 .. 6}

ReaderBases == { <<0, 1, 1, 4, 0>>, <<0, 1, 4, 4, 0, 1, 1, 4>>, <<1, 1, 1, 1, 1, 1>> }

\* Sources equal to a basis, shifted, with repeated and colliding windows,
\* without a match, shorter than a block, and with a match just before a
\* tail of less than a block.
FewSources ==
  { << >>, <<1, 4>>, <<0, 1, 1, 4, 0>>, <<0, 1, 4, 4, 0, 1, 1, 4>>,
    <<4, 4, 0, 1, 1, 4, 0>>, <<1, 0, 1, 1, 0, 1, 4, 4, 0, 4>>, <<4, 4, 4, 4, 4, 4, 4>> }
ManySources ==
  FewSources \cup ReaderBases \cup UNION {[1 .. n -> {0, 1}] : n \in 3 .. 7}
             \cup {<<a>> \o d \o <<b, 0>> : a, b \in Byte, d \in ReaderBases}

Exact(d) == {Len(d)}

\* A source that ends early or has more than was announced; never one that
\* ends between one block and two, which the run "truncated" is about.
Uneven(d) == {n \in 0 .. 10 : Len(d) < BlockSize \/ Len(d) >= 2 * BlockSize \/ n <= Len(d)}

\* Sources of the batch searches in between.
OtherSources == { <<1, 4>>, <<0, 1, 1, 4, 0>>, <<4, 4, 0, 1, 1, 4, 0>> }

\* Sources that end before two blocks were read.
EarlySources == { <<1, 4, 0>>, <<1, 4, 0, 0, 1>>, <<0, 4, 4>> }
UpToEight(d) == 0 .. 8
=============================================================================
