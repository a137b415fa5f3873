------------------------------- MODULE MCSession -------------------------------
(***************************************************************************)
(* Instances of Session for TLC.  With blocks of four bytes and chunks of  *)
(* two a source of three bytes, and a reference that two workers cut, are  *)
(* sent as one literal longer than a chunk.                                *)
(***************************************************************************)
EXTENDS Session

MCStrong(x) == FoldLeft(LAMBDA acc, b : 3 * acc + b + 1, 0, x)
MCDigest == 0 .. 3 ^ 5

\* No block, a full block and a short one, and one block too many for the wire.
Signed == <<0, 1, 1, 0, 1, 1>>
SomeBases == { << >>, Signed, Signed \o <<0, 0, 0>> }

\* Below one block; the basis; blocks repeated, with literals of one to three
\* bytes before and between them; a block across the cut between two workers.
SomeSources ==
  { << >>, <<1, 1, 0>>, Signed, <<1>> \o Signed,
    <<0, 1, 1, 0, 0, 0, 0, 1, 1, 0, 1, 1>>, <<1, 0, 0, 0, 1, 0, 1, 1, 0, 1, 1>> }

Lens(f) == [k \in 1 .. NumBlocks(f) |-> Len(Block(f, k - 1))]

\* The basis as it was signed, without and with its block lengths, or with
\* bytes appended since.
AsSigned(f) == { [held |-> f, lens |-> << >>], [held |-> f \o <<0, 0>>, lens |-> Lens(f)] }

ASSUME SignedIsHeld == \A f \in SomeBases : \A h \in AsSigned(f) : StillHeld(f, h)

\* The basis has lost its last block since it was signed.
LastLost(f) ==
  { [held |-> Slice(f, 0, BlockSize * Most(NumBlocks(f) - 1, 0)), lens |-> << >>] }

NextMessage == <<2, 1>>
=============================================================================
