------------------------------ MODULE Primitives ------------------------------
(***************************************************************************)
(* What signatures are made of, each by itself: the checksums of blocks    *)
(* (BlockSums), the vector cores of MD5 (MD5Core) and the size of the      *)
(* blocks (BlockSizes).  They share nothing; a behaviour is one of each.   *)
(***************************************************************************)
EXTENDS BlockSums, MD5Core, BlockSizes

CONSTANTS
  Seeds,    \* states a block may begin in
  Buffers   \* chunks of the blocks of all lanes

ASSUME PrimitivesAssumption == Seeds \subseteq State /\ Buffers \subseteq Buffer

primitiveVars == << allVars, coreVars, sizeVars >>

PrimitivesInit == BlockSumsInit /\ CoreInit /\ SizesInit

CoreUntouched == turn = Outside /\ kept = NoState
SizesUntouched == fileSize = 0

Primitive ==
  \/ /\ BlockSumsNext
     /\ CoreUntouched /\ SizesUntouched
     /\ UNCHANGED << coreVars, sizeVars >>
  \/ /\ \/ \E u \in Units, s \in Seeds : \E n \in 0 .. LanesOf(u) - 1 :
              CoreUntouched /\ BeginBlock(u, n, s)
        \/ \E buf \in Buffers : Enter(buf)
        \/ CoreStep
     /\ Untouched /\ SizesUntouched
     /\ UNCHANGED << allVars, sizeVars >>
  \/ /\ Grow
     /\ Untouched /\ CoreUntouched
     /\ UNCHANGED << allVars, coreVars >>

\* A block is folded in, or the file has reached its bound.
PrimitivesDone ==
  /\ (turn = Outside /\ folded = MaxFolded) \/ fileSize = MaxFile
  /\ UNCHANGED primitiveVars

PrimitivesNext == Primitive \/ PrimitivesDone

PrimitivesSpec == PrimitivesInit /\ [][PrimitivesNext]_primitiveVars
=============================================================================
