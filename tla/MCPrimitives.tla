---------------------------- MODULE MCPrimitives ----------------------------
(***************************************************************************)
(* An instance of Primitives for TLC.                                      *)
(*                                                                         *)
(* Checksums: batches of two groups of two bytes; lanes of 6 bits, words   *)
(* of 8; bytes up to 2, which is to a lane what 255 is to 16 bits: the     *)
(* largest weighted pair, 2 * (8 + 7), just stays below the limit of a     *)
(* signed lane.  Data of up to 19 bytes, so that every loop and every rest *)
(* occurs.                                                                 *)
(*                                                                         *)
(* Digests: two lanes, chunks of four bytes, blocks of up to three chunks  *)
(* and lengths whose bits overflow a half from 8 bytes on.                 *)
(*                                                                         *)
(* Cores: words of four bits, all 64 steps, every lane, two chunks each.   *)
(*                                                                         *)
(* Block sizes: 3 to 12 bytes, a quarter of the file in between, an int32  *)
(* of 6 bits, and files of up to 140 bytes, where 96 are the most that the *)
(* decoder can be sent.                                                    *)
(***************************************************************************)
EXTENDS Primitives

\* Bytes that repeat with every period, all bytes at their largest, and one byte
\* among zeros.
SomeInputs ==
  {[k \in 1 .. n |-> (k * m) % q] : n \in 0 .. 19, m \in 1 .. 2, q \in 2 .. 3}
  \cup {[k \in 1 .. n |-> 2] : n \in 0 .. 19}
  \cup {[k \in 1 .. n |-> IF k = at THEN 2 ELSE 0] : n \in 15 .. 18, at \in 1 .. 18}

Shaped(lanes, group) == [lanes |-> lanes, group |-> group]

AVX2 ==
  [least |-> 8, unit |-> 8, block |-> 8, plain |-> Shaped(2, 2), weighted |-> Shaped(2, 2),
   width |-> Mod, limit |-> (Mod \div 2) - 1, takesRest |-> TRUE]
AVX512 == [AVX2 EXCEPT !.plain = Shaped(4, 2), !.weighted = Shaped(4, 2)]
SSE2 ==
  [least |-> 4, unit |-> 4, block |-> 4, plain |-> Shaped(1, 2), weighted |-> Shaped(1, 2),
   width |-> Mod, limit |-> (Mod \div 2) - 1, takesRest |-> FALSE]
\* NEON takes two blocks to a unit and weighs at full width, with or without UDOT.
NEON ==
  [least |-> 8, unit |-> 8, block |-> 4, plain |-> Shaped(1, 2), weighted |-> Shaped(2, 1),
   width |-> Word, limit |-> Word, takesRest |-> FALSE]

AllKernels == {AVX2, AVX512, SSE2, NEON}

SomeData == << 0, 0, 1, 0, 2, 1, 1, 2, 2, 0, 1, 2, 0, 0, 2, 1, 0, 1, 1, 0, 2, 2 >>

\* Blocks one after another, or over one another.
SomeCalls ==
  {[data |-> SomeData, offsets |-> << o, IF apart THEN o + m ELSE 1 >>,
    lengths |-> << m, n >>, inStep |-> s] :
     o \in 0 .. 1, apart \in BOOLEAN, m \in 0 .. 11, n \in 0 .. 10, s \in BOOLEAN}

\* The number a word stands for, and back.
NumberOf == [w \in SUBSET (0 .. 3) |-> MapThenSumSet(LAMBDA p : 2 ^ p, w)]
WordsByNumber == [n \in 0 .. 15 |-> CHOOSE w \in SUBSET (0 .. 3) : NumberOf[w] = n]
RippleCarry(u, v) == WordsByNumber[(NumberOf[u] + NumberOf[v]) % 16]

SomeTable == [k \in 0 .. 63 |-> WordsByNumber[(11 * k + (k \div 16) + 3) % 16]]
SomeShifts == [r \in 0 .. 3 |-> [k \in 0 .. 3 |-> 1 + ((r + k) % 3)]]
\* Each word tells its place in the block, or tells its lane.
SomeBuffers ==
  {[n \in 0 .. 15 |-> [j \in 0 .. 15 |-> WordsByNumber[(p * j + q * n) % 16]]] :
     << p, q >> \in {<< 1, 0 >>, << 3, 1 >>}}
SomeSeeds == {[r \in 0 .. 3 |-> WordsByNumber[(m * r + 6) % 16]] : m \in {0, 5}}
=============================================================================
