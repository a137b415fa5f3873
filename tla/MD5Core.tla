-------------------------------- MODULE MD5Core --------------------------------
(***************************************************************************)
(* The vector cores of MD5 (md5x8core, md5x16core, md5x4core), as the      *)
(* generators in hashsimd/gen_md5x8, gen_md5x16 and gen_md5x4 emit them:   *)
(* 64 steps without a loop, in which the four registers of the state keep  *)
(* their place and change their roles, each word of the message is loaded  *)
(* a step ahead, and the round functions are made of what the instruction  *)
(* set has.                                                                *)
(*                                                                         *)
(* Every instruction works on all lanes alike, so that one lane is enough, *)
(* whichever it is.  One step of the specification is one of the 64 steps; *)
(* before the first the words are transposed into lanes.                   *)
(***************************************************************************)
EXTENDS MD5Words, Transposition

CONSTANT MaxFolded  \* bound: chunks in a block

ASSUME MaxFoldedAssumption == MaxFolded \in Nat

VARIABLES
  unit,    \* whose core it is: "AVX2", "AVX512" or "NEON"
  own,     \* the lane of the block
  block,   \* history: the words of the block's chunk
  words,   \* x, in memory, of this lane
  kept,    \* state, in memory
  reg,     \* Y0 to Y3, Z0 to Z3 or V0 to V3
  saved,   \* Y4 to Y7, Z4 to Z7 or V4 to V7
  ahead,   \* Y13, Z9 or V13: X[g] of the next step
  turn,    \* the next step, or 65 outside the core
  folded   \* chunks folded in

coreVars == << unit, own, block, words, kept, reg, saved, ahead, turn, folded >>

Units == {"AVX2", "AVX512", "NEON"}
Outside == 65

LanesOf(u) == CASE u = "AVX2" -> 8 [] u = "AVX512" -> 16 [] u = "NEON" -> 4

\* A chunk of each block, for the widest unit; the others look at their part of it.
Buffer == [0 .. 15 -> Message]

CoreInit ==
  /\ unit = "AVX2" /\ own = 0
  /\ block = NoMessage /\ words = NoMessage
  /\ kept = NoState /\ reg = NoState /\ saved = NoState
  /\ ahead = {} /\ turn = Outside /\ folded = 0

\* The wrapper of unit u begins a block in state s.
BeginBlock(u, n, s) ==
  /\ turn = Outside
  /\ unit' = u /\ own' = n /\ kept' = s /\ folded' = 0
  /\ UNCHANGED << block, words, reg, saved, ahead, turn >>

\* Only the AVX2 wrapper has two ways to load x.
Loaded(u, buf) ==
  IF u = "AVX2" THEN {WordByWord(buf), TransposeFast(buf)} ELSE {WordByWord(buf)}

\* The core is entered: the state is loaded and saved, and the first word.
Enter(buf) ==
  /\ turn = Outside /\ folded < MaxFolded
  /\ block' = buf[own]
  /\ \E x \in Loaded(unit, buf) : words' = [i \in 0 .. 15 |-> x[i][own]]
  /\ reg' = kept /\ saved' = kept
  /\ ahead' = words'[WordOf(0)]
  /\ turn' = 0
  /\ UNCHANGED << unit, own, kept, folded >>

-----------------------------------------------------------------------------
(* The round functions of b, c and d *)

\* AVX2: VPAND, VPANDN (whose operands Go swaps), VPOR, VPXOR and all ones.
AndNot(v, w) == v \ w

FWithAVX2(i, b, c, d) ==
  IF i < 16 THEN (b \cap c) \cup AndNot(d, b)
  ELSE IF i < 32 THEN (b \cap d) \cup AndNot(c, d)
  ELSE IF i < 48 THEN Xor(d, Xor(b, c))
  ELSE Xor(c, Xor(Bits, AndNot(d, b)))

Bit(p, w) == IF p \in w THEN 1 ELSE 0

\* Mutant: the operands in the order of Intel's manual.
TernaryAsInIntel(imm, b, c, d) ==
  {p \in Bits : 4 * Bit(p, d) + 2 * Bit(p, b) + Bit(p, c) \in imm}

\* AVX-512: VPTERNLOGD looks each bit up in the immediate, the set of its bits.
Ternary(imm, b, c, d) ==
  {p \in Bits : 4 * Bit(p, d) + 2 * Bit(p, c) + Bit(p, b) \in imm}

\* $0xD8, $0xAC and $0x63
FWithAVX512(i, b, c, d) ==
  IF i < 16 THEN Ternary({3, 4, 6, 7}, b, c, d)
  ELSE IF i < 32 THEN Ternary({2, 3, 5, 7}, b, c, d)
  ELSE IF i < 48 THEN Xor(d, Xor(c, b))
  ELSE Ternary({0, 1, 5, 6}, b, c, d)

\* NEON: VAND, VBIC, VORR, VEOR and VORN.
FWithNEON(i, b, c, d) ==
  IF i < 16 THEN (b \cap c) \cup (d \cap Not(b))
  ELSE IF i < 32 THEN (b \cap d) \cup (c \cap Not(d))
  ELSE IF i < 48 THEN Xor(d, Xor(b, c))
  ELSE Xor(c, b \cup Not(d))

FOf(u, i, b, c, d) ==
  CASE u = "AVX2"   -> FWithAVX2(i, b, c, d)
    [] u = "AVX512" -> FWithAVX512(i, b, c, d)
    [] u = "NEON"   -> FWithNEON(i, b, c, d)

-----------------------------------------------------------------------------
(* The 64 steps *)

\* perm[i%4]: the register that has role r, 0 for a to 3 for d, in step i.
RegisterOf(r, i) == (r + 4 - (i % 4)) % 4

Role(r) == reg[RegisterOf(r, turn)]

\* Two shifts and an OR; VPROLD is RotateLeft itself.
ShiftLeft(w, s) == {q \in Bits : q - s \in w}
ShiftRight(w, s) == {q \in Bits : q + s \in w}

Rotated(u, w, s) ==
  IF u = "AVX512" THEN RotateLeft(w, s)
  ELSE ShiftLeft(w, s) \cup ShiftRight(w, Width - s)

\* The last step loads nothing.
LoadedAhead(i) == IF i < 63 THEN words[WordOf(i + 1)] ELSE ahead

CoreTurn ==
  /\ turn < 64
  /\ LET f   == FOf(unit, turn, Role(1), Role(2), Role(3))
         sum == Plus(Plus(Role(0), ahead), T[turn])
     IN  reg' = [reg EXCEPT ![RegisterOf(0, turn)] =
                   Plus(Role(1), Rotated(unit, Plus(f, sum), Shift(turn)))]
  /\ ahead' = LoadedAhead(turn)
  /\ turn' = turn + 1
  /\ UNCHANGED << unit, own, block, words, kept, saved, folded >>

\* The roles are where they began: the saved state is added and the sum stored.
Leave ==
  /\ turn = 64
  /\ reg' = [r \in 0 .. 3 |-> Plus(reg[r], saved[r])]
  /\ kept' = reg'
  /\ turn' = Outside /\ folded' = folded + 1
  /\ UNCHANGED << unit, own, block, words, saved, ahead >>

CoreStep == CoreTurn \/ Leave

CoreNext ==
  \/ \E u \in Units, s \in State : \E n \in 0 .. LanesOf(u) - 1 : BeginBlock(u, n, s)
  \/ \E buf \in Buffer : Enter(buf)
  \/ CoreStep

CoreSpec == CoreInit /\ [][CoreNext]_coreVars

-----------------------------------------------------------------------------
(* Properties *)

\* A lane of each core does with the words of its own block what the scalar
\* rounds do, step by step, whichever way the words got into the lane and wherever
\* the registers' roles have got to (gen_md5x16: "Do NOT use Intel-manual imm8
\* values"): a digest does not depend on the machine.
InRole(r) == IF turn = Outside THEN kept[r] ELSE Role(r)

Rounds == INSTANCE MD5Rounds WITH
  x <- block, a <- InRole(0), b <- InRole(1), c <- InRole(2), d <- InRole(3),
  start <- saved, step <- turn

CoreFollowsRounds == Rounds!RoundsSpec
=============================================================================
