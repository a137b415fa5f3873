----------------------------- MODULE RollingSum -----------------------------
(***************************************************************************)
(* The weak checksum of rolling.go and rolling_generic.go.                 *)
(*                                                                         *)
(* A window is summarised by two residues: s1, the sum of its bytes, each  *)
(* shifted by CHAR_OFFSET, and s2, the sum of the running values of s1.    *)
(* The code adds in uint32 and masks with 0xFFFF; as Mod = 2^16 divides    *)
(* 2^32, reducing the exact sums modulo Mod gives the same residues.  The  *)
(* checks use a small Mod so that different windows collide.               *)
(***************************************************************************)
EXTENDS Integers, Sequences

CONSTANTS
  Mod,         \* 2^16 in the code: s1 and s2 are masked with 0xFFFF
  CharOffset   \* CHAR_OFFSET, 31 in the code

ASSUME ModAssumption == Mod \in Nat \ {0}
ASSUME CharOffsetAssumption == CharOffset \in Nat

Residue == 0 .. Mod - 1
RollingState == [s1 : Residue, s2 : Residue]

\* One turn of the loop of checksum1.
Extend(sum, byte) ==
  LET s1 == sum.s1 + byte + CharOffset
  IN  [s1 |-> s1, s2 |-> sum.s2 + s1]

\* The exact sums after each prefix of the window w.
PartialSums(w) ==
  LET sums[i \in 0 .. Len(w)] ==
        IF i = 0 THEN [s1 |-> 0, s2 |-> 0] ELSE Extend(sums[i - 1], w[i])
  IN  sums

Reset(w) ==
  LET total == PartialSums(w)[Len(w)]
  IN  [s1 |-> total.s1 % Mod, s2 |-> total.s2 % Mod]

\* Mutants: s2 from the s1 before the roll; the masks left out.
RollStale(rs, old, new, blockLen) ==
  [s1 |-> (rs.s1 + new - old) % Mod,
   s2 |-> (rs.s2 + rs.s1 - blockLen * (old + CharOffset)) % Mod]
RollUnmasked(rs, old, new, blockLen) ==
  [s1 |-> rs.s1 + new - old,
   s2 |-> rs.s2 + rs.s1 + new - old - blockLen * (old + CharOffset)]

\* Slide a window of blockLen bytes by one: old leaves it, new enters.
Roll(rs, old, new, blockLen) ==
  LET s1 == (rs.s1 + (new + CharOffset) - (old + CharOffset)) % Mod
  IN  [s1 |-> s1,
       s2 |-> (rs.s2 + s1 - blockLen * (old + CharOffset)) % Mod]

\* s1 | s2 << 16
Value(rs) == rs.s1 + rs.s2 * Mod

Checksum1(w) == Value(Reset(w))
=============================================================================
