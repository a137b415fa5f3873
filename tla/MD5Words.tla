------------------------------- MODULE MD5Words -------------------------------
(***************************************************************************)
(* The 32-bit words of MD5, and the schedule of its 64 steps: which word   *)
(* of the message a step takes, and how far it rotates (hashsimd).         *)
(*                                                                         *)
(* A word is the set of the positions of its 1 bits, so that the bitwise   *)
(* operators are those of sets.  Addition modulo 2^32 is a parameter: that *)
(* the order of the summands does not matter is all that is used of it.    *)
(***************************************************************************)
EXTENDS Integers

CONSTANTS
  Width,      \* bits in a word, 32 in the code
  Plus(_, _), \* addition of words
  T,          \* the constant of each step
  Shifts      \* the four rotations of each round

Bits == 0 .. Width - 1
MD5Word == SUBSET Bits
Steps == 0 .. 63

ASSUME WidthAssumption == Width \in Nat /\ Width > 1
ASSUME PlusAssumption ==
  \A u, v, w \in MD5Word :
    /\ Plus(u, v) \in MD5Word
    /\ Plus(u, v) = Plus(v, u)
    /\ Plus(u, Plus(v, w)) = Plus(Plus(u, v), w)
ASSUME TableAssumption ==
  T \in [Steps -> MD5Word] /\ Shifts \in [0 .. 3 -> [0 .. 3 -> 1 .. Width - 1]]

\* ^w and v ^ w
Not(w) == Bits \ w
Xor(v, w) == (v \ w) \cup (w \ v)

\* bits.RotateLeft32
RotateLeft(w, s) == {(p + s) % Width : p \in w}

\* A chunk is 16 words; the state is a, b, c and d.
Message == [0 .. 15 -> MD5Word]
State == [0 .. 3 -> MD5Word]
NoMessage == [j \in 0 .. 15 |-> {}]
NoState == [r \in 0 .. 3 |-> {}]

\* shifts
Shift(i) == Shifts[i \div 16][i % 4]

\* g
WordOf(i) ==
  CASE i < 16             -> i
    [] i >= 16 /\ i < 32  -> (5 * i + 1) % 16
    [] i >= 32 /\ i < 48  -> (3 * i + 5) % 16
    [] i >= 48            -> (7 * i) % 16
=============================================================================
