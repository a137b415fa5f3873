---------------------------- MODULE BlocksProofs ----------------------------
(***************************************************************************)
(* The weak checksum, facts about blocks, chunks and instructions, and     *)
(* that what Search and SearchParallel compute rebuilds the source, for    *)
(* every modulus, block size, chunk size and set of bytes.                 *)
(*                                                                         *)
(* The sums of a window, the scan and the joining of lists are defined by  *)
(* recursion.  Induction is done by the least element of a set of          *)
(* counterexamples.                                                        *)
(***************************************************************************)
EXTENDS SearchResults, FiniteSetTheorems, SequenceTheorems, WellFoundedInduction, TLAPS

-----------------------------------------------------------------------------
(* Induction *)

\* Every nonempty set of naturals has a least element.
LEMMA LeastElement ==
  ASSUME NEW S, S \subseteq Nat, S # {}
  PROVE  \E m \in S : \A n \in S : m <= n
<1> DEFINE R == {p \in Nat \X Nat : p[1] < p[2]}
<1>1. IsWellFoundedOn(R, Nat)
  BY NatLessThanWellFounded, Zenon DEF OpToRel
<1>2. PICK m \in S : \A n \in S : ~(<< n, m >> \in R)
  <2> HIDE DEF R
  <2> QED BY <1>1, WFMin, Zenon
<1>3. ASSUME NEW n \in S
      PROVE  m <= n
  <2>1. << n, m >> \notin R
    BY <1>2
  <2>2. n \in Nat /\ m \in Nat
    OBVIOUS
  <2> QED BY <2>1, <2>2
<1> QED BY <1>3

\* A set of naturals below N that holds 0 and, with i, i + 1 holds them all.
LEMMA Induction ==
  ASSUME NEW N \in Nat, NEW P,
         0 \in P, \A i \in 0 .. N - 1 : i \in P => i + 1 \in P
  PROVE  0 .. N \subseteq P
<1> DEFINE Bad == {i \in 0 .. N : i \notin P}
<1> SUFFICES ASSUME Bad # {} PROVE FALSE
  OBVIOUS
<1>1. PICK m \in Bad : \A n \in Bad : m <= n
  <2>1. Bad \subseteq Nat
    OBVIOUS
  <2> HIDE DEF Bad
  <2> QED BY <2>1, LeastElement
<1>2. m \in 1 .. N
  OBVIOUS
<1>3. m - 1 \in P
  BY <1>1, <1>2
<1> QED BY <1>2, <1>3

-----------------------------------------------------------------------------
(* The weak checksum *)

ExactSum == [s1 : Int, s2 : Int]
ZeroSum == [s1 |-> 0, s2 |-> 0]

\* g holds the sums of the first m bytes of w.
IsSums(w, m, g) ==
  /\ g \in [0 .. m -> ExactSum]
  /\ g[0] = ZeroSum
  /\ \A i \in 1 .. m : g[i] = Extend(g[i - 1], w[i])

LEMMA ExtendType ==
  ASSUME NEW sum \in ExactSum, NEW byte \in Nat
  PROVE  Extend(sum, byte) \in ExactSum
BY CharOffsetAssumption DEF Extend, ExactSum

\* Sums that differ by old and k differ by old and k + old a byte later.
LEMMA ExtendDifference ==
  ASSUME NEW f \in ExactSum, NEW g \in ExactSum, NEW byte \in Nat,
         NEW old \in Int, NEW k \in Int,
         g.s1 = f.s1 - old, g.s2 = f.s2 - k
  PROVE  /\ Extend(g, byte).s1 = Extend(f, byte).s1 - old
         /\ Extend(g, byte).s2 = Extend(f, byte).s2 - (k + old)
<1>1. f.s1 \in Int /\ f.s2 \in Int
  BY DEF ExactSum
<1>2. /\ Extend(g, byte).s1 = g.s1 + byte + CharOffset
      /\ Extend(g, byte).s2 = g.s2 + (g.s1 + byte + CharOffset)
      /\ Extend(f, byte).s1 = f.s1 + byte + CharOffset
      /\ Extend(f, byte).s2 = f.s2 + (f.s1 + byte + CharOffset)
  BY DEF Extend
<1> QED BY <1>1, <1>2, CharOffsetAssumption

LEMMA SumsExist ==
  ASSUME NEW w \in Seq(Nat)
  PROVE  \E g : IsSums(w, Len(w), g)
<1> DEFINE P == {m \in 0 .. Len(w) : \E g : IsSums(w, m, g)}
<1>0. Len(w) \in Nat
  BY LenProperties
<1>1. 0 \in P
  <2>1. IsSums(w, 0, [i \in 0 .. 0 |-> ZeroSum])
    BY DEF IsSums, ZeroSum, ExactSum
  <2> QED BY <1>0, <2>1
<1>2. ASSUME NEW m \in 0 .. Len(w) - 1, m \in P
      PROVE  m + 1 \in P
  <2>1. PICK g : IsSums(w, m, g)
    BY <1>2
  <2> DEFINE h == [i \in 0 .. m + 1 |->
                     IF i <= m THEN g[i] ELSE Extend(g[m], w[m + 1])]
  <2>2. w[m + 1] \in Nat
    BY <1>0, ElementOfSeq
  <2>3. g[m] \in ExactSum
    BY <2>1 DEF IsSums
  <2>4. Extend(g[m], w[m + 1]) \in ExactSum
    BY <2>2, <2>3, ExtendType
  <2>5. h \in [0 .. m + 1 -> ExactSum]
    BY <2>1, <2>4 DEF IsSums
  <2>6. h[0] = ZeroSum
    BY <2>1 DEF IsSums
  <2>7. ASSUME NEW i \in 1 .. m + 1
        PROVE  h[i] = Extend(h[i - 1], w[i])
    <3>1. CASE i <= m
      BY <3>1, <2>1 DEF IsSums
    <3>2. CASE i = m + 1
      BY <3>2
    <3> QED BY <3>1, <3>2
  <2> HIDE DEF h
  <2>8. IsSums(w, m + 1, h)
    BY <2>5, <2>6, <2>7 DEF IsSums
  <2> QED BY <2>8, <1>0
<1> HIDE DEF P
<1>3. 0 .. Len(w) \subseteq P
  BY <1>0, <1>1, <1>2, Induction
<1> QED BY <1>3, <1>0 DEF P

\* The recursive definition is met: PartialSums(w) holds the sums of w.
LEMMA PartialSumsCorrect ==
  ASSUME NEW w \in Seq(Nat)
  PROVE  IsSums(w, Len(w), PartialSums(w))
<1> DEFINE Body(f) == [i \in 0 .. Len(w) |->
                         IF i = 0 THEN [s1 |-> 0, s2 |-> 0] ELSE Extend(f[i - 1], w[i])]
           f == PartialSums(w)
<1>0. Len(w) \in Nat
  BY LenProperties
<1>1. PICK g : IsSums(w, Len(w), g)
  BY SumsExist
<1>2. g = Body(g)
  <2>1. g = [i \in 0 .. Len(w) |-> g[i]]
    BY <1>1 DEF IsSums
  <2>2. \A i \in 0 .. Len(w) : g[i] = Body(g)[i]
    BY <1>0, <1>1 DEF IsSums, ZeroSum
  <2> QED BY <2>1, <2>2
<1>3. f = CHOOSE h : h = Body(h)
  BY DEF PartialSums
<1>4. f = Body(f)
  <2> HIDE DEF Body, f
  <2> QED BY <1>2, <1>3
<1> HIDE DEF f
<1>5. f[0] = ZeroSum
  BY <1>0, <1>4 DEF ZeroSum
<1>6. ASSUME NEW i \in 1 .. Len(w)
      PROVE  f[i] = Extend(f[i - 1], w[i])
  <2>1. i \in 0 .. Len(w) /\ i # 0
    BY <1>0
  <2>2. Body(f)[i] = Extend(f[i - 1], w[i])
    BY <2>1
  <2> HIDE DEF Body
  <2> QED BY <1>4, <2>2
<1> DEFINE P == {i \in 0 .. Len(w) : f[i] \in ExactSum}
<1>7. 0 \in P
  BY <1>0, <1>5 DEF ZeroSum, ExactSum
<1>8. ASSUME NEW i \in 0 .. Len(w) - 1, i \in P
      PROVE  i + 1 \in P
  <2>1. f[i + 1] = Extend(f[i], w[i + 1]) /\ w[i + 1] \in Nat /\ f[i] \in ExactSum
    BY <1>0, <1>6, <1>8, ElementOfSeq
  <2> QED BY <1>0, <2>1, ExtendType
<1>9. 0 .. Len(w) \subseteq P
  <2> HIDE DEF P
  <2> QED BY <1>0, <1>7, <1>8, Induction
<1>10. f \in [0 .. Len(w) -> ExactSum]
  BY <1>9, <1>4
<1>11. IsSums(w, Len(w), f)
  BY <1>5, <1>6, <1>10 DEF IsSums
<1> QED BY <1>11 DEF f

-----------------------------------------------------------------------------
(* Residues *)

LEMMA ModType ==
  ASSUME NEW a \in Int, NEW m \in Nat \ {0}
  PROVE  a % m \in 0 .. m - 1
OBVIOUS

LEMMA ModUnique ==
  ASSUME NEW m \in Nat \ {0}, NEW q \in Int, NEW r \in 0 .. m - 1
  PROVE  ((q * m) + r) % m = r
OBVIOUS

\* Reducing a term before the sum is reduced changes nothing.
LEMMA ModAdd ==
  ASSUME NEW a \in Int, NEW b \in Int, NEW m \in Nat \ {0}
  PROVE  ((a % m) + b) % m = (a + b) % m
<1> DEFINE x == (a % m) + b
           y == a + b
           q == a \div m
<1>1. y = (q * m) + x /\ q \in Int /\ x \in Int
  OBVIOUS
<1>2. x = ((x \div m) * m) + (x % m) /\ x \div m \in Int /\ (x % m) \in 0 .. m - 1
  BY <1>1
<1>3. y = ((q + (x \div m)) * m) + (x % m)
  <2> HIDE DEF x, y, q
  <2>1. (q + (x \div m)) * m = (q * m) + ((x \div m) * m)
    BY <1>1, <1>2
  <2> QED BY <1>1, <1>2, <2>1
<1>4. (y % m) = (x % m)
  <2> DEFINE t == q + (x \div m)
             r == (x % m)
  <2>1. t \in Int /\ r \in 0 .. m - 1 /\ y = (t * m) + r
    BY <1>1, <1>2, <1>3
  <2> HIDE DEF t, r
  <2>2. (y % m) = r
    BY <2>1, ModUnique
  <2> QED BY <2>2 DEF r
<1> QED BY <1>4

LEMMA ModAddTwo ==
  ASSUME NEW a \in Int, NEW b \in Int, NEW c \in Int, NEW m \in Nat \ {0}
  PROVE  ((a % m) + (b % m) - c) % m = (a + b - c) % m
<1> DEFINE x == (b % m) - c
           y == a - c
<1>1. (a % m) \in Int /\ (b % m) \in Int
  BY ModType
<1>2. x \in Int /\ y \in Int
  BY <1>1
<1>3. (a % m) + (b % m) - c = (a % m) + x /\ a + x = (b % m) + y /\ b + y = a + b - c
  BY <1>1
<1> HIDE DEF x, y
<1>4. ((a % m) + x) % m = (a + x) % m
  BY <1>2, ModAdd
<1>5. ((b % m) + y) % m = (b + y) % m
  BY <1>2, ModAdd
<1> QED BY <1>3, <1>4, <1>5

-----------------------------------------------------------------------------
(* Reset and Roll *)

LEMMA ResetType ==
  ASSUME NEW w \in Seq(Nat)
  PROVE  /\ Reset(w) \in RollingState
         /\ PartialSums(w)[Len(w)] \in ExactSum
<1>1. PartialSums(w)[Len(w)] \in ExactSum
  BY PartialSumsCorrect, LenProperties DEF IsSums
<1> QED BY <1>1, ModType, ModAssumption DEF Reset, RollingState, Residue, ExactSum

LEMMA RollType ==
  ASSUME NEW rs \in RollingState, NEW old \in Nat, NEW new \in Nat, NEW n \in Nat
  PROVE  Roll(rs, old, new, n) \in RollingState
<1>1. rs.s1 \in Int /\ rs.s2 \in Int
  BY ModAssumption DEF RollingState, Residue
<1> DEFINE s1 == (rs.s1 + (new + CharOffset) - (old + CharOffset)) % Mod
<1>2. s1 \in 0 .. Mod - 1
  <2>1. rs.s1 + (new + CharOffset) - (old + CharOffset) \in Int
    BY <1>1, CharOffsetAssumption
  <2> QED BY <2>1, ModType, ModAssumption
<1>3. (rs.s2 + s1 - n * (old + CharOffset)) % Mod \in 0 .. Mod - 1
  <2>1. n * (old + CharOffset) \in Int
    BY CharOffsetAssumption
  <2>2. rs.s2 + s1 - n * (old + CharOffset) \in Int
    <3> HIDE DEF s1
    <3> QED BY <1>1, <1>2, <2>1
  <2> HIDE DEF s1
  <2> QED BY <2>2, ModType, ModAssumption
<1> HIDE DEF s1
<1> QED BY <1>2, <1>3 DEF Roll, RollingState, Residue, s1

LEMMA ValueType ==
  ASSUME NEW rs \in RollingState
  PROVE  Value(rs) \in Nat
BY ModAssumption DEF Value, RollingState, Residue

\* The exact sums of the window w after its first byte left and new entered.
LEMMA SlidingSums ==
  ASSUME NEW w \in Seq(Nat), w # << >>, NEW new \in Nat
  PROVE  LET n    == Len(w)
             v    == Append(Tail(w), new)
             from == PartialSums(w)[n]
             to   == PartialSums(v)[n]
             old  == w[1] + CharOffset
         IN  /\ Len(v) = n /\ v \in Seq(Nat)
             /\ to.s1 = from.s1 + (new + CharOffset) - old
             /\ to.s2 = from.s2 + to.s1 - n * old
<1> DEFINE n == Len(w)
           v == Append(Tail(w), new)
           f == PartialSums(w)
           g == PartialSums(v)
           old == w[1] + CharOffset
<1>1. n \in Nat /\ n >= 1
  BY LenProperties, EmptySeq
<1>2. /\ v \in Seq(Nat) /\ Len(v) = n /\ v[n] = new
      /\ \A i \in 1 .. n - 1 : v[i] = w[i + 1]
  BY <1>1
<1>3. IsSums(w, n, f) /\ IsSums(v, n, g)
  <2> HIDE DEF v
  <2> QED BY <1>2, PartialSumsCorrect
<1>4. old \in Nat /\ \A i \in 1 .. n : w[i] \in Nat
  BY <1>1, CharOffsetAssumption, ElementOfSeq
<1> HIDE DEF n, v, f, g
<1> DEFINE P == {i \in 0 .. n - 1 : /\ g[i].s1 = f[i + 1].s1 - old
                                    /\ g[i].s2 = f[i + 1].s2 - (i + 1) * old}
<1>5. 0 \in P
  <2>1. f[1] = Extend(f[0], w[1]) /\ f[0] = ZeroSum /\ g[0] = ZeroSum
    BY <1>1, <1>3 DEF IsSums
  <2>2. f[1].s1 = old /\ f[1].s2 = old /\ g[0].s1 = 0 /\ g[0].s2 = 0
    BY <2>1, <1>4, <1>1, CharOffsetAssumption DEF Extend, ZeroSum
  <2> HIDE DEF old
  <2> QED BY <2>2, <1>1, <1>4
<1>6. ASSUME NEW i \in 0 .. n - 2, i \in P
      PROVE  i + 1 \in P
  <2>1. /\ g[i + 1] = Extend(g[i], v[i + 1]) /\ v[i + 1] = w[i + 2]
        /\ f[i + 2] = Extend(f[i + 1], w[i + 2])
        /\ g[i] \in ExactSum /\ f[i + 1] \in ExactSum /\ w[i + 2] \in Nat
    BY <1>1, <1>2, <1>3, <1>4 DEF IsSums
  <2>2. /\ g[i].s1 = f[i + 1].s1 - old
        /\ g[i].s2 = f[i + 1].s2 - (i + 1) * old
    BY <1>6
  <2>3. (i + 1) * old \in Int /\ (i + 1) * old + old = (i + 2) * old
    <3>1. i + 1 \in Int /\ old \in Int /\ i \in Int
      BY <1>1, <1>4
    <3> HIDE DEF old
    <3> QED BY <3>1
  <2> DEFINE k == (i + 1) * old
             F == f[i + 1]
             G == g[i]
             byte == w[i + 2]
  <2>5. /\ F \in ExactSum /\ G \in ExactSum /\ byte \in Nat /\ k \in Int /\ old \in Int
        /\ G.s1 = F.s1 - old /\ G.s2 = F.s2 - k
    BY <2>1, <2>2, <2>3, <1>4
  <2> HIDE DEF old, k, F, G, byte, P
  <2>6. /\ Extend(G, byte).s1 = Extend(F, byte).s1 - old
        /\ Extend(G, byte).s2 = Extend(F, byte).s2 - (k + old)
    BY <2>5, ExtendDifference
  <2>4. /\ g[i + 1].s1 = f[i + 2].s1 - old
        /\ g[i + 1].s2 = f[i + 2].s2 - ((i + 1) * old + old)
    BY <2>1, <2>6 DEF k, F, G, byte
  <2> QED BY <2>3, <2>4, <1>1 DEF P
<1>7. n - 1 \in P
  <2>1. 0 .. n - 1 \subseteq P
    <3>1. n - 1 \in Nat /\ (n - 1) - 1 = n - 2
      BY <1>1
    <3> HIDE DEF P
    <3> QED BY <1>5, <1>6, <3>1, Induction
  <2> HIDE DEF P
  <2> QED BY <2>1, <1>1
<1>8. /\ g[n] = Extend(g[n - 1], new) /\ g[n - 1] \in ExactSum /\ f[n] \in ExactSum
      /\ g[n - 1].s1 = f[n].s1 - old /\ g[n - 1].s2 = f[n].s2 - n * old
  BY <1>1, <1>2, <1>3, <1>7 DEF IsSums
<1>9. n * old \in Int
  BY <1>1, <1>4
<1>10. /\ g[n].s1 = f[n].s1 + (new + CharOffset) - old
       /\ g[n].s2 = f[n].s2 + g[n].s1 - n * old
  <2>1. g[n].s1 = g[n - 1].s1 + new + CharOffset /\ g[n].s2 = g[n - 1].s2 + g[n].s1
    BY <1>8 DEF Extend
  <2>2. /\ g[n - 1].s1 \in Int /\ g[n - 1].s2 \in Int
        /\ f[n].s1 \in Int /\ f[n].s2 \in Int
    BY <1>8 DEF ExactSum
  <2> DEFINE k == n * old
  <2>3. k \in Int /\ g[n - 1].s1 = f[n].s1 - old /\ g[n - 1].s2 = f[n].s2 - k
    BY <1>8, <1>9
  <2> HIDE DEF old, k, P
  <2>4. g[n].s1 = f[n].s1 + (new + CharOffset) - old /\ g[n].s1 \in Int
    <3> DEFINE a == f[n].s1
               b == g[n - 1].s1
               c == g[n].s1
    <3>1. /\ a \in Int /\ b \in Int /\ old \in Int /\ CharOffset \in Int
          /\ c = b + new + CharOffset /\ b = a - old
      BY <2>1, <2>2, <2>3, <1>4, CharOffsetAssumption
    <3> HIDE DEF a, b, c
    <3>2. c = a + (new + CharOffset) - old /\ c \in Int
      BY <3>1
    <3> QED BY <3>2 DEF a, c
  <2>5. g[n].s2 = f[n].s2 + g[n].s1 - k
    BY <2>1, <2>2, <2>3, <2>4, SMTT(60)
  <2> QED BY <2>4, <2>5 DEF k
<1> QED BY <1>2, <1>10 DEF n, v, f, g

\* Rolling an up-to-date sum by a byte gives the sum of the next window.
THEOREM RollIsReset ==
  ASSUME NEW w \in Seq(Nat), w # << >>, NEW new \in Nat
  PROVE  Roll(Reset(w), w[1], new, Len(w)) = Reset(Append(Tail(w), new))
<1> DEFINE n == Len(w)
           v == Append(Tail(w), new)
           from == PartialSums(w)[n]
           to == PartialSums(v)[n]
           old == w[1] + CharOffset
           in == new + CharOffset
<1>1. /\ Len(v) = n /\ v \in Seq(Nat)
      /\ to.s1 = from.s1 + in - old
      /\ to.s2 = from.s2 + to.s1 - n * old
  BY SlidingSums
<1>2. from \in ExactSum /\ to \in ExactSum
  <2> HIDE DEF v
  <2> QED BY <1>1, ResetType
<1>3. n \in Nat /\ old \in Nat /\ in \in Nat
  BY LenProperties, EmptySeq, ElementOfSeq, CharOffsetAssumption
<1>4. n * old \in Int
  BY <1>3
<1>5. Reset(w) = [s1 |-> (from.s1 % Mod), s2 |-> (from.s2 % Mod)]
  BY DEF Reset
<1>6. Reset(v) = [s1 |-> (to.s1 % Mod), s2 |-> (to.s2 % Mod)]
  <2> HIDE DEF v
  <2> QED BY <1>1 DEF Reset
<1> HIDE DEF from, to, old, in, v, n
<1> DEFINE s1 == ((from.s1 % Mod) + in - old) % Mod
<1>7. s1 = (to.s1 % Mod)
  <2>1. from.s1 \in Int /\ in - old \in Int
    BY <1>2, <1>3 DEF ExactSum
  <2>2. ((from.s1 % Mod) + (in - old)) % Mod = (from.s1 + (in - old)) % Mod
    BY <2>1, ModAdd, ModAssumption
  <2>3. (from.s1 % Mod) + in - old = (from.s1 % Mod) + (in - old)
    BY <2>1, <1>3, ModType, ModAssumption
  <2>4. from.s1 + in - old = from.s1 + (in - old)
    BY <2>1, <1>3
  <2> QED BY <2>2, <2>3, <2>4, <1>1
<1>8. ((from.s2 % Mod) + s1 - n * old) % Mod = (to.s2 % Mod)
  <2>1. from.s2 \in Int /\ to.s1 \in Int
    BY <1>2 DEF ExactSum
  <2>2. ((from.s2 % Mod) + (to.s1 % Mod) - n * old) % Mod
          = (from.s2 + to.s1 - n * old) % Mod
    BY <2>1, <1>4, ModAddTwo, ModAssumption
  <2> QED BY <2>2, <1>1, <1>7
<1>9. Roll(Reset(w), w[1], new, n) =
        [s1 |-> s1, s2 |-> ((from.s2 % Mod) + s1 - n * old) % Mod]
  <2>1. Reset(w).s1 = (from.s1 % Mod) /\ Reset(w).s2 = (from.s2 % Mod)
    BY <1>5
  <2> QED BY <2>1 DEF Roll, in, old
<1>10. Roll(Reset(w), w[1], new, n) = Reset(v)
  <2> HIDE DEF s1
  <2> QED BY <1>6, <1>7, <1>8, <1>9
<1> QED BY <1>10 DEF v, n

-----------------------------------------------------------------------------
(* Slices *)

LEMMA RoundedDivision ==
  ASSUME NEW n \in Nat, NEW c \in Nat \ {0}
  PROVE  LET q == (n + c - 1) \div c
         IN  q \in Nat /\ (q - 1) * c < n /\ n <= q * c
OBVIOUS

LEMMA ScaleMonotone ==
  ASSUME NEW a \in Int, NEW b \in Int, NEW c \in Nat, a <= b
  PROVE  a * c <= b * c
OBVIOUS

LEMMA SliceType ==
  ASSUME NEW S, NEW f \in Seq(S), NEW lo \in Nat, NEW hi \in Nat,
         lo <= hi, hi <= Len(f)
  PROVE  /\ Slice(f, lo, hi) \in Seq(S)
         /\ Len(Slice(f, lo, hi)) = hi - lo
         /\ \A i \in 1 .. hi - lo : Slice(f, lo, hi)[i] = f[lo + i]
BY SubSeqProperties DEF Slice

LEMMA PrefixType ==
  ASSUME NEW S, NEW f \in Seq(S), NEW n \in Nat, n <= Len(f)
  PROVE  /\ SubSeq(f, 1, n) \in Seq(S)
         /\ Len(SubSeq(f, 1, n)) = n
         /\ \A i \in 1 .. n : SubSeq(f, 1, n)[i] = f[i]
BY SubSeqProperties

\* A slice of a slice is a slice.
LEMMA SliceSlice ==
  ASSUME NEW S, NEW f \in Seq(S), NEW lo \in Nat, NEW hi \in Nat,
         NEW a \in Nat, NEW b \in Nat,
         lo <= hi, hi <= Len(f), a <= b, b <= hi - lo
  PROVE  Slice(Slice(f, lo, hi), a, b) = Slice(f, lo + a, lo + b)
<1> DEFINE d == Slice(f, lo, hi)
<1>1. d \in Seq(S) /\ Len(d) = hi - lo /\ \A i \in 1 .. hi - lo : d[i] = f[lo + i]
  BY SliceType, ZenonT(60)
<1>2. /\ Slice(d, a, b) \in Seq(S) /\ Len(Slice(d, a, b)) = b - a
      /\ \A i \in 1 .. b - a : Slice(d, a, b)[i] = d[a + i]
  <2>1. b <= Len(d) /\ d \in Seq(S)
    BY <1>1
  <2> HIDE DEF d
  <2> QED BY <2>1, SliceType, ZenonT(60)
<1>3. /\ Slice(f, lo + a, lo + b) \in Seq(S)
      /\ Len(Slice(f, lo + a, lo + b)) = b - a
      /\ \A i \in 1 .. b - a : Slice(f, lo + a, lo + b)[i] = f[lo + a + i]
  <2> DEFINE x == lo + a
             y == lo + b
  <2>1. x \in Nat /\ y \in Nat /\ x <= y /\ y <= Len(f) /\ y - x = b - a
    BY LenProperties
  <2> HIDE DEF x, y
  <2>2. /\ Slice(f, x, y) \in Seq(S)
        /\ Len(Slice(f, x, y)) = y - x
        /\ \A i \in 1 .. y - x : Slice(f, x, y)[i] = f[x + i]
    BY <2>1, SliceType, ZenonT(60)
  <2> QED BY <2>1, <2>2 DEF x, y
<1>4. \A i \in 1 .. b - a : Slice(d, a, b)[i] = Slice(f, lo + a, lo + b)[i]
  <2> HIDE DEF d
  <2> QED BY <1>1, <1>2, <1>3
<1> HIDE DEF d
<1>5. Slice(d, a, b) = Slice(f, lo + a, lo + b)
  BY <1>2, <1>3, <1>4, SeqEqual
<1> QED BY <1>5 DEF d

-----------------------------------------------------------------------------
(* Blocks *)

LEMMA BytesAreNaturals ==
  ASSUME NEW f \in Seq(Byte)
  PROVE  f \in Seq(Nat)
<1>1. Len(f) \in Nat /\ \A i \in 1 .. Len(f) : f[i] \in Nat
  BY LenProperties, ElementOfSeq, ByteAssumption
<1> QED BY <1>1, LenProperties

LEMMA Checksum1Type ==
  ASSUME NEW f \in Seq(Byte)
  PROVE  Checksum1(f) \in Nat
BY BytesAreNaturals, ResetType, ValueType DEF Checksum1

LEMMA NumBlocksType ==
  ASSUME NEW S, NEW f \in Seq(S)
  PROVE  NumBlocks(f) \in Nat
BY RoundedDivision, BlockSizeAssumption, LenProperties DEF NumBlocks

\* The blocks of a file lie inside it, and none is longer than BlockSize.
LEMMA BlockBounds ==
  ASSUME NEW f \in Seq(Byte), NEW i \in 0 .. NumBlocks(f) - 1
  PROVE  /\ i * BlockSize \in Nat
         /\ i * BlockSize < Len(f)
         /\ BlockEnd(f, i) \in Nat
         /\ i * BlockSize < BlockEnd(f, i)
         /\ BlockEnd(f, i) <= Len(f)
         /\ BlockEnd(f, i) - i * BlockSize <= BlockSize
<1>1. NumBlocks(f) \in Nat /\ (NumBlocks(f) - 1) * BlockSize < Len(f)
  BY RoundedDivision, BlockSizeAssumption, LenProperties DEF NumBlocks
<1>2. i * BlockSize <= (NumBlocks(f) - 1) * BlockSize
  BY <1>1, ScaleMonotone, BlockSizeAssumption
<1>3. i * BlockSize \in Nat /\ (NumBlocks(f) - 1) * BlockSize \in Int
  BY <1>1, BlockSizeAssumption
<1> QED BY <1>1, <1>2, <1>3, BlockSizeAssumption, LenProperties DEF BlockEnd, Least

LEMMA BlockType ==
  ASSUME NEW f \in Seq(Byte), NEW i \in 0 .. NumBlocks(f) - 1
  PROVE  /\ Block(f, i) \in Seq(Byte)
         /\ Len(Block(f, i)) = BlockEnd(f, i) - i * BlockSize
         /\ Block(f, i) \in BlockStrings
<1> DEFINE lo == i * BlockSize
           hi == BlockEnd(f, i)
<1>1. /\ Block(f, i) \in Seq(Byte)
      /\ Len(Block(f, i)) = BlockEnd(f, i) - i * BlockSize
  <2>1. lo \in Nat /\ hi \in Nat /\ lo <= hi /\ hi <= Len(f)
    BY BlockBounds
  <2>2. Block(f, i) = Slice(f, lo, hi)
    BY DEF Block
  <2> HIDE DEF lo, hi
  <2>3. Slice(f, lo, hi) \in Seq(Byte) /\ Len(Slice(f, lo, hi)) = hi - lo
    BY <2>1, SliceType, ZenonT(60)
  <2> QED BY <2>2, <2>3 DEF lo, hi
<1> QED BY <1>1, BlockBounds, LenProperties DEF BlockStrings

LEMMA ShortStrings ==
  ASSUME NEW w \in Seq(Byte), Len(w) <= BlockSize
  PROVE  w \in BlockStrings
BY LenProperties, BlockSizeAssumption DEF BlockStrings

\* The signature of a file: one entry per block, in order, of its checksums.
LEMMA SignatureEntries ==
  ASSUME NEW f \in Seq(Byte)
  PROVE  /\ Len(Signature(f)) = NumBlocks(f)
         /\ \A k \in 1 .. NumBlocks(f) :
              /\ Signature(f)[k] = BlockSum(f, k - 1)
              /\ k - 1 \in 0 .. NumBlocks(f) - 1
<1>1. NumBlocks(f) \in Nat
  BY RoundedDivision, BlockSizeAssumption, LenProperties DEF NumBlocks
<1> QED BY <1>1 DEF Signature

\* The strong checksum identifies the block: a string of at most BlockSize
\* bytes with the strong checksum of an entry is the block of that entry.
LEMMA StrongIdentifies ==
  ASSUME NEW f \in Seq(Byte), NEW k \in 1 .. Len(Signature(f)),
         NEW w \in Seq(Byte), Len(w) <= BlockSize,
         Signature(f)[k].sum2 = Strong(w)
  PROVE  Block(f, k - 1) = w
<1>1. k \in 1 .. NumBlocks(f) /\ Signature(f)[k] = BlockSum(f, k - 1)
  BY SignatureEntries
<1>0. Signature(f)[k].sum2 = Strong(Block(f, k - 1))
  BY <1>1 DEF BlockSum
<1>2. Block(f, k - 1) \in BlockStrings
  BY <1>1, SignatureEntries, BlockType
<1>3. w \in BlockStrings
  BY ShortStrings
<1> QED BY <1>0, <1>2, <1>3, StrongAssumption

-----------------------------------------------------------------------------
(* Instructions *)

\* Instructions for adjacent ranges, one after the other, cover their union.
LEMMA CoversConcat ==
  ASSUME NEW b, NEW d \in Seq(Byte),
         NEW s \in Seq(Instruction), NEW t \in Seq(Instruction),
         NEW lo, NEW mid, NEW hi,
         Covers(b, d, s, lo, mid), Covers(b, d, t, mid, hi)
  PROVE  Covers(b, d, s \o t, lo, hi)
<1> DEFINE u == s \o t
<1>1. /\ u \in Seq(Instruction) /\ Len(u) = Len(s) + Len(t)
      /\ \A i \in 1 .. Len(s) : u[i] = s[i]
      /\ \A i \in 1 .. Len(t) : u[Len(s) + i] = t[i]
  BY ConcatProperties, LenProperties
<1>2. Len(s) \in Nat /\ Len(t) \in Nat
  BY LenProperties
<1>3. CASE s = << >>
  <2>1. u = t /\ lo = mid
    BY <1>3, ConcatEmptySeq DEF Covers
  <2> QED BY <2>1
<1>4. CASE t = << >>
  <2>1. u = s /\ mid = hi
    BY <1>4, ConcatEmptySeq DEF Covers
  <2> QED BY <2>1
<1>5. CASE s # << >> /\ t # << >>
  <2>1. Len(s) >= 1 /\ Len(t) >= 1 /\ u # << >>
    BY <1>5, <1>1, <1>2, EmptySeq
  <2>2. u[1] = s[1] /\ u[Len(u)] = t[Len(t)]
    BY <2>1, <1>1, <1>2
  <2>3. u[1].offset = lo /\ EndOf(b, u[Len(u)]) = hi
    BY <2>2, <1>5 DEF Covers
  <2>4. ASSUME NEW i \in 1 .. Len(u) - 1
        PROVE  u[i + 1].offset = EndOf(b, u[i])
    <3>1. CASE i < Len(s)
      BY <3>1, <1>1, <1>2 DEF Covers
    <3>2. CASE i = Len(s)
      <4>1. u[i] = s[Len(s)] /\ u[i + 1] = t[1]
        BY <3>2, <1>1, <1>2, <2>1
      <4> QED BY <4>1, <1>5 DEF Covers
    <3>3. CASE i > Len(s)
      <4> DEFINE j == i - Len(s)
      <4>1. j \in 1 .. Len(t) - 1 /\ u[i] = t[j] /\ u[i + 1] = t[j + 1]
        BY <3>3, <1>1, <1>2, SMTT(60)
      <4> HIDE DEF j
      <4> QED BY <4>1 DEF Covers
    <3> QED BY <3>1, <3>2, <3>3, <1>2
  <2>5. ASSUME NEW i \in 1 .. Len(u)
        PROVE  /\ EndOf(b, u[i]) <= Len(d)
               /\ Apply(b, u[i]) = Slice(d, u[i].offset, EndOf(b, u[i]))
    <3>1. CASE i <= Len(s)
      BY <3>1, <1>1, <1>2 DEF Covers
    <3>2. CASE i > Len(s)
      <4> DEFINE j == i - Len(s)
      <4>1. j \in 1 .. Len(t) /\ u[i] = t[j]
        BY <3>2, <1>1, <1>2
      <4> HIDE DEF j
      <4> QED BY <4>1 DEF Covers
    <3> QED BY <3>1, <3>2, <1>2
  <2> HIDE DEF u
  <2>6. Covers(b, d, u, lo, hi)
    BY <2>1, <2>3, <2>4, <2>5 DEF Covers
  <2> QED BY <2>6 DEF u
<1> QED BY <1>3, <1>4, <1>5

\* One instruction that contributes the bytes of d at its offset covers them.
LEMMA CoversOne ==
  ASSUME NEW b, NEW d, NEW inst \in Instruction,
         EndOf(b, inst) <= Len(d),
         Apply(b, inst) = Slice(d, inst.offset, EndOf(b, inst))
  PROVE  Covers(b, d, << inst >>, inst.offset, EndOf(b, inst))
BY DEF Covers

LEMMA CoversNone ==
  ASSUME NEW b, NEW d, NEW lo
  PROVE  Covers(b, d, << >>, lo, lo)
BY DEF Covers

\* Any piece of a file is a sequence of bytes, also where the file ends first.
LEMMA BlockIsBytes ==
  ASSUME NEW f \in Seq(Byte), NEW i \in Nat
  PROVE  Block(f, i) \in Seq(Byte)
<1> DEFINE lo == i * BlockSize
           hi == BlockEnd(f, i)
<1>1. lo \in Nat /\ Len(f) \in Nat /\ BlockSize \in Nat
  BY LenProperties, BlockSizeAssumption
<1>2. Block(f, i) = SubSeq(f, lo + 1, hi) /\ hi = Least(lo + BlockSize, Len(f))
  BY DEF Block, BlockEnd, Slice
<1> HIDE DEF lo, hi
<1>3. hi \in Nat /\ hi <= Len(f)
  BY <1>1, <1>2 DEF Least
<1>4. \A j \in lo + 1 .. hi : f[j] \in Byte
  <2>1. \A j \in lo + 1 .. hi : j \in 1 .. Len(f)
    BY <1>1, <1>3
  <2> QED BY <2>1, ElementOfSeq
<1>5. lo + 1 \in Int /\ hi \in Int
  BY <1>1, <1>3
<1>6. SubSeq(f, lo + 1, hi) \in Seq(Byte)
  BY <1>4, <1>5, SubSeqProperties
<1> QED BY <1>2, <1>6

LEMMA EndOfType ==
  ASSUME NEW f \in Seq(Byte), NEW inst \in Instruction
  PROVE  EndOf(f, inst) \in Nat
<1>1. inst.data \in Seq(Byte) /\ inst.blockIdx \in Nat /\ inst.offset \in Nat
  BY DEF Instruction
<1>2. Apply(f, inst) \in Seq(Byte)
  BY <1>1, BlockIsBytes DEF Apply
<1>3. Len(Apply(f, inst)) \in Nat
  BY <1>2, LenProperties
<1> QED BY <1>1, <1>3 DEF EndOf

\* The first instructions of a list that covers a range cover where it begins.
LEMMA CoversPrefix ==
  ASSUME NEW f \in Seq(Byte), NEW d \in Seq(Byte), NEW t \in Seq(Instruction),
         NEW lo \in 0 .. Len(d), NEW hi, Covers(f, d, t, lo, hi), NEW k \in 0 .. Len(t)
  PROVE  /\ SubSeq(t, 1, k) \in Seq(Instruction) /\ Len(SubSeq(t, 1, k)) = k
         /\ \E m \in 0 .. Len(d) : Covers(f, d, SubSeq(t, 1, k), lo, m)
<1> DEFINE u == SubSeq(t, 1, k)
<1>1. Len(t) \in Nat /\ Len(d) \in Nat
  BY LenProperties
<1>2. /\ u \in Seq(Instruction) /\ Len(u) = k
      /\ \A i \in 1 .. k : u[i] = t[i]
  BY <1>1, PrefixType
<1> HIDE DEF u
<1>3. CASE k = 0
  <2>1. u = << >>
    BY <1>2, <1>3, EmptySeq
  <2> QED BY <1>2, <2>1, CoversNone DEF u
<1>4. CASE k # 0
  <2>1. k \in 1 .. Len(t) /\ 1 \in 1 .. k /\ t # << >> /\ u # << >>
    BY <1>1, <1>2, <1>4, EmptySeq
  <2> DEFINE m == EndOf(f, t[k])
  <2>2. t[k] \in Instruction
    BY <2>1, ElementOfSeq
  <2>3. m \in 0 .. Len(d)
    <3>1. m \in Nat
      BY <2>2, EndOfType
    <3>2. m <= Len(d)
      BY <2>1 DEF Covers
    <3> QED BY <1>1, <3>1, <3>2
  <2>4. u[1].offset = lo /\ EndOf(f, u[Len(u)]) = m
    BY <1>2, <2>1 DEF Covers
  <2>5. \A i \in 1 .. Len(u) - 1 : u[i + 1].offset = EndOf(f, u[i])
    <3>1. ASSUME NEW i \in 1 .. k - 1 PROVE u[i + 1].offset = EndOf(f, u[i])
      <4>1. i \in 1 .. k /\ i + 1 \in 1 .. k /\ i \in 1 .. Len(t) - 1
        BY <1>1
      <4>2. u[i] = t[i] /\ u[i + 1] = t[i + 1]
        BY <1>2, <4>1
      <4> QED BY <4>1, <4>2 DEF Covers
    <3> QED BY <1>2, <3>1
  <2>6. \A i \in 1 .. Len(u) : /\ EndOf(f, u[i]) <= Len(d)
                              /\ Apply(f, u[i]) = Slice(d, u[i].offset, EndOf(f, u[i]))
    <3>1. ASSUME NEW i \in 1 .. k
          PROVE  /\ EndOf(f, u[i]) <= Len(d)
                 /\ Apply(f, u[i]) = Slice(d, u[i].offset, EndOf(f, u[i]))
      <4>1. i \in 1 .. Len(t) /\ u[i] = t[i]
        BY <1>1, <1>2
      <4> QED BY <4>1 DEF Covers
    <3> QED BY <1>2, <3>1
  <2> HIDE DEF m
  <2>7. Covers(f, d, u, lo, m)
    BY <2>1, <2>4, <2>5, <2>6 DEF Covers
  <2> QED BY <1>2, <2>3, <2>7 DEF u
<1> QED BY <1>3, <1>4

\* Literal data is cut into chunks that cover it, each of at least one and at
\* most ChunkSize bytes.
LEMMA ChunksCover ==
  ASSUME NEW b, NEW f \in Seq(Byte), NEW lo \in Nat, NEW hi \in Nat,
         lo <= hi, hi <= Len(f)
  PROVE  LET cs == Chunks(Slice(f, lo, hi), lo)
         IN  /\ cs \in Seq(Instruction)
             /\ Covers(b, f, cs, lo, hi)
             /\ \A k \in 1 .. Len(cs) :
                  cs[k].isLiteral /\ Len(cs[k].data) \in 1 .. ChunkSize
<1> DEFINE d == Slice(f, lo, hi)
           n == hi - lo
           q == (n + ChunkSize - 1) \div ChunkSize
           From(k) == (k - 1) * ChunkSize
           To(k) == Least(From(k) + ChunkSize, n)
           cs == Chunks(d, lo)
<1>1. d \in Seq(Byte) /\ Len(d) = n /\ n \in Nat
  <2>1. n \in Nat
    OBVIOUS
  <2>2. d \in Seq(Byte) /\ Len(d) = n
    BY SliceType, ZenonT(60)
  <2> QED BY <2>1, <2>2
<1>2. q \in Nat /\ (q - 1) * ChunkSize < n /\ n <= q * ChunkSize
  BY RoundedDivision, ChunkSizeAssumption, n \in Nat
<1>3. ASSUME NEW k \in 1 .. q
      PROVE  /\ From(k) \in Nat /\ To(k) \in Nat
             /\ From(k) < To(k) /\ To(k) <= n
             /\ To(k) - From(k) <= ChunkSize
             /\ k < q => To(k) = From(k + 1)
             /\ k = q => To(k) = n
  <2>1. From(k) <= (q - 1) * ChunkSize
    BY <1>2, ScaleMonotone, ChunkSizeAssumption
  <2>2. From(k) \in Nat /\ From(k) < n /\ From(k) + ChunkSize = k * ChunkSize
    BY <2>1, <1>1, <1>2, ChunkSizeAssumption
  <2>3. k < q => k * ChunkSize <= (q - 1) * ChunkSize
    BY <1>2, ScaleMonotone, ChunkSizeAssumption
  <2>4. k < q => k * ChunkSize = From(k + 1) /\ k * ChunkSize < n
    BY <2>3, <1>2, <1>1, ChunkSizeAssumption
  <2>5. k = q => n <= k * ChunkSize
    BY <1>2
  <2> HIDE DEF From, q, n
  <2> QED BY <2>2, <2>4, <2>5, <1>1, ChunkSizeAssumption DEF Least
<1>4. cs = [k \in 1 .. q |-> Literal(Slice(d, From(k), To(k)), lo + From(k))]
  BY <1>1 DEF Chunks
<1>5. ASSUME NEW k \in 1 .. q
      PROVE  /\ cs[k] \in Instruction
             /\ cs[k].isLiteral /\ cs[k].offset = lo + From(k)
             /\ cs[k].data = Slice(f, lo + From(k), lo + To(k))
             /\ Len(cs[k].data) = To(k) - From(k)
  <2>1. /\ Slice(d, From(k), To(k)) \in Seq(Byte)
        /\ Len(Slice(d, From(k), To(k))) = To(k) - From(k)
    <3> HIDE DEF d, From, To, n
    <3> QED BY <1>1, <1>3, SliceType
  <2>2. Slice(d, From(k), To(k)) = Slice(f, lo + From(k), lo + To(k))
    <3> HIDE DEF From, To
    <3> QED BY <1>1, <1>3, SliceSlice
  <2>3. cs[k] = Literal(Slice(d, From(k), To(k)), lo + From(k))
    BY <1>4
  <2>4. lo + From(k) \in Nat
    BY <1>3
  <2> HIDE DEF cs, d, From, To, q, n
  <2> QED BY <2>1, <2>2, <2>3, <2>4 DEF Literal, Instruction
<1>6. cs \in Seq(Instruction) /\ Len(cs) = q
  <2> HIDE DEF d, From, To, n
  <2>1. \A k \in 1 .. q : cs[k] \in Instruction
    BY <1>5
  <2> HIDE DEF q
  <2> QED BY <1>2, <1>4, <2>1
<1>7. ASSUME NEW k \in 1 .. q
      PROVE  /\ EndOf(b, cs[k]) = lo + To(k)
             /\ Apply(b, cs[k]) = Slice(f, cs[k].offset, EndOf(b, cs[k]))
  <2> HIDE DEF cs, From, To, q, n
  <2>1. Apply(b, cs[k]) = cs[k].data
    BY <1>5 DEF Apply
  <2>2. EndOf(b, cs[k]) = lo + To(k)
    <3>1. EndOf(b, cs[k]) = (lo + From(k)) + (To(k) - From(k))
      BY <2>1, <1>5 DEF EndOf
    <3>2. From(k) \in Nat /\ To(k) \in Nat
      BY <1>3
    <3> QED BY <3>1, <3>2
  <2> QED BY <2>1, <2>2, <1>5
<1>8. Covers(b, f, cs, lo, hi)
  <2>1. CASE q = 0
    <3>1. n = 0
      BY <2>1, <1>1, <1>2, ChunkSizeAssumption
    <3>2. cs = << >> /\ lo = hi
      BY <3>1, <2>1, <1>6, EmptySeq
    <3> QED BY <3>2, CoversNone
  <2>2. CASE q >= 1
    <3>1. cs # << >> /\ 1 \in 1 .. q /\ q \in 1 .. q
      BY <2>2, <1>2, <1>6, EmptySeq
    <3>2. From(1) = 0 /\ To(q) = n
      BY <3>1, <1>3, ChunkSizeAssumption
    <3>3. cs[1].offset = lo /\ EndOf(b, cs[Len(cs)]) = hi
      <4>1. cs[1].offset = lo + From(1) /\ EndOf(b, cs[q]) = lo + To(q)
        BY <3>1, <1>5, <1>7
      <4> HIDE DEF cs, From, To, q
      <4> QED BY <4>1, <3>2, <1>6
    <3>4. ASSUME NEW i \in 1 .. Len(cs) - 1
          PROVE  cs[i + 1].offset = EndOf(b, cs[i])
      <4> HIDE DEF cs, From, To, q, n
      <4>1. i \in 1 .. q /\ i + 1 \in 1 .. q /\ i < q
        BY <1>6, <1>2
      <4> QED BY <4>1, <1>3, <1>5, <1>7
    <3>5. ASSUME NEW i \in 1 .. Len(cs)
          PROVE  /\ EndOf(b, cs[i]) <= Len(f)
                 /\ Apply(b, cs[i]) = Slice(f, cs[i].offset, EndOf(b, cs[i]))
      <4>1. i \in 1 .. q /\ lo + n <= Len(f)
        BY <1>6
      <4> HIDE DEF cs, From, To, q
      <4>2. To(i) <= n /\ To(i) \in Nat
        BY <4>1, <1>3
      <4>3. Len(f) \in Nat
        BY LenProperties
      <4> HIDE DEF n
      <4> QED BY <4>1, <4>2, <4>3, <1>1, <1>7
    <3> HIDE DEF cs
    <3> QED BY <3>1, <3>3, <3>4, <3>5 DEF Covers
  <2> HIDE DEF q
  <2> QED BY <2>1, <2>2, <1>2
<1>9. \A k \in 1 .. Len(cs) : cs[k].isLiteral /\ Len(cs[k].data) \in 1 .. ChunkSize
  <2> HIDE DEF cs, From, To, q, n
  <2> QED BY <1>3, <1>5, <1>6, ChunkSizeAssumption
<1> HIDE DEF cs, From, To, q, n
<1> QED BY <1>6, <1>8, <1>9 DEF cs, d

\* A reference to the block found at offset o of the source covers it.
LEMMA MatchCovers ==
  ASSUME NEW b, NEW d \in Seq(Byte), NEW i \in Nat, NEW o \in Nat, NEW e \in Nat,
         o <= e, e <= Len(d), Block(b, i) = Slice(d, o, e)
  PROVE  /\ Match(i, o) \in Instruction
         /\ Covers(b, d, << Match(i, o) >>, o, e)
<1>1. Match(i, o) \in Instruction
  BY DEF Match, Instruction
<1>2. Apply(b, Match(i, o)) = Slice(d, o, e) /\ Match(i, o).offset = o
  BY DEF Apply, Match
<1>3. EndOf(b, Match(i, o)) = e
  BY <1>2, SliceType DEF EndOf
<1> HIDE DEF Match
<1> QED BY <1>1, <1>2, <1>3, CoversOne

-----------------------------------------------------------------------------
(* Measures *)

\* The recursion by which data is counted, over the subsets of S: one element
\* after another, whichever CHOOSE takes first.
OneOf(s) == CHOOSE x \in s : TRUE

Counting(insts, S, g) ==
  [s \in SUBSET S |-> IF s = {} THEN 0
                      ELSE Len(insts[OneOf(s)].data) + g[s \ {OneOf(s)}]]

LEMMA OneLess ==
  ASSUME NEW s, IsFiniteSet(s), s # {}
  PROVE  /\ OneOf(s) \in s
         /\ Cardinality(s \ {OneOf(s)}) = Cardinality(s) - 1
<1>1. OneOf(s) \in s
  BY DEF OneOf
<1> QED BY <1>1, FS_RemoveElement

\* The subsets of a finite set, by their size.
LEMMA SubsetSizes ==
  ASSUME NEW S, IsFiniteSet(S), NEW s \in SUBSET S
  PROVE  /\ IsFiniteSet(s) /\ Cardinality(s) \in Nat
         /\ Cardinality(S) \in Nat /\ Cardinality(s) <= Cardinality(S)
         /\ s = {} <=> Cardinality(s) = 0
BY FS_Subset, FS_CardinalityType, FS_EmptySet

\* g counts every subset of at most m elements.
Counts(insts, S, m, g) ==
  \A s \in SUBSET S : Cardinality(s) <= m =>
    g[s] \in Nat /\ g[s] = Counting(insts, S, g)[s]

LEMMA CountsExist ==
  ASSUME NEW insts, NEW S, IsFiniteSet(S), \A k \in S : Len(insts[k].data) \in Nat
  PROVE  \E g : Counts(insts, S, Cardinality(S), g)
<1> DEFINE N == Cardinality(S)
           P == {m \in 0 .. N : \E g : Counts(insts, S, m, g)}
<1>0. N \in Nat
  BY FS_CardinalityType
<1>1. 0 \in P
  <2> DEFINE z == [s \in SUBSET S |-> 0]
  <2>1. ASSUME NEW s \in SUBSET S, Cardinality(s) <= 0
        PROVE  z[s] \in Nat /\ z[s] = Counting(insts, S, z)[s]
    <3>1. s = {}
      BY <2>1, SubsetSizes
    <3> QED BY <3>1 DEF Counting
  <2>2. Counts(insts, S, 0, z)
    BY <2>1 DEF Counts
  <2> QED BY <1>0, <2>2
<1>2. ASSUME NEW m \in 0 .. N - 1, m \in P
      PROVE  m + 1 \in P
  <2>1. PICK g : Counts(insts, S, m, g)
    BY <1>2
  <2> DEFINE h == [s \in SUBSET S |-> IF Cardinality(s) <= m THEN g[s]
                                      ELSE Counting(insts, S, g)[s]]
  <2>2. ASSUME NEW s \in SUBSET S, Cardinality(s) <= m + 1
        PROVE  h[s] \in Nat /\ h[s] = Counting(insts, S, h)[s]
    <3>1. Cardinality(s) \in Nat /\ m \in Nat /\ IsFiniteSet(s)
      BY <1>0, SubsetSizes
    <3>2. CASE s = {}
      <4>1. Cardinality(s) <= m
        BY <3>1, <3>2, SubsetSizes
      <4>2. h[s] = g[s] /\ g[s] \in Nat /\ g[s] = Counting(insts, S, g)[s]
        BY <2>1, <4>1 DEF Counts
      <4> QED BY <3>2, <4>2 DEF Counting
    <3>3. CASE s # {}
      <4> DEFINE x == OneOf(s)
                 t == s \ {x}
      <4>1. x \in S /\ t \in SUBSET S /\ Cardinality(t) <= m
        BY <2>2, <3>1, <3>3, OneLess
      <4>2. Len(insts[x].data) \in Nat /\ g[t] \in Nat /\ h[t] = g[t]
        BY <2>1, <4>1 DEF Counts
      <4>3. Counting(insts, S, g)[s] = Len(insts[x].data) + g[t]
        BY <3>3 DEF Counting
      <4>4. Counting(insts, S, h)[s] = Len(insts[x].data) + h[t]
        <5> HIDE DEF h
        <5> QED BY <3>3 DEF Counting
      <4>5. h[s] = Counting(insts, S, g)[s]
        <5>1. CASE Cardinality(s) <= m
          BY <2>1, <5>1 DEF Counts
        <5>2. CASE ~ (Cardinality(s) <= m)
          BY <5>2
        <5> QED BY <5>1, <5>2
      <4> HIDE DEF h, x, t
      <4> QED BY <4>2, <4>3, <4>4, <4>5
    <3> QED BY <3>2, <3>3
  <2> HIDE DEF h
  <2>3. Counts(insts, S, m + 1, h)
    BY <2>2 DEF Counts
  <2> QED BY <1>0, <2>3
<1> HIDE DEF P
<1>3. 0 .. N \subseteq P
  BY <1>0, <1>1, <1>2, Induction
<1> QED BY <1>0, <1>3 DEF P

DataCount(insts, S) == MapThenSumSet(LAMBDA k : Len(insts[k].data), S)

\* The function that DataCount applies.
Summed(insts, S) == CHOOSE g : g = Counting(insts, S, g)

LEMMA SummedFixed ==
  ASSUME NEW insts, NEW S, IsFiniteSet(S), \A k \in S : Len(insts[k].data) \in Nat
  PROVE  /\ Summed(insts, S) = Counting(insts, S, Summed(insts, S))
         /\ DataCount(insts, S) = Summed(insts, S)[S]
<1> DEFINE f == Summed(insts, S)
<1>1. PICK g : Counts(insts, S, Cardinality(S), g)
  BY CountsExist
<1> DEFINE h == [s \in SUBSET S |-> g[s]]
<1>2. h = Counting(insts, S, h)
  <2>1. ASSUME NEW s \in SUBSET S
        PROVE  h[s] = Counting(insts, S, h)[s]
    <3>1. g[s] = Counting(insts, S, g)[s]
      BY <1>1, SubsetSizes DEF Counts
    <3>2. s \ {OneOf(s)} \in SUBSET S
      OBVIOUS
    <3>3. Counting(insts, S, g)[s] = Counting(insts, S, h)[s]
      BY <3>2 DEF Counting
    <3> QED BY <3>1, <3>3
  <2>2. /\ Counting(insts, S, h) = [s \in SUBSET S |-> Counting(insts, S, h)[s]]
        /\ h = [s \in SUBSET S |-> h[s]]
    BY DEF Counting
  <2> HIDE DEF h
  <2> QED BY <2>1, <2>2
<1>3. f = Counting(insts, S, f)
  <2> HIDE DEF h
  <2> QED BY <1>2 DEF Summed
<1>4. DataCount(insts, S) = f[S]
  BY Zenon DEF f, Summed, DataCount, MapThenSumSet, MapThenFoldSet, Counting, OneOf
<1> QED BY <1>3, <1>4

\* Its recursion, and that it counts.
Recurs(insts, S, f) == /\ f[{}] = 0
                       /\ \A s \in (SUBSET S) \ {{}} :
                            /\ OneOf(s) \in s /\ s \ {OneOf(s)} \in SUBSET S
                            /\ Cardinality(s \ {OneOf(s)}) = Cardinality(s) - 1
                            /\ f[s] = Len(insts[OneOf(s)].data) + f[s \ {OneOf(s)}]

LEMMA SummedStep ==
  ASSUME NEW insts, NEW S, IsFiniteSet(S), \A k \in S : Len(insts[k].data) \in Nat
  PROVE  Recurs(insts, S, Summed(insts, S))
<1> DEFINE f == Summed(insts, S)
<1>1. f = Counting(insts, S, f)
  BY SummedFixed
<1> HIDE DEF f
<1>2. f[{}] = 0
  <2>1. Counting(insts, S, f)[{}] = 0
    BY DEF Counting
  <2> QED BY <1>1, <2>1
<1>3. ASSUME NEW s \in (SUBSET S) \ {{}}
      PROVE  /\ OneOf(s) \in s /\ s \ {OneOf(s)} \in SUBSET S
             /\ Cardinality(s \ {OneOf(s)}) = Cardinality(s) - 1
             /\ f[s] = Len(insts[OneOf(s)].data) + f[s \ {OneOf(s)}]
  <2>1. Counting(insts, S, f)[s] = Len(insts[OneOf(s)].data) + f[s \ {OneOf(s)}]
    BY DEF Counting
  <2>2. f[s] = Len(insts[OneOf(s)].data) + f[s \ {OneOf(s)}]
    BY <1>1, <2>1
  <2>3. IsFiniteSet(s) /\ s # {}
    BY SubsetSizes
  <2>4. OneOf(s) \in s /\ Cardinality(s \ {OneOf(s)}) = Cardinality(s) - 1
    BY <2>3, OneLess
  <2> QED BY <2>2, <2>4
<1> QED BY <1>2, <1>3 DEF f, Recurs

LEMMA SummedType ==
  ASSUME NEW insts, NEW S, IsFiniteSet(S), \A k \in S : Len(insts[k].data) \in Nat
  PROVE  \A s \in SUBSET S : Summed(insts, S)[s] \in Nat
<1> DEFINE N == Cardinality(S)
           f == Summed(insts, S)
           P == {m \in 0 .. N : \A s \in SUBSET S : Cardinality(s) <= m => f[s] \in Nat}
<1>s. Recurs(insts, S, f)
  BY SummedStep
<1> HIDE DEF f
<1>0. N \in Nat
  BY FS_CardinalityType
<1>1. 0 \in P
  <2>1. ASSUME NEW s \in SUBSET S, Cardinality(s) <= 0
        PROVE  f[s] \in Nat
    <3>1. s = {}
      BY <2>1, SubsetSizes
    <3> QED BY <3>1, <1>s DEF Recurs
  <2> QED BY <1>0, <2>1
<1>2. ASSUME NEW m \in 0 .. N - 1, m \in P
      PROVE  m + 1 \in P
  <2>1. ASSUME NEW s \in SUBSET S, Cardinality(s) <= m + 1
        PROVE  f[s] \in Nat
    <3>1. CASE s = {}
      BY <3>1, <1>s DEF Recurs
    <3>2. CASE s # {}
      <4> DEFINE x == OneOf(s)
                 t == s \ {x}
      <4>1. /\ x \in s /\ t \in SUBSET S /\ Cardinality(t) = Cardinality(s) - 1
            /\ f[s] = Len(insts[x].data) + f[t]
        BY <3>2, <1>s DEF Recurs
      <4> HIDE DEF x, t
      <4>2. Cardinality(s) \in Nat
        BY SubsetSizes
      <4>3. Cardinality(t) <= m
        BY <2>1, <4>1, <4>2
      <4>4. f[t] \in Nat /\ Len(insts[x].data) \in Nat
        BY <1>2, <4>1, <4>3
      <4> QED BY <4>1, <4>4
    <3> QED BY <3>1, <3>2
  <2> QED BY <1>0, <2>1
<1> HIDE DEF P
<1>3. 0 .. N \subseteq P
  BY <1>0, <1>1, <1>2, Induction
<1>4. N \in P
  BY <1>0, <1>3
<1> QED BY <1>4, SubsetSizes DEF P, f

\* The number of bytes in the data of some instructions is a number.
LEMMA DataCountType ==
  ASSUME NEW insts, NEW S, IsFiniteSet(S), \A k \in S : Len(insts[k].data) \in Nat
  PROVE  DataCount(insts, S) \in Nat
BY SummedFixed, SummedType

\* Whichever element CHOOSE takes: any may be counted last.
LEMMA SummedAny ==
  ASSUME NEW insts, NEW S, IsFiniteSet(S), \A k \in S : Len(insts[k].data) \in Nat
  PROVE  \A s \in SUBSET S : \A x \in s :
           Summed(insts, S)[s] = Len(insts[x].data) + Summed(insts, S)[s \ {x}]
<1> DEFINE N == Cardinality(S)
           f == Summed(insts, S)
           v(k) == Len(insts[k].data)
           Whichever(s) == \A x \in s : f[s] = v(x) + f[s \ {x}]
           P == {m \in 0 .. N : \A s \in SUBSET S : Cardinality(s) <= m => Whichever(s)}
<1>0. N \in Nat /\ \A k \in S : v(k) \in Nat
  BY FS_CardinalityType
<1>f. \A s \in SUBSET S : f[s] \in Nat
  BY SummedType
<1>s. Recurs(insts, S, f)
  BY SummedStep
<1> HIDE DEF f, v
<1>1. 0 \in P
  <2>1. ASSUME NEW s \in SUBSET S, Cardinality(s) <= 0
        PROVE  s = {}
    BY <2>1, SubsetSizes
  <2> QED BY <1>0, <2>1
<1>2. ASSUME NEW m \in 0 .. N - 1, m \in P
      PROVE  m + 1 \in P
  <2>1. ASSUME NEW s \in SUBSET S, Cardinality(s) <= m + 1, NEW x \in s
        PROVE  f[s] = v(x) + f[s \ {x}]
    <3> DEFINE c == OneOf(s)
               t == s \ {c}
    <3>1. /\ c \in s /\ t \in SUBSET S /\ Cardinality(t) = Cardinality(s) - 1
          /\ f[s] = v(c) + f[t]
      <4>1. s # {}
        OBVIOUS
      <4> QED BY <4>1, <1>s DEF Recurs, v
    <3> HIDE DEF c
    <3>2. CASE x = c
      BY <3>1, <3>2
    <3>3. CASE x # c
      <4> DEFINE u == s \ {x}
                 w == t \ {x}
      <4>1. /\ u \in SUBSET S /\ w \in SUBSET S /\ w = u \ {c} /\ x \in t /\ c \in u
        BY <3>1, <3>3
      <4>2. IsFiniteSet(s) /\ Cardinality(s) \in Nat
        BY SubsetSizes
      <4>3. Cardinality(u) = Cardinality(s) - 1
        BY <4>2, FS_RemoveElement
      <4>4. Cardinality(t) <= m /\ Cardinality(u) <= m
        BY <2>1, <3>1, <4>2, <4>3
      <4> HIDE DEF t, u, w
      <4>5. f[t] = v(x) + f[t \ {x}]
        BY <1>2, <3>1, <4>1, <4>4
      <4>6. f[u] = v(c) + f[u \ {c}]
        BY <1>2, <4>1, <4>4
      <4>7. v(x) \in Nat /\ v(c) \in Nat /\ f[w] \in Nat
        BY <1>0, <1>f, <3>1, <4>1
      <4>8. f[s] = v(c) + (v(x) + f[w]) /\ f[u] = v(c) + f[w]
        BY <3>1, <4>1, <4>5, <4>6 DEF w
      <4> QED BY <4>7, <4>8 DEF u
    <3> QED BY <3>2, <3>3
  <2> QED BY <1>0, <2>1
<1> HIDE DEF P
<1>3. 0 .. N \subseteq P
  BY <1>0, <1>1, <1>2, Induction
<1>4. N \in P
  BY <1>0, <1>3
<1> QED BY <1>4, SubsetSizes DEF P, f, v

\* Nor does it matter of which set the subset is one.
LEMMA SummedSame ==
  ASSUME NEW insts, NEW S, IsFiniteSet(S), \A k \in S : Len(insts[k].data) \in Nat,
         NEW T \in SUBSET S
  PROVE  \A s \in SUBSET T : Summed(insts, T)[s] = Summed(insts, S)[s]
<1> DEFINE N == Cardinality(T)
           f == Summed(insts, S)
           g == Summed(insts, T)
           P == {m \in 0 .. N : \A s \in SUBSET T : Cardinality(s) <= m => g[s] = f[s]}
<1>0. N \in Nat /\ IsFiniteSet(T) /\ \A k \in T : Len(insts[k].data) \in Nat
  BY SubsetSizes
<1>s. Recurs(insts, S, f)
  BY SummedStep
<1>t. Recurs(insts, T, g)
  BY <1>0, SummedStep
<1> HIDE DEF f, g
<1>1. 0 \in P
  <2>1. ASSUME NEW s \in SUBSET T, Cardinality(s) <= 0
        PROVE  g[s] = f[s]
    <3>1. s = {} /\ s \in SUBSET S
      BY <1>0, <2>1, SubsetSizes
    <3> QED BY <3>1, <1>s, <1>t DEF Recurs
  <2> QED BY <1>0, <2>1
<1>2. ASSUME NEW m \in 0 .. N - 1, m \in P
      PROVE  m + 1 \in P
  <2>1. ASSUME NEW s \in SUBSET T, Cardinality(s) <= m + 1
        PROVE  g[s] = f[s]
    <3>0. s \in SUBSET S
      OBVIOUS
    <3>1. CASE s = {}
      BY <3>1, <1>s, <1>t DEF Recurs
    <3>2. CASE s # {}
      <4> DEFINE x == OneOf(s)
                 t == s \ {x}
      <4>1. /\ t \in SUBSET T /\ Cardinality(t) = Cardinality(s) - 1
            /\ g[s] = Len(insts[x].data) + g[t]
        BY <3>2, <1>t DEF Recurs
      <4>2. f[s] = Len(insts[x].data) + f[t]
        BY <3>0, <3>2, <1>s DEF Recurs
      <4> HIDE DEF x, t
      <4>3. Cardinality(s) \in Nat
        BY <1>0, SubsetSizes
      <4>4. Cardinality(t) <= m
        BY <2>1, <4>1, <4>3
      <4>5. g[t] = f[t]
        BY <1>2, <4>1, <4>4
      <4> QED BY <4>1, <4>2, <4>5
    <3> QED BY <3>1, <3>2
  <2> QED BY <1>0, <2>1
<1> HIDE DEF P
<1>3. 0 .. N \subseteq P
  BY <1>0, <1>1, <1>2, Induction
<1>4. N \in P
  BY <1>0, <1>3
<1> QED BY <1>0, <1>4, SubsetSizes DEF P, f, g

\* One more instruction, one more addend.
LEMMA DataCountAdd ==
  ASSUME NEW insts, NEW T, IsFiniteSet(T), NEW x, x \notin T,
         \A k \in T \cup {x} : Len(insts[k].data) \in Nat
  PROVE  /\ DataCount(insts, T \cup {x}) = DataCount(insts, T) + Len(insts[x].data)
         /\ DataCount(insts, T) \in Nat
<1> DEFINE S == T \cup {x}
<1>1. IsFiniteSet(S)
  BY FS_AddElement
<1>2. T \in SUBSET S /\ S \in SUBSET S /\ x \in S /\ S \ {x} = T
  OBVIOUS
<1>3. \A k \in S : Len(insts[k].data) \in Nat
  OBVIOUS
<1> HIDE DEF S
<1>4. /\ DataCount(insts, S) = Summed(insts, S)[S]
      /\ DataCount(insts, T) = Summed(insts, T)[T]
  BY <1>1, <1>2, <1>3, SummedFixed
<1>5. Summed(insts, S)[S] = Len(insts[x].data) + Summed(insts, S)[T]
  BY <1>1, <1>2, <1>3, SummedAny
<1>6. Summed(insts, T)[T] = Summed(insts, S)[T]
  BY <1>1, <1>2, <1>3, SummedSame
<1>7. DataCount(insts, T) \in Nat /\ Len(insts[x].data) \in Nat
  BY <1>2, <1>3, DataCountType
<1> QED BY <1>4, <1>5, <1>6, <1>7 DEF S

LEMMA NothingCounted ==
  ASSUME NEW insts
  PROVE  DataCount(insts, {}) = 0
<1>1. IsFiniteSet({}) /\ {} \in SUBSET {} /\ \A k \in {} : Len(insts[k].data) \in Nat
  BY FS_EmptySet
<1>2. Summed(insts, {})[{}] = 0
  BY <1>1, SummedStep DEF Recurs
<1> QED BY <1>1, <1>2, SummedFixed

\* What an instruction list is measured by.
LEMMA LiteralCountType ==
  ASSUME NEW insts \in Seq(Instruction)
  PROVE  LiteralCount(insts) \in Nat
<1> DEFINE S == {k \in DOMAIN insts : insts[k].isLiteral}
<1>1. DOMAIN insts = 1 .. Len(insts) /\ Len(insts) \in Nat
  BY LenProperties
<1>2. IsFiniteSet(S)
  <2>1. IsFiniteSet(1 .. Len(insts)) /\ S \subseteq 1 .. Len(insts)
    BY <1>1, FS_Interval
  <2> HIDE DEF S
  <2> QED BY <2>1, FS_Subset
<1>3. \A k \in S : Len(insts[k].data) \in Nat
  BY <1>1, ElementOfSeq, LenProperties DEF Instruction
<1> HIDE DEF S
<1>4. DataCount(insts, S) \in Nat
  BY <1>2, <1>3, DataCountType
<1> QED BY <1>4, Zenon DEF LiteralCount, S, DataCount, MapThenSumSet, MapThenFoldSet

-----------------------------------------------------------------------------
(* The function Search computes *)

\* What a scan emits from each state on.
Scanner(f, known, d) ==
  LET from[s \in ScanStates(f, d)] == ScanResult(f, known, d, from, s)
  IN  from

\* A state of a scan, and the two it may go on to from there.
After(s, i) == [o |-> s.o + BlockSize, lm |-> s.o + BlockSize, want |-> i + 1]
Missed(s) == [s EXCEPT !.o = @ + 1]

\* known is a set of blocks of f.
AreBlocks(f, known) == known \subseteq 0 .. NumBlocks(f) - 1

LEMMA ChosenInBlocks ==
  ASSUME NEW f, NumBlocks(f) \in Nat, NEW known, AreBlocks(f, known),
         NEW w, Candidates(f, known, w) # {}, NEW want \in Nat
  PROVE  Chosen(f, known, w, want) \in 0 .. NumBlocks(f) - 1
<1> DEFINE C == Candidates(f, known, w)
<1>1. C \subseteq Nat /\ C # {} /\ C \subseteq 0 .. NumBlocks(f) - 1
  <2>1. C \subseteq known
    BY DEF Candidates
  <2>2. C # {}
    OBVIOUS
  <2> HIDE DEF C
  <2>3. C \subseteq 0 .. NumBlocks(f) - 1
    BY <2>1 DEF AreBlocks
  <2>4. C \subseteq Nat
    BY <2>3
  <2> QED BY <2>2, <2>3, <2>4
<1>2. Min(C) \in C
  <2> HIDE DEF C
  <2>1. \E m \in C : \A n \in C : m <= n
    BY <1>1, LeastElement
  <2> QED BY <2>1 DEF Min
<1> HIDE DEF C
<1>3. Min(C) \in 0 .. NumBlocks(f) - 1
  BY <1>1, <1>2
<1> QED BY <1>3 DEF Chosen, C

\* The scan goes on to later states only, after a miss and after a match.
LEMMA MissGoesOn ==
  ASSUME NEW f, NEW d \in Seq(Byte), NEW s \in ScanStates(f, d), s.o + BlockSize <= Len(d)
  PROVE  /\ Missed(s) \in ScanStates(f, d) /\ Missed(s).o = s.o + 1
         /\ Missed(s) = [o |-> s.o + 1, lm |-> s.lm, want |-> s.want]
<1>1. Len(d) \in Nat /\ BlockSize \in Nat \ {0}
  BY LenProperties, BlockSizeAssumption
<1>2. s.o \in 0 .. Len(d) /\ s.lm \in 0 .. Len(d) /\ s.want \in 0 .. NumBlocks(f)
      /\ s = [o |-> s.o, lm |-> s.lm, want |-> s.want]
  BY DEF ScanStates
<1>3. Missed(s) = [o |-> s.o + 1, lm |-> s.lm, want |-> s.want]
  BY <1>2 DEF Missed
<1>4. s.o + 1 \in 0 .. Len(d)
  BY <1>1, <1>2
<1> QED BY <1>2, <1>3, <1>4 DEF ScanStates

LEMMA MatchGoesOn ==
  ASSUME NEW f, NumBlocks(f) \in Nat, NEW d \in Seq(Byte), NEW known, AreBlocks(f, known),
         NEW s \in ScanStates(f, d), s.o + BlockSize <= Len(d),
         NEW w, Candidates(f, known, w) # {},
         NEW i, i = Chosen(f, known, w, s.want)
  PROVE  /\ i \in 0 .. NumBlocks(f) - 1
         /\ After(s, i) \in ScanStates(f, d)
         /\ After(s, i).o = s.o + BlockSize
<1>0. NumBlocks(f) \in Nat
  OBVIOUS
<1>1. Len(d) \in Nat /\ NumBlocks(f) \in Nat /\ BlockSize \in Nat \ {0}
  BY <1>0, LenProperties, BlockSizeAssumption
<1>2. s.o \in 0 .. Len(d) /\ s.want \in 0 .. NumBlocks(f)
  BY DEF ScanStates
<1>3. i \in 0 .. NumBlocks(f) - 1
  <2> DEFINE want == s.want
  <2>1. want \in Nat /\ i = Chosen(f, known, w, want)
    BY <1>1, <1>2
  <2> HIDE DEF want
  <2>2. Chosen(f, known, w, want) \in 0 .. NumBlocks(f) - 1
    BY <1>0, <2>1, ChosenInBlocks
  <2> QED BY <2>1, <2>2
<1>4. s.o + BlockSize \in 0 .. Len(d) /\ i + 1 \in 0 .. NumBlocks(f)
  BY <1>1, <1>2, <1>3
<1> QED BY <1>3, <1>4 DEF After, ScanStates

\* g and h are the same after s.
SameAfter(f, d, s, g, h) == \A t \in ScanStates(f, d) : s.o < t.o => g[t] = h[t]

\* What is emitted from s on depends on what is emitted later only.
LEMMA ScanLooksAhead ==
  ASSUME NEW f, NumBlocks(f) \in Nat, NEW d \in Seq(Byte),
         NEW known, AreBlocks(f, known),
         NEW s \in ScanStates(f, d), NEW g, NEW h, SameAfter(f, d, s, g, h)
  PROVE  ScanResult(f, known, d, g, s) = ScanResult(f, known, d, h, s)
<1> DEFINE w == Slice(d, s.o, s.o + BlockSize)
           i == Chosen(f, known, w, s.want)
<1>1. s.o \in Nat /\ BlockSize \in Nat \ {0}
  BY BlockSizeAssumption DEF ScanStates
<1>2. CASE s.o + BlockSize > Len(d)
  BY <1>2 DEF ScanResult
<1>3. CASE ~ (s.o + BlockSize > Len(d)) /\ Candidates(f, known, w) = {}
  <2>1. s.o + BlockSize <= Len(d)
    BY <1>1, <1>3, LenProperties
  <2>2. Missed(s) \in ScanStates(f, d) /\ Missed(s).o = s.o + 1
    BY <2>1, MissGoesOn
  <2>3. g[Missed(s)] = h[Missed(s)]
    BY <1>1, <2>2 DEF SameAfter
  <2> QED BY <1>3, <2>3 DEF ScanResult, Missed
<1>4. CASE ~ (s.o + BlockSize > Len(d)) /\ Candidates(f, known, w) # {}
  <2>1. s.o + BlockSize <= Len(d)
    BY <1>1, <1>4, LenProperties
  <2>2. After(s, i) \in ScanStates(f, d) /\ After(s, i).o = s.o + BlockSize
    <3> HIDE DEF w, i
    <3>1. i = Chosen(f, known, w, s.want)
      BY DEF i
    <3> QED BY <1>4, <2>1, <3>1, MatchGoesOn
  <2>3. g[After(s, i)] = h[After(s, i)]
    BY <1>1, <2>2 DEF SameAfter
  <2> QED BY <1>4, <2>3 DEF ScanResult, After
<1> QED BY <1>2, <1>3, <1>4

\* g is right for the last m offsets and one.
Scans(f, known, d, m, g) ==
  \A s \in ScanStates(f, d) :
    s.o + m >= Len(d) => g[s] = ScanResult(f, known, d, g, s)

LEMMA ScansExist ==
  ASSUME NEW f, NumBlocks(f) \in Nat, NEW d \in Seq(Byte),
         NEW known, AreBlocks(f, known)
  PROVE  \E g : Scans(f, known, d, Len(d), g)
<1> DEFINE N == Len(d)
           P == {m \in 0 .. N : \E g : Scans(f, known, d, m, g)}
<1>0. N \in Nat
  BY LenProperties
<1>1. 0 \in P
  <2> DEFINE z == [s \in ScanStates(f, d) |-> TailResult(f, d, s.lm)]
  <2>1. ASSUME NEW s \in ScanStates(f, d), s.o + 0 >= N
        PROVE  z[s] = ScanResult(f, known, d, z, s)
    <3>1. s.o + BlockSize > Len(d)
      BY <1>0, <2>1, BlockSizeAssumption DEF ScanStates
    <3>2. z[s] = TailResult(f, d, s.lm)
      OBVIOUS
    <3> HIDE DEF z
    <3> QED BY <3>1, <3>2 DEF ScanResult
  <2> HIDE DEF z
  <2>2. Scans(f, known, d, 0, z)
    BY <2>1 DEF Scans
  <2> QED BY <1>0, <2>2
<1>2. ASSUME NEW m \in 0 .. N - 1, m \in P
      PROVE  m + 1 \in P
  <2>1. PICK g : Scans(f, known, d, m, g)
    BY <1>2
  <2> DEFINE h == [s \in ScanStates(f, d) |->
                     IF s.o + m >= N THEN g[s] ELSE ScanResult(f, known, d, g, s)]
  <2>2. ASSUME NEW s \in ScanStates(f, d), s.o + (m + 1) >= N
        PROVE  h[s] = ScanResult(f, known, d, h, s)
    <3>1. h[s] = ScanResult(f, known, d, g, s)
      <4>1. CASE s.o + m >= N
        BY <2>1, <4>1 DEF Scans
      <4>2. CASE ~ (s.o + m >= N)
        BY <4>2
      <4> QED BY <4>1, <4>2
    <3>2. SameAfter(f, d, s, g, h)
      <4> SUFFICES ASSUME NEW t \in ScanStates(f, d), s.o < t.o PROVE g[t] = h[t]
        BY DEF SameAfter
      <4>1. s.o \in Nat /\ t.o \in Nat /\ m \in Nat
        BY <1>0 DEF ScanStates
      <4>2. t.o + m >= N
        BY <1>0, <2>2, <4>1
      <4> QED BY <4>2
    <3> HIDE DEF h
    <3>3. ScanResult(f, known, d, g, s) = ScanResult(f, known, d, h, s)
      BY <3>2, ScanLooksAhead
    <3> QED BY <3>1, <3>3
  <2> HIDE DEF h
  <2>3. Scans(f, known, d, m + 1, h)
    BY <2>2 DEF Scans
  <2> QED BY <1>0, <2>3
<1> HIDE DEF P
<1>3. 0 .. N \subseteq P
  BY <1>0, <1>1, <1>2, Induction
<1> QED BY <1>0, <1>3 DEF P

\* The recursion is met.
LEMMA ScannerCorrect ==
  ASSUME NEW f, NumBlocks(f) \in Nat, NEW d \in Seq(Byte),
         NEW known, AreBlocks(f, known),
         NEW s \in ScanStates(f, d)
  PROVE  Scanner(f, known, d)[s] = ScanResult(f, known, d, Scanner(f, known, d), s)
<1> DEFINE Body(h) == [t \in ScanStates(f, d) |-> ScanResult(f, known, d, h, t)]
           r == Scanner(f, known, d)
<1>1. PICK g : Scans(f, known, d, Len(d), g)
  BY ScansExist
<1> DEFINE h == [t \in ScanStates(f, d) |-> g[t]]
<1>2. h = Body(h)
  <2>1. ASSUME NEW t \in ScanStates(f, d)
        PROVE  h[t] = ScanResult(f, known, d, h, t)
    <3>1. t.o + Len(d) >= Len(d)
      BY LenProperties DEF ScanStates
    <3>2. g[t] = ScanResult(f, known, d, g, t)
      BY <1>1, <3>1 DEF Scans
    <3>3. h[t] = g[t] /\ SameAfter(f, d, t, g, h)
      BY DEF SameAfter
    <3> HIDE DEF h
    <3>4. ScanResult(f, known, d, g, t) = ScanResult(f, known, d, h, t)
      BY <3>3, ScanLooksAhead
    <3> QED BY <3>2, <3>3, <3>4
  <2>2. h = [t \in ScanStates(f, d) |-> h[t]]
    OBVIOUS
  <2> HIDE DEF h
  <2>3. Body(h) = [t \in ScanStates(f, d) |-> h[t]]
    BY <2>1, Zenon
  <2> QED BY <2>2, <2>3
<1>3. r = CHOOSE q : q = Body(q)
  BY Zenon DEF Scanner
<1>4. r = Body(r)
  <2> HIDE DEF Body, r, h
  <2> QED BY <1>2, <1>3
<1> HIDE DEF r
<1>5. Body(r)[s] = ScanResult(f, known, d, r, s)
  OBVIOUS
<1> HIDE DEF Body
<1>6. r[s] = ScanResult(f, known, d, r, s)
  BY <1>4, <1>5
<1> QED BY <1>6 DEF r

\* The equation of the scan, case by case.
LEMMA ScannerEnds ==
  ASSUME NEW f, NumBlocks(f) \in Nat, NEW d \in Seq(Byte), NEW known, AreBlocks(f, known),
         NEW s \in ScanStates(f, d), s.o + BlockSize > Len(d)
  PROVE  Scanner(f, known, d)[s] = TailResult(f, d, s.lm)
<1> DEFINE g == Scanner(f, known, d)
<1>1. g[s] = ScanResult(f, known, d, g, s)
  BY ScannerCorrect
<1> HIDE DEF g
<1>2. g[s] = TailResult(f, d, s.lm)
  BY <1>1 DEF ScanResult
<1> QED BY <1>2 DEF g

LEMMA ScannerMisses ==
  ASSUME NEW f, NumBlocks(f) \in Nat, NEW d \in Seq(Byte), NEW known, AreBlocks(f, known),
         NEW s \in ScanStates(f, d), s.o + BlockSize <= Len(d),
         Candidates(f, known, Slice(d, s.o, s.o + BlockSize)) = {}
  PROVE  Scanner(f, known, d)[s] = Scanner(f, known, d)[Missed(s)]
<1> DEFINE g == Scanner(f, known, d)
<1>1. g[s] = ScanResult(f, known, d, g, s)
  BY ScannerCorrect
<1>2. ~ (s.o + BlockSize > Len(d))
  BY LenProperties, BlockSizeAssumption DEF ScanStates
<1> HIDE DEF g
<1>3. g[s] = g[Missed(s)]
  BY <1>1, <1>2 DEF ScanResult, Missed
<1> QED BY <1>3 DEF g

\* What is emitted from s on when the window there is sent as block i.
Pending(d, s, i) == Append(Chunks(Slice(d, s.lm, s.o), s.lm), Match(i, s.o))
SentAt(d, s, i, rest) == Pending(d, s, i) \o rest

\* The window at s is sent as block i.
MatchesAt(f, known, d, s, i) ==
  LET w == Slice(d, s.o, s.o + BlockSize)
  IN  /\ s.o + BlockSize <= Len(d)
      /\ Candidates(f, known, w) # {}
      /\ i = Chosen(f, known, w, s.want)

LEMMA ScannerMatches ==
  ASSUME NEW f, NumBlocks(f) \in Nat, NEW d \in Seq(Byte), NEW known, AreBlocks(f, known),
         NEW s \in ScanStates(f, d), NEW i, MatchesAt(f, known, d, s, i)
  PROVE  Scanner(f, known, d)[s] = SentAt(d, s, i, Scanner(f, known, d)[After(s, i)])
<1> DEFINE g == Scanner(f, known, d)
<1>1. g[s] = ScanResult(f, known, d, g, s)
  BY ScannerCorrect
<1>2. ~ (s.o + BlockSize > Len(d))
  BY LenProperties, BlockSizeAssumption DEF ScanStates, MatchesAt
<1> HIDE DEF g
<1>3. g[s] = SentAt(d, s, i, g[After(s, i)])
  BY <1>1, <1>2 DEF ScanResult, After, MatchesAt, SentAt, Pending
<1> QED BY <1>3 DEF g

\* Instructions that can be sent to the owner of f: literals are no longer than
\* a chunk or a block, and references are to blocks that f has.
Sendable(f) ==
  {r \in Instruction :
     IF r.isLiteral THEN Len(r.data) <= Most(ChunkSize, BlockSize)
     ELSE r.blockIdx < NumBlocks(f)}

LEMMA SendableType ==
  ASSUME NEW f
  PROVE  Seq(Sendable(f)) \subseteq Seq(Instruction)
<1>1. Sendable(f) \subseteq Instruction
  BY DEF Sendable
<1> HIDE DEF Sendable
<1> QED BY <1>1

LEMMA ChunksSendable ==
  ASSUME NEW f, NEW d \in Seq(Byte), NEW lo \in Nat, NEW hi \in Nat, lo <= hi, hi <= Len(d)
  PROVE  Chunks(Slice(d, lo, hi), lo) \in Seq(Sendable(f))
<1> DEFINE cs == Chunks(Slice(d, lo, hi), lo)
<1>1. /\ cs \in Seq(Instruction)
      /\ \A k \in 1 .. Len(cs) : cs[k].isLiteral /\ Len(cs[k].data) \in 1 .. ChunkSize
  BY ChunksCover
<1> HIDE DEF cs
<1>2. ASSUME NEW k \in 1 .. Len(cs)
      PROVE  cs[k] \in Sendable(f)
  <2>1. cs[k] \in Instruction /\ cs[k].isLiteral /\ Len(cs[k].data) \in 1 .. ChunkSize
    BY <1>1, ElementOfSeq
  <2>2. Len(cs[k].data) <= Most(ChunkSize, BlockSize)
    BY <2>1, ChunkSizeAssumption, BlockSizeAssumption DEF Most
  <2> QED BY <2>1, <2>2 DEF Sendable
<1>3. cs \in Seq(Sendable(f))
  BY <1>1, <1>2, LenProperties
<1> QED BY <1>3 DEF cs

\* What has not been emitted before a match: literals, and the match.
LEMMA StepType ==
  ASSUME NEW f, NEW d \in Seq(Byte), NEW s \in ScanStates(f, d), s.lm <= s.o, NEW i \in Nat
  PROVE  /\ Chunks(Slice(d, s.lm, s.o), s.lm) \in Seq(Instruction)
         /\ Match(i, s.o) \in Instruction
         /\ Pending(d, s, i) \in Seq(Instruction)
<1> DEFINE lo == s.lm
           hi == s.o
           cs == Chunks(Slice(d, lo, hi), lo)
<1>1. lo \in Nat /\ hi \in Nat /\ lo <= hi /\ hi <= Len(d)
  BY LenProperties DEF ScanStates
<1>2. cs \in Seq(Instruction)
  <2> HIDE DEF lo, hi
  <2>1. cs \in Seq(Instruction) /\ Covers(f, d, cs, lo, hi)
    BY <1>1, ChunksCover
  <2> QED BY <2>1
<1>3. Match(i, hi) \in Instruction
  BY <1>1, EmptySeq DEF Match, Instruction
<1> HIDE DEF cs
<1>4. Append(cs, Match(i, hi)) \in Seq(Instruction)
  BY <1>2, <1>3, AppendProperties
<1> QED BY <1>2, <1>3, <1>4 DEF cs, Pending

LEMMA TailSendable ==
  ASSUME NEW f, NumBlocks(f) \in Nat, NEW d \in Seq(Byte), NEW lm \in 0 .. Len(d)
  PROVE  TailResult(f, d, lm) \in Seq(Sendable(f))
<1> DEFINE n == Len(d)
           i == lm \div BlockSize
           cs == Chunks(Slice(d, lm, n), lm)
           one == << Match(i, lm) >>
<1>1. n \in Nat /\ lm \in Nat /\ lm <= n /\ n <= Len(d) /\ i \in Nat
  BY LenProperties, BlockSizeAssumption
<1>2. cs \in Seq(Sendable(f))
  <2> HIDE DEF n
  <2> QED BY <1>1, ChunksSendable
<1>3. i < NumBlocks(f) => one \in Seq(Sendable(f))
  <2>1. Match(i, lm) \in Instruction /\ ~ Match(i, lm).isLiteral /\ Match(i, lm).blockIdx = i
    BY <1>1, EmptySeq DEF Match, Instruction
  <2> HIDE DEF i
  <2> QED BY <2>1 DEF Sendable
<1>4. (i < NumBlocks(f) /\ TailResult(f, d, lm) = one) \/ TailResult(f, d, lm) = cs
  BY DEF TailResult
<1> QED BY <1>2, <1>3, <1>4

LEMMA PendingSendable ==
  ASSUME NEW f, NumBlocks(f) \in Nat, NEW d \in Seq(Byte), NEW s \in ScanStates(f, d), s.lm <= s.o,
         NEW i \in 0 .. NumBlocks(f) - 1
  PROVE  Pending(d, s, i) \in Seq(Sendable(f))
<1> DEFINE lo == s.lm
           hi == s.o
           cs == Chunks(Slice(d, lo, hi), lo)
<1>1. /\ lo \in Nat /\ hi \in Nat /\ lo <= hi /\ hi <= Len(d)
      /\ i \in Nat /\ i < NumBlocks(f)
  BY LenProperties, BlockSizeAssumption DEF ScanStates
<1>2. cs \in Seq(Sendable(f))
  <2> HIDE DEF lo, hi
  <2> QED BY <1>1, ChunksSendable
<1>3. Match(i, hi) \in Sendable(f)
  <2>1. Match(i, hi) \in Instruction /\ ~ Match(i, hi).isLiteral /\ Match(i, hi).blockIdx = i
    BY <1>1, EmptySeq DEF Match, Instruction
  <2> QED BY <1>1, <2>1 DEF Sendable
<1> HIDE DEF cs
<1>4. Append(cs, Match(i, hi)) \in Seq(Sendable(f))
  BY <1>2, <1>3, AppendProperties
<1> QED BY <1>4 DEF cs, Pending

LEMMA ScannerSendable ==
  ASSUME NEW f, NumBlocks(f) \in Nat, NEW d \in Seq(Byte), NEW known, AreBlocks(f, known),
         NEW s \in ScanStates(f, d), s.lm <= s.o
  PROVE  Scanner(f, known, d)[s] \in Seq(Sendable(f))
<1> DEFINE N == Len(d)
           g == Scanner(f, known, d)
           P == {m \in 0 .. N : \A t \in ScanStates(f, d) :
                   t.lm <= t.o /\ t.o + m >= N => g[t] \in Seq(Sendable(f))}
<1>0. N \in Nat /\ BlockSize \in Nat \ {0} /\ NumBlocks(f) \in Nat
  BY LenProperties, BlockSizeAssumption
<1>1. ASSUME NEW t \in ScanStates(f, d), t.o + BlockSize > N
      PROVE  g[t] \in Seq(Sendable(f))
  <2>1. t.lm \in 0 .. Len(d)
    BY DEF ScanStates
  <2> QED BY <1>1, <2>1, ScannerEnds, TailSendable
<1>2. 0 \in P
  <2>1. ASSUME NEW t \in ScanStates(f, d), t.o + 0 >= N
        PROVE  t.o + BlockSize > N
    BY <1>0, <2>1 DEF ScanStates
  <2> HIDE DEF g
  <2> QED BY <1>0, <1>1, <2>1
<1>3. ASSUME NEW m \in 0 .. N - 1, m \in P
      PROVE  m + 1 \in P
  <2> SUFFICES ASSUME NEW t \in ScanStates(f, d), t.lm <= t.o, t.o + (m + 1) >= N
               PROVE  g[t] \in Seq(Sendable(f))
    BY <1>0
  <2> DEFINE w == Slice(d, t.o, t.o + BlockSize)
  <2>0. t.o \in Nat /\ t.lm \in Nat /\ m \in Nat
    BY <1>0 DEF ScanStates
  <2>1. CASE t.o + BlockSize > N
    BY <1>1, <2>1
  <2>2. CASE t.o + BlockSize <= N /\ Candidates(f, known, w) = {}
    <3> DEFINE u == Missed(t)
    <3>1. /\ u \in ScanStates(f, d) /\ u.o = t.o + 1
          /\ u = [o |-> t.o + 1, lm |-> t.lm, want |-> t.want]
      BY <2>2, MissGoesOn
    <3>2. u.lm <= u.o /\ u.o + m >= N
      BY <1>0, <2>0, <3>1
    <3>3. g[u] \in Seq(Sendable(f))
      BY <1>3, <3>1, <3>2
    <3>4. g[t] = g[u]
      BY <2>2, ScannerMisses
    <3> QED BY <3>3, <3>4
  <2>3. CASE t.o + BlockSize <= N /\ Candidates(f, known, w) # {}
    <3> DEFINE i == Chosen(f, known, w, t.want)
               u == After(t, i)
               cs == Pending(d, t, i)
    <3>0. w = Slice(d, t.o, t.o + BlockSize) /\ i = Chosen(f, known, w, t.want)
      OBVIOUS
    <3> HIDE DEF w, i, g
    <3>1. i \in 0 .. NumBlocks(f) - 1 /\ u \in ScanStates(f, d) /\ u.o = t.o + BlockSize
      BY <2>3, <3>0, MatchGoesOn
    <3>2. u.lm = u.o /\ u.lm <= u.o /\ u.o + m >= N
      BY <1>0, <2>0, <3>1, SMTT(30) DEF After
    <3>3. g[u] \in Seq(Sendable(f))
      BY <1>3, <3>1, <3>2
    <3>4. i \in Nat
      BY <1>0, <3>1
    <3>5. cs \in Seq(Sendable(f))
      BY <3>1, PendingSendable
    <3>6. g[t] = cs \o g[u]
      <4>1. MatchesAt(f, known, d, t, i)
        BY <2>3, <3>0 DEF MatchesAt
      <4>2. Scanner(f, known, d)[t] = SentAt(d, t, i, Scanner(f, known, d)[After(t, i)])
        BY <4>1, ScannerMatches
      <4> QED BY <4>2 DEF g, SentAt
    <3> HIDE DEF cs, u
    <3> QED BY <3>3, <3>5, <3>6, ConcatProperties
  <2> QED BY <1>0, <2>0, <2>1, <2>2, <2>3
<1> HIDE DEF P, g
<1>4. 0 .. N \subseteq P
  BY <1>0, <1>2, <1>3, Induction
<1>5. N \in P /\ s.o + N >= N
  BY <1>0, <1>4 DEF ScanStates
<1>6. g[s] \in Seq(Sendable(f))
  BY <1>5 DEF P
<1> QED BY <1>6 DEF g

LEMMA ScannerType ==
  ASSUME NEW f, NumBlocks(f) \in Nat, NEW d \in Seq(Byte), NEW known, AreBlocks(f, known),
         NEW s \in ScanStates(f, d), s.lm <= s.o
  PROVE  Scanner(f, known, d)[s] \in Seq(Instruction)
BY ScannerSendable, SendableType

-----------------------------------------------------------------------------
(* What Search computes rebuilds the source *)

\* A search that sees g in the place of f takes no string of bytes for a block
\* of f that is not one.
Shows(g, f) ==
  /\ NumBlocks(g) = NumBlocks(f)
  /\ \A i \in 0 .. NumBlocks(f) - 1 : Block(g, i) \in Seq(Byte) => Block(f, i) = Block(g, i)

LEMMA TailResultCovers ==
  ASSUME NEW f \in Seq(Byte), NEW g, Shows(g, f), NEW d \in Seq(Byte), NEW lm \in 0 .. Len(d)
  PROVE  Covers(f, d, TailResult(g, d, lm), lm, Len(d))
<1> DEFINE n == Len(d)
           i == lm \div BlockSize
           w == Slice(d, lm, n)
<1>1. n \in Nat /\ lm \in Nat /\ lm <= n /\ i \in Nat /\ n <= Len(d)
  BY LenProperties, BlockSizeAssumption
<1>2. \/ TailResult(g, d, lm) = << Match(i, lm) >> /\ Block(f, i) = w
      \/ TailResult(g, d, lm) = Chunks(w, lm)
  <2>1. \/ /\ TailResult(g, d, lm) = << Match(i, lm) >>
           /\ Block(g, i) = w /\ i < NumBlocks(g)
        \/ TailResult(g, d, lm) = Chunks(w, lm)
    BY DEF TailResult
  <2>2. w \in Seq(Byte)
    <3> HIDE DEF n
    <3> QED BY <1>1, SliceType
  <2>3. NumBlocks(f) \in Nat
    BY NumBlocksType
  <2> HIDE DEF i, w, n
  <2>4. Block(g, i) = w /\ i < NumBlocks(g) => Block(f, i) = w
    BY <1>1, <2>2, <2>3 DEF Shows
  <2> QED BY <2>1, <2>4
<1>3. CASE TailResult(g, d, lm) = << Match(i, lm) >> /\ Block(f, i) = w
  <2> HIDE DEF i, n
  <2>1. Covers(f, d, << Match(i, lm) >>, lm, n)
    BY <1>1, <1>3, MatchCovers
  <2> QED BY <1>3, <2>1 DEF n
<1>4. CASE TailResult(g, d, lm) = Chunks(w, lm)
  <2> HIDE DEF n
  <2>1. Covers(f, d, Chunks(w, lm), lm, n)
    BY <1>1, ChunksCover
  <2> QED BY <1>4, <2>1 DEF n
<1> QED BY <1>2, <1>3, <1>4

LEMMA ChosenIsWindow ==
  ASSUME NEW f, NEW known, AreBlocks(f, known), NEW w, Candidates(f, known, w) # {}, NEW want
  PROVE  Block(f, Chosen(f, known, w, want)) = w
<1> DEFINE C == Candidates(f, known, w)
<1>1. C \subseteq Nat /\ C # {} /\ \A i \in C : Block(f, i) = w
  <2>1. known \subseteq Nat
    BY DEF AreBlocks
  <2> QED BY <2>1 DEF Candidates
<1> HIDE DEF C
<1>2. \E m \in C : \A i \in C : m <= i
  BY <1>1, LeastElement
<1>3. Min(C) \in C
  BY <1>2 DEF Min
<1>4. CASE want < NumBlocks(f) /\ Block(f, want) = w
  BY <1>4 DEF Chosen
<1>5. CASE ~ (want < NumBlocks(f) /\ Block(f, want) = w)
  BY <1>1, <1>3, <1>5 DEF Chosen, C
<1> QED BY <1>4, <1>5

\* The literals before a match, and the match.
LEMMA PendingCovers ==
  ASSUME NEW f \in Seq(Byte), NEW d \in Seq(Byte),
         NEW s \in ScanStates(f, d), s.lm <= s.o, NEW i \in Nat,
         s.o + BlockSize <= Len(d), Block(f, i) = Slice(d, s.o, s.o + BlockSize)
  PROVE  Covers(f, d, Pending(d, s, i), s.lm, s.o + BlockSize)
<1> DEFINE lo == s.lm
           hi == s.o
           e == hi + BlockSize
           cs == Chunks(Slice(d, lo, hi), lo)
           one == << Match(i, hi) >>
<1>1. /\ lo \in Nat /\ hi \in Nat /\ lo <= hi /\ hi <= Len(d)
      /\ e \in Nat /\ hi <= e /\ e <= Len(d) /\ Block(f, i) = Slice(d, hi, e)
  BY LenProperties, BlockSizeAssumption DEF ScanStates
<1>2. cs \in Seq(Instruction) /\ Match(i, hi) \in Instruction /\ Pending(d, s, i) = Append(cs, Match(i, hi))
  BY StepType DEF Pending
<1> HIDE DEF lo, hi, e
<1>3. Covers(f, d, cs, lo, hi)
  BY <1>1, ChunksCover
<1>4. Covers(f, d, one, hi, e) /\ one \in Seq(Instruction)
  BY <1>1, <1>2, MatchCovers
<1> HIDE DEF cs
<1>5. Pending(d, s, i) = cs \o one
  BY <1>2, AppendIsConcat
<1> HIDE DEF one
<1>6. Covers(f, d, cs \o one, lo, e)
  BY <1>2, <1>3, <1>4, CoversConcat
<1> QED BY <1>5, <1>6 DEF lo, hi, e

\* From any state of the scan on, the rest of the source is covered.
LEMMA ScannerCovers ==
  ASSUME NEW f \in Seq(Byte), NEW seen, Shows(seen, f), NEW d \in Seq(Byte),
         NEW known, AreBlocks(f, known), NEW s \in ScanStates(f, d), s.lm <= s.o
  PROVE  Covers(f, d, Scanner(seen, known, d)[s], s.lm, Len(d))
<1> DEFINE N == Len(d)
           g == Scanner(seen, known, d)
           P == {m \in 0 .. N : \A t \in ScanStates(f, d) :
                   t.lm <= t.o /\ t.o + m >= N => Covers(f, d, g[t], t.lm, N)}
<1>0. N \in Nat /\ BlockSize \in Nat \ {0} /\ NumBlocks(f) \in Nat
  BY LenProperties, BlockSizeAssumption, NumBlocksType
<1>9. /\ NumBlocks(seen) = NumBlocks(f) /\ NumBlocks(seen) \in Nat
      /\ ScanStates(seen, d) = ScanStates(f, d) /\ AreBlocks(seen, known)
  BY <1>0 DEF Shows, ScanStates, AreBlocks
<1>1. ASSUME NEW t \in ScanStates(f, d), t.o + BlockSize > N
      PROVE  Covers(f, d, g[t], t.lm, N)
  <2>1. t.lm \in 0 .. Len(d)
    BY DEF ScanStates
  <2>2. Covers(f, d, TailResult(seen, d, t.lm), t.lm, N)
    BY <2>1, TailResultCovers
  <2>3. g[t] = TailResult(seen, d, t.lm)
    BY <1>1, <1>9, ScannerEnds
  <2> QED BY <2>2, <2>3
<1>2. 0 \in P
  <2>1. ASSUME NEW t \in ScanStates(f, d), t.o + 0 >= N
        PROVE  t.o + BlockSize > N
    BY <1>0, <2>1 DEF ScanStates
  <2> HIDE DEF g
  <2> QED BY <1>0, <1>1, <2>1
<1>3. ASSUME NEW m \in 0 .. N - 1, m \in P
      PROVE  m + 1 \in P
  <2> SUFFICES ASSUME NEW t \in ScanStates(f, d), t.lm <= t.o, t.o + (m + 1) >= N
               PROVE  Covers(f, d, g[t], t.lm, N)
    BY <1>0
  <2> DEFINE w == Slice(d, t.o, t.o + BlockSize)
  <2>0. t.o \in Nat /\ t.lm \in Nat /\ m \in Nat
    BY <1>0 DEF ScanStates
  <2>1. CASE t.o + BlockSize > N
    BY <1>1, <2>1
  <2>2. CASE t.o + BlockSize <= N /\ Candidates(seen, known, w) = {}
    <3> DEFINE u == Missed(t)
    <3>1. /\ u \in ScanStates(f, d) /\ u.o = t.o + 1
          /\ u = [o |-> t.o + 1, lm |-> t.lm, want |-> t.want]
      BY <2>2, MissGoesOn
    <3>2. u.lm = t.lm /\ u.lm <= u.o /\ u.o + m >= N
      BY <1>0, <2>0, <3>1
    <3>3. g[t] = g[u]
      BY <1>9, <2>2, ScannerMisses
    <3> HIDE DEF u, g
    <3>4. Covers(f, d, g[u], u.lm, N)
      BY <1>3, <3>1, <3>2
    <3> QED BY <3>2, <3>3, <3>4
  <2>3. CASE t.o + BlockSize <= N /\ Candidates(seen, known, w) # {}
    <3> DEFINE i == Chosen(seen, known, w, t.want)
               u == After(t, i)
               cs == Pending(d, t, i)
               e == t.o + BlockSize
    <3>0. w = Slice(d, t.o, t.o + BlockSize) /\ i = Chosen(seen, known, w, t.want)
      OBVIOUS
    <3>a. Block(seen, i) = w
      BY <1>9, <2>3, ChosenIsWindow
    <3>b. w \in Seq(Byte)
      <4> DEFINE x == t.o + BlockSize
      <4>1. x \in Nat /\ t.o <= x /\ x <= Len(d) /\ w = Slice(d, t.o, x)
        BY <1>0, <2>0, <2>3
      <4> HIDE DEF x, w
      <4> QED BY <2>0, <4>1, SliceType
    <3> HIDE DEF w, i, g
    <3>2. i \in 0 .. NumBlocks(f) - 1 /\ u \in ScanStates(f, d) /\ u.o = t.o + BlockSize
      <4>1. i \in 0 .. NumBlocks(seen) - 1 /\ u \in ScanStates(seen, d) /\ u.o = t.o + BlockSize
        BY <1>9, <2>3, <3>0, MatchGoesOn
      <4> QED BY <1>9, <4>1
    <3>1. Block(f, i) = w
      BY <3>a, <3>b, <3>2 DEF Shows
    <3>3. u.lm = e /\ u.lm <= u.o /\ u.o + m >= N
      BY <1>0, <2>0, <3>2, SMTT(30) DEF After
    <3>4. i \in Nat /\ t.o + BlockSize <= Len(d)
      BY <1>0, <2>3, <3>2
    <3>5. cs \in Seq(Instruction) /\ Covers(f, d, cs, t.lm, e)
      BY <3>0, <3>1, <3>4, StepType, PendingCovers
    <3>6. g[t] = cs \o g[u]
      <4>1. MatchesAt(seen, known, d, t, i)
        BY <2>3, <3>0 DEF MatchesAt
      <4>2. Scanner(seen, known, d)[t] = SentAt(d, t, i, Scanner(seen, known, d)[After(t, i)])
        BY <1>9, <4>1, ScannerMatches
      <4> QED BY <4>2 DEF g, SentAt
    <3>7. g[u] \in Seq(Instruction)
      BY <1>9, <3>2, <3>3, ScannerType DEF g
    <3> HIDE DEF cs, u, e
    <3>8. Covers(f, d, g[u], e, N)
      <4>1. Covers(f, d, g[u], u.lm, N)
        BY <1>3, <3>2, <3>3
      <4> QED BY <3>3, <4>1
    <3>9. Covers(f, d, cs \o g[u], t.lm, N)
      BY <3>5, <3>7, <3>8, CoversConcat
    <3> QED BY <3>6, <3>9
  <2> QED BY <1>0, <2>0, <2>1, <2>2, <2>3
<1> HIDE DEF P, g
<1>4. 0 .. N \subseteq P
  BY <1>0, <1>2, <1>3, Induction
<1>5. N \in P /\ s.o + N >= N
  BY <1>0, <1>4 DEF ScanStates
<1>6. Covers(f, d, g[s], s.lm, N)
  BY <1>5 DEF P
<1> QED BY <1>6 DEF g

LEMMA SearchSendable ==
  ASSUME NEW f, NumBlocks(f) \in Nat, NEW d \in Seq(Byte), NEW known, AreBlocks(f, known)
  PROVE  SearchResult(f, known, d) \in Seq(Sendable(f))
<1> DEFINE s == [o |-> 0, lm |-> 0, want |-> 0]
           n == Len(d)
<1>1. n \in Nat /\ 0 \in Nat /\ 0 <= n /\ n <= Len(d) /\ NumBlocks(f) \in Nat
  BY LenProperties, BlockSizeAssumption
<1>2. s \in ScanStates(f, d) /\ s.lm <= s.o
  BY <1>1 DEF ScanStates
<1>3. SearchResult(f, known, d) = IF NumBlocks(f) = 0 \/ Len(d) < BlockSize
                                  THEN Chunks(d, 0) ELSE Scanner(f, known, d)[s]
  BY Zenon DEF SearchResult, Scanner
<1>4. Chunks(d, 0) \in Seq(Sendable(f))
  <2> HIDE DEF n
  <2>1. Chunks(Slice(d, 0, n), 0) \in Seq(Sendable(f))
    BY <1>1, ChunksSendable
  <2>2. Slice(d, 0, n) = d
    BY SubSeqFull DEF Slice, n
  <2> QED BY <2>1, <2>2
<1> HIDE DEF s
<1>5. Scanner(f, known, d)[s] \in Seq(Sendable(f))
  BY <1>2, ScannerSendable
<1> QED BY <1>3, <1>4, <1>5

\* A whole file as literals.
LEMMA ChunksRebuild ==
  ASSUME NEW f \in Seq(Byte), NEW d \in Seq(Byte)
  PROVE  Chunks(d, 0) \in Seq(Instruction) /\ Covers(f, d, Chunks(d, 0), 0, Len(d))
<1> DEFINE n == Len(d)
<1>1. n \in Nat /\ 0 \in Nat /\ 0 <= n /\ n <= Len(d)
  BY LenProperties
<1>2. Slice(d, 0, n) = d
  BY SubSeqFull DEF Slice
<1> HIDE DEF n
<1>3. /\ Chunks(Slice(d, 0, n), 0) \in Seq(Instruction)
      /\ Covers(f, d, Chunks(Slice(d, 0, n), 0), 0, n)
  BY <1>1, ChunksCover
<1> QED BY <1>2, <1>3 DEF n

\* What Search returns rebuilds all of the source, whichever blocks the table
\* leads to, and whatever of the basis the search can see.
LEMMA SeenRebuilds ==
  ASSUME NEW f \in Seq(Byte), NEW seen, Shows(seen, f), NEW d \in Seq(Byte),
         NEW known, AreBlocks(f, known)
  PROVE  /\ SearchResult(seen, known, d) \in Seq(Instruction)
         /\ Rebuilds(f, d, SearchResult(seen, known, d), Len(d))
<1> DEFINE s == [o |-> 0, lm |-> 0, want |-> 0]
           n == Len(d)
<1>1. n \in Nat /\ 0 \in Nat /\ 0 <= n /\ n <= Len(d) /\ NumBlocks(f) \in Nat
  BY LenProperties, BlockSizeAssumption, NumBlocksType
<1>0. /\ NumBlocks(seen) = NumBlocks(f) /\ NumBlocks(seen) \in Nat
      /\ ScanStates(seen, d) = ScanStates(f, d) /\ AreBlocks(seen, known)
  BY <1>1 DEF Shows, ScanStates, AreBlocks
<1>2. s \in ScanStates(f, d) /\ s.lm <= s.o /\ s.lm = 0
  BY <1>1 DEF ScanStates
<1>3. SearchResult(seen, known, d) = IF NumBlocks(seen) = 0 \/ Len(d) < BlockSize
                                     THEN Chunks(d, 0) ELSE Scanner(seen, known, d)[s]
  BY Zenon DEF SearchResult, Scanner
<1>4. Chunks(d, 0) \in Seq(Instruction) /\ Covers(f, d, Chunks(d, 0), 0, Len(d))
  BY ChunksRebuild
<1> HIDE DEF s
<1>5. /\ Scanner(seen, known, d)[s] \in Seq(Instruction)
      /\ Covers(f, d, Scanner(seen, known, d)[s], 0, Len(d))
  BY <1>0, <1>2, ScannerType, ScannerCovers
<1> QED BY <1>3, <1>4, <1>5 DEF Rebuilds

LEMMA SearchRebuilds ==
  ASSUME NEW f \in Seq(Byte), NEW d \in Seq(Byte), NEW known, AreBlocks(f, known)
  PROVE  /\ SearchResult(f, known, d) \in Seq(Instruction)
         /\ Rebuilds(f, d, SearchResult(f, known, d), Len(d))
<1>1. Shows(f, f)
  BY DEF Shows
<1> QED BY <1>1, SeenRebuilds

-----------------------------------------------------------------------------
(* Lists put together from pieces *)

\* g has the first m pieces of p, joined.
Joins(p, m, g) == \A i \in 1 .. m : g[i] = IF i = 1 THEN p[i] ELSE g[i - 1] \o p[i]

LEMMA JoinsExist ==
  ASSUME NEW p, NEW N \in Nat
  PROVE  \E g : Joins(p, N, g)
<1> DEFINE P == {m \in 0 .. N : \E g : Joins(p, m, g)}
<1>1. 0 \in P
  BY DEF Joins
<1>2. ASSUME NEW m \in 0 .. N - 1, m \in P
      PROVE  m + 1 \in P
  <2>1. PICK g : Joins(p, m, g)
    BY <1>2
  <2> DEFINE last == IF m + 1 = 1 THEN p[m + 1] ELSE g[m] \o p[m + 1]
             h == [i \in 1 .. m + 1 |-> IF i <= m THEN g[i] ELSE last]
  <2>2. \A i \in 1 .. m : h[i] = g[i]
    OBVIOUS
  <2>3. h[m + 1] = last
    OBVIOUS
  <2> HIDE DEF h
  <2>4. ASSUME NEW i \in 1 .. m + 1
        PROVE  h[i] = IF i = 1 THEN p[i] ELSE h[i - 1] \o p[i]
    <3>1. CASE i <= m
      <4>1. i \in 1 .. m /\ (i # 1 => i - 1 \in 1 .. m)
        BY <3>1
      <4>2. g[i] = IF i = 1 THEN p[i] ELSE g[i - 1] \o p[i]
        BY <2>1, <4>1 DEF Joins
      <4> QED BY <2>2, <4>1, <4>2
    <3>2. CASE i = m + 1
      <4>1. i # 1 => m \in 1 .. m /\ i - 1 = m
        BY <3>2
      <4> QED BY <2>2, <2>3, <3>2, <4>1
    <3> QED BY <3>1, <3>2
  <2>5. Joins(p, m + 1, h)
    BY <2>4 DEF Joins
  <2> QED BY <2>5
<1> HIDE DEF P
<1>3. 0 .. N \subseteq P
  BY <1>1, <1>2, Induction
<1> QED BY <1>3 DEF P

\* The pieces of p joined one after another end in FlattenSeq(p).
LEMMA FlattenJoins ==
  ASSUME NEW p, Len(p) \in Nat \ {0}
  PROVE  \E g : Joins(p, Len(p), g) /\ FlattenSeq(p) = g[Len(p)]
<1> DEFINE Body(g) == [i \in 1 .. Len(p) |-> IF i = 1 THEN p[i] ELSE g[i - 1] \o p[i]]
           r == CHOOSE g : g = Body(g)
<1>1. PICK g : Joins(p, Len(p), g)
  BY JoinsExist
<1> DEFINE h == [i \in 1 .. Len(p) |-> g[i]]
<1>2. h = Body(h)
  <2>1. ASSUME NEW i \in 1 .. Len(p)
        PROVE  h[i] = IF i = 1 THEN p[i] ELSE h[i - 1] \o p[i]
    <3>1. g[i] = IF i = 1 THEN p[i] ELSE g[i - 1] \o p[i]
      BY <1>1 DEF Joins
    <3>2. i # 1 => i - 1 \in 1 .. Len(p)
      OBVIOUS
    <3> QED BY <3>1, <3>2
  <2>2. h = [i \in 1 .. Len(p) |-> h[i]]
    OBVIOUS
  <2> HIDE DEF h
  <2>3. Body(h) = [i \in 1 .. Len(p) |-> h[i]]
    BY <2>1, Zenon
  <2> QED BY <2>2, <2>3
<1>3. r = Body(r)
  <2> HIDE DEF Body, h
  <2> QED BY <1>2
<1>4. FlattenSeq(p) = r[Len(p)]
  <2>1. Len(p) # 0
    OBVIOUS
  <2> QED BY <2>1, Zenon DEF FlattenSeq
<1> HIDE DEF r
<1>5. ASSUME NEW i \in 1 .. Len(p)
      PROVE  Body(r)[i] = IF i = 1 THEN p[i] ELSE r[i - 1] \o p[i]
  OBVIOUS
<1> HIDE DEF Body
<1>6. Joins(p, Len(p), r)
  BY <1>3, <1>5 DEF Joins
<1> QED BY <1>4, <1>6

LEMMA FlattenType ==
  ASSUME NEW S, NEW p \in Seq(Seq(S))
  PROVE  FlattenSeq(p) \in Seq(S)
<1> DEFINE N == Len(p)
<1>1. N \in Nat
  BY LenProperties
<1>2. CASE N = 0
  <2>1. p = << >>
    BY <1>2, EmptySeq
  <2> QED BY <1>2, <2>1, EmptySeq DEF FlattenSeq
<1>3. CASE N # 0
  <2>1. PICK g : Joins(p, N, g) /\ FlattenSeq(p) = g[N]
    BY <1>1, <1>3, FlattenJoins
  <2> DEFINE P == {m \in 0 .. N : m # 0 => g[m] \in Seq(S)}
  <2>2. 0 \in P
    BY <1>1
  <2>3. ASSUME NEW m \in 0 .. N - 1, m \in P
        PROVE  m + 1 \in P
    <3>1. p[m + 1] \in Seq(S)
      BY <1>1, ElementOfSeq
    <3>2. m + 1 \in 1 .. N /\ (m + 1 = 1 <=> m = 0) /\ m + 1 - 1 = m
      BY <1>1
    <3>3. g[m + 1] = IF m = 0 THEN p[m + 1] ELSE g[m] \o p[m + 1]
      BY <2>1, <3>2 DEF Joins
    <3>4. g[m + 1] \in Seq(S)
      BY <2>3, <3>1, <3>3, ConcatProperties
    <3> QED BY <3>2, <3>4
  <2> HIDE DEF P
  <2>4. 0 .. N \subseteq P
    BY <1>1, <2>2, <2>3, Induction
  <2>5. N \in P
    BY <1>1, <2>4
  <2> QED BY <1>3, <2>1, <2>5 DEF P
<1> QED BY <1>2, <1>3

\* Piece k of p covers the source from at[k] to at[k + 1].
PiecesCover(b, d, p, at) ==
  \A k \in 1 .. Len(p) : Covers(b, d, p[k], at[k], at[k + 1])

\* Pieces that follow each other cover the source together.
LEMMA FlattenCovers ==
  ASSUME NEW b, NEW d \in Seq(Byte), NEW p \in Seq(Seq(Instruction)), NEW at,
         PiecesCover(b, d, p, at)
  PROVE  Covers(b, d, FlattenSeq(p), at[1], at[Len(p) + 1])
<1> DEFINE N == Len(p)
<1>1. N \in Nat
  BY LenProperties
<1>2. CASE N = 0
  <2>1. p = << >> /\ N + 1 = 1
    BY <1>2, EmptySeq
  <2>2. FlattenSeq(p) = << >>
    BY <1>2, <2>1 DEF FlattenSeq
  <2> QED BY <2>1, <2>2, CoversNone
<1>3. CASE N # 0
  <2>1. PICK g : Joins(p, N, g) /\ FlattenSeq(p) = g[N]
    BY <1>1, <1>3, FlattenJoins
  <2> DEFINE P == {m \in 0 .. N : m # 0 => /\ g[m] \in Seq(Instruction)
                                           /\ Covers(b, d, g[m], at[1], at[m + 1])}
  <2>2. 0 \in P
    BY <1>1
  <2>3. ASSUME NEW m \in 0 .. N - 1, m \in P
        PROVE  m + 1 \in P
    <3> DEFINE j == m + 1
    <3>1. j \in 1 .. N /\ (j = 1 <=> m = 0) /\ j - 1 = m /\ j # 0 /\ j \in 0 .. N
      BY <1>1
    <3>2. p[j] \in Seq(Instruction) /\ Covers(b, d, p[j], at[j], at[j + 1])
      BY <3>1, ElementOfSeq DEF PiecesCover
    <3>3. g[j] = IF m = 0 THEN p[j] ELSE g[m] \o p[j]
      BY <2>1, <3>1 DEF Joins
    <3>4. m # 0 => g[m] \in Seq(Instruction) /\ Covers(b, d, g[m], at[1], at[j])
      BY <2>3
    <3> HIDE DEF j
    <3>5. CASE m = 0
      <4>1. j = 1 /\ g[j] = p[j]
        BY <3>1, <3>3, <3>5
      <4> QED BY <3>1, <3>2, <4>1 DEF j
    <3>6. CASE m # 0
      <4>1. g[j] = g[m] \o p[j]
        BY <3>3, <3>6
      <4>2. Covers(b, d, g[m] \o p[j], at[1], at[j + 1])
        BY <3>2, <3>4, <3>6, CoversConcat
      <4>3. g[m] \o p[j] \in Seq(Instruction)
        BY <3>2, <3>4, <3>6, ConcatProperties
      <4> QED BY <3>1, <4>1, <4>2, <4>3 DEF j
    <3> QED BY <3>5, <3>6
  <2> HIDE DEF P
  <2>4. 0 .. N \subseteq P
    BY <1>1, <2>2, <2>3, Induction
  <2>5. N \in P
    BY <1>1, <2>4
  <2>6. Covers(b, d, g[N], at[1], at[N + 1])
    BY <1>3, <2>5 DEF P
  <2> QED BY <2>1, <2>6
<1> QED BY <1>2, <1>3

-----------------------------------------------------------------------------
(* What SearchParallel computes rebuilds the source *)

\* The segments are not empty, follow each other and end with the data.
LEMMA SegmentBounds ==
  ASSUME NEW d \in Seq(Byte), d # << >>, NEW n \in Nat \ {0}
  PROVE  /\ SegmentSize(d, n) \in Nat \ {0} /\ WorkerCount(d, n) \in Nat \ {0}
         /\ \A i \in 0 .. WorkerCount(d, n) - 1 :
              /\ i * SegmentSize(d, n) \in Nat /\ SegmentEnd(d, n, i) \in Nat
              /\ i * SegmentSize(d, n) < SegmentEnd(d, n, i)
              /\ SegmentEnd(d, n, i) <= Len(d)
              /\ i < WorkerCount(d, n) - 1 => SegmentEnd(d, n, i) = (i + 1) * SegmentSize(d, n)
              /\ i = WorkerCount(d, n) - 1 => SegmentEnd(d, n, i) = Len(d)
<1> DEFINE L == Len(d)
           q == (L + n - 1) \div n
           m == (q + BlockSize - 1) \div BlockSize
           c == m * BlockSize
           e == (L + c - 1) \div c
           W == WorkerCount(d, n)
<1>1. L \in Nat /\ L > 0 /\ BlockSize \in Nat \ {0}
  BY LenProperties, EmptySeq, BlockSizeAssumption
<1>2. q \in Nat /\ (q - 1) * n < L /\ L <= q * n
  BY <1>1, RoundedDivision
<1>3. q # 0
  <2> HIDE DEF q
  <2>1. q = 0 => q * n = 0
    OBVIOUS
  <2> QED BY <1>1, <1>2, <2>1
<1>4. m \in Nat /\ q <= m * BlockSize
  <2> HIDE DEF q
  <2> QED BY <1>1, <1>2, RoundedDivision
<1>5. c \in Nat \ {0} /\ q <= c
  <2> HIDE DEF q, m
  <2>1. c \in Nat
    BY <1>1, <1>4
  <2> QED BY <1>2, <1>3, <1>4, <2>1
<1>6. SegmentSize(d, n) = c
  BY DEF SegmentSize
<1> HIDE DEF q, m, c
<1>7. e \in Nat /\ (e - 1) * c < L /\ L <= e * c
  BY <1>1, <1>5, RoundedDivision
<1>8. W = Least(n, e)
  BY <1>6 DEF WorkerCount
<1>9. L <= n * c
  <2>1. q * n <= c * n
    BY <1>2, <1>5, ScaleMonotone
  <2>2. c * n = n * c /\ q * n \in Nat /\ n * c \in Nat
    BY <1>2, <1>5
  <2> QED BY <1>1, <1>2, <2>1, <2>2
<1> HIDE DEF e, W
<1>10. e # 0
  <2>1. e = 0 => e * c = 0
    BY <1>5
  <2> QED BY <1>1, <1>7, <2>1
<1>11. W \in Nat \ {0} /\ W <= e /\ L <= W * c
  BY <1>7, <1>8, <1>9, <1>10 DEF Least
<1>12. ASSUME NEW i \in 0 .. W - 1
       PROVE  /\ i * c \in Nat /\ SegmentEnd(d, n, i) \in Nat
              /\ i * c < SegmentEnd(d, n, i) /\ SegmentEnd(d, n, i) <= L
              /\ i < W - 1 => SegmentEnd(d, n, i) = (i + 1) * c
              /\ i = W - 1 => SegmentEnd(d, n, i) = L
  <2> DEFINE lo == i * c
             hi == (i + 1) * c
             most == (e - 1) * c
  <2>1. i \in Nat /\ i <= e - 1 /\ e - 1 \in Int
    BY <1>7, <1>11
  <2>2. lo \in Nat /\ hi = lo + c
    BY <1>5, <2>1
  <2>3. lo <= most /\ most \in Int
    BY <1>5, <2>1, ScaleMonotone
  <2>4. SegmentEnd(d, n, i) = Least(hi, L)
    BY <1>6 DEF SegmentEnd
  <2>5. i < W - 1 => hi <= most
    <3> SUFFICES ASSUME i < W - 1 PROVE hi <= most
      OBVIOUS
    <3>1. i + 1 \in Int /\ i + 1 <= e - 1
      BY <1>7, <1>11, <2>1
    <3> QED BY <1>5, <2>1, <3>1, ScaleMonotone
  <2>6. i = W - 1 => hi = W * c
    BY <1>11
  <2> HIDE DEF lo, hi, most
  <2>7. /\ lo \in Nat /\ SegmentEnd(d, n, i) \in Nat
        /\ lo < SegmentEnd(d, n, i) /\ SegmentEnd(d, n, i) <= L
    BY <1>1, <1>5, <1>7, <2>2, <2>3, <2>4 DEF Least, most
  <2>8. i < W - 1 => SegmentEnd(d, n, i) = hi
    BY <1>1, <1>7, <2>2, <2>3, <2>4, <2>5 DEF Least, most
  <2>9. i = W - 1 => SegmentEnd(d, n, i) = L
    <3> SUFFICES ASSUME i = W - 1 PROVE SegmentEnd(d, n, i) = L
      OBVIOUS
    <3>1. L <= hi
      BY <1>11, <2>6
    <3> QED BY <1>1, <2>2, <2>4, <3>1, <1>5 DEF Least
  <2> QED BY <2>7, <2>8, <2>9 DEF lo, hi
<1> QED BY <1>5, <1>6, <1>11, <1>12 DEF L, W

\* t with its offsets moved by a.
Shifted(t, a) == [k \in DOMAIN t |-> [t[k] EXCEPT !.offset = @ + a]]

\* What covers a slice of the source covers the source at its place.
LEMMA ShiftedCovers ==
  ASSUME NEW f \in Seq(Byte), NEW d \in Seq(Byte), NEW a \in Nat, NEW b \in Nat,
         a <= b, b <= Len(d), NEW t \in Seq(Instruction), NEW lo \in Nat, NEW hi \in Nat,
         Covers(f, Slice(d, a, b), t, lo, hi)
  PROVE  /\ Shifted(t, a) \in Seq(Instruction) /\ Len(Shifted(t, a)) = Len(t)
         /\ Covers(f, d, Shifted(t, a), a + lo, a + hi)
<1> DEFINE u == Shifted(t, a)
           w == Slice(d, a, b)
<1>1. DOMAIN t = 1 .. Len(t) /\ Len(t) \in Nat
  BY LenProperties
<1>2. w \in Seq(Byte) /\ Len(w) = b - a /\ Len(d) \in Nat
  BY SliceType, LenProperties, ZenonT(60)
<1>3. ASSUME NEW k \in 1 .. Len(t)
      PROVE  /\ u[k] \in Instruction /\ u[k].offset = t[k].offset + a
             /\ EndOf(f, u[k]) = EndOf(f, t[k]) + a
             /\ EndOf(f, u[k]) <= Len(d)
             /\ Apply(f, u[k]) = Slice(d, u[k].offset, EndOf(f, u[k]))
  <2> DEFINE r == t[k]
             o == r.offset
             e == EndOf(f, r)
             x == Apply(f, r)
  <2>1. r \in Instruction /\ o \in Nat
    <3>1. r \in Instruction
      BY ElementOfSeq
    <3> HIDE DEF r
    <3> QED BY <3>1 DEF Instruction
  <2>2. u[k] = [r EXCEPT !.offset = @ + a]
    BY <1>1 DEF Shifted
  <2>3. /\ u[k] \in Instruction /\ u[k].offset = o + a
        /\ u[k].isLiteral = r.isLiteral /\ u[k].data = r.data /\ u[k].blockIdx = r.blockIdx
    <3> HIDE DEF r, u
    <3>1. o + a \in Nat
      BY <2>1
    <3> HIDE DEF o
    <3>2. u[k] = [r EXCEPT !.offset = o + a]
      BY <2>2 DEF o
    <3> QED BY <2>1, <3>1, <3>2 DEF Instruction
  <2>4. Apply(f, u[k]) = x
    BY <2>3 DEF Apply
  <2>5. x \in Seq(Byte) /\ e = o + Len(x) /\ e <= b - a /\ x = Slice(w, o, e)
    <3>1. x \in Seq(Byte)
      BY <2>1, BlockIsBytes DEF Apply, Instruction
    <3>2. e <= Len(w) /\ x = Slice(w, o, e)
      BY DEF Covers
    <3> QED BY <1>2, <3>1, <3>2 DEF EndOf
  <2> HIDE DEF u, r, o, e, x
  <2>6. Len(x) \in Nat
    BY <2>5, LenProperties
  <2>7. e \in Nat /\ o <= e /\ EndOf(f, u[k]) = e + a /\ e + a <= Len(d)
    BY <1>2, <2>1, <2>3, <2>4, <2>5, <2>6, SMTT(30) DEF EndOf
  <2>8. Slice(w, o, e) = Slice(d, a + o, a + e)
    <3>1. /\ d \in Seq(Byte) /\ a \in Nat /\ b \in Nat /\ a <= b /\ b <= Len(d)
          /\ o \in Nat /\ e \in Nat /\ o <= e /\ e <= b - a
      BY <2>1, <2>5, <2>7
    <3>2. Slice(Slice(d, a, b), o, e) = Slice(d, a + o, a + e)
      BY ONLY <3>1, SliceSlice
    <3> QED BY <3>2 DEF w
  <2>9. a + o = o + a /\ a + e = e + a
    BY <2>1, <2>7
  <2> QED BY <2>3, <2>4, <2>5, <2>7, <2>8, <2>9 DEF r, o, e
<1>4. u \in Seq(Instruction) /\ Len(u) = Len(t)
  <2>1. u = [k \in 1 .. Len(t) |-> u[k]]
    BY <1>1 DEF Shifted
  <2> HIDE DEF u
  <2>2. u \in [1 .. Len(t) -> Instruction]
    BY <1>3, <2>1
  <2> QED BY <1>1, <2>2, LenProperties
<1>5. t = << >> <=> u = << >>
  <2> HIDE DEF u
  <2> QED BY <1>4, EmptySeq
<1>6. \A k \in 1 .. Len(t) - 1 : t[k + 1].offset = EndOf(f, t[k])
  BY DEF Covers
<1> HIDE DEF u
<1>7. \A k \in 1 .. Len(u) - 1 : u[k + 1].offset = EndOf(f, u[k])
  <2> SUFFICES ASSUME NEW k \in 1 .. Len(t) - 1 PROVE u[k + 1].offset = EndOf(f, u[k])
    BY <1>4
  <2>1. k \in 1 .. Len(t) /\ k + 1 \in 1 .. Len(t)
    BY <1>1
  <2>2. t[k + 1].offset = EndOf(f, t[k])
    BY <1>6
  <2> QED BY <1>3, <2>1, <2>2
<1>8. CASE t = << >>
  <2>1. u = << >> /\ lo = hi
    BY <1>5, <1>8 DEF Covers
  <2>2. Covers(f, d, u, a + lo, a + hi)
    BY <2>1, CoversNone
  <2> QED BY <1>4, <2>2 DEF u
<1>9. CASE t # << >>
  <2>1. 1 \in 1 .. Len(t) /\ Len(t) \in 1 .. Len(t)
    BY <1>1, <1>9, EmptySeq
  <2>2. t[1].offset = lo /\ EndOf(f, t[Len(t)]) = hi
    BY <1>9 DEF Covers
  <2>3. u[1].offset = a + lo /\ EndOf(f, u[Len(u)]) = a + hi
    BY <1>3, <1>4, <2>1, <2>2
  <2>4. Covers(f, d, u, a + lo, a + hi)
    BY <1>3, <1>4, <1>5, <1>7, <1>9, <2>3 DEF Covers
  <2> QED BY <1>4, <2>4 DEF u
<1> QED BY <1>8, <1>9

\* What is kept of a result covers its part of the segment.
LEMMA KeptCovers ==
  ASSUME NEW f \in Seq(Byte), NEW d \in Seq(Byte), NEW end \in Nat, end <= Len(d),
         NEW r \in Instruction, EndOf(f, r) <= Len(d),
         Apply(f, r) = Slice(d, r.offset, EndOf(f, r))
  PROVE  /\ Kept(f, d, end, r) \in Seq(Instruction)
         /\ Covers(f, d, Kept(f, d, end, r), Least(r.offset, end), Least(EndOf(f, r), end))
<1> DEFINE o == r.offset
           e == EndOf(f, r)
           x == Apply(f, r)
           t == Trimmed(f, d, end, r)
<1>1. o \in Nat /\ r.data \in Seq(Byte) /\ x \in Seq(Byte)
  BY BlockIsBytes DEF Apply, Instruction
<1>2. e = o + Len(x) /\ Len(x) \in Nat
  BY <1>1, LenProperties DEF EndOf
<1> HIDE DEF o, e, x
<1>3. e \in Nat /\ o <= e /\ e <= Len(d) /\ x = Slice(d, o, e)
  BY <1>1, <1>2 DEF o, e, x
<1>4. CASE ~ (o < end)
  <2>1. Kept(f, d, end, r) = << >> /\ Least(o, end) = end /\ Least(e, end) = end
    BY <1>1, <1>3, <1>4 DEF Kept, Least, o
  <2>2. << >> \in Seq(Instruction)
    OBVIOUS
  <2> QED BY <2>1, <2>2, CoversNone DEF o, e
<1>5. CASE o < end
  <2> DEFINE hi == Least(e, end)
  <2>1. Kept(f, d, end, r) = << t >> /\ Least(o, end) = o
    BY <1>1, <1>5 DEF Kept, Least, o
  <2>2. hi \in Nat /\ o <= hi /\ hi <= Len(d) /\ hi <= e /\ hi <= end
    BY <1>1, <1>3, <1>5 DEF Least
  <2>3. t \in Instruction /\ t.offset = o /\ Apply(f, t) = Slice(d, o, hi)
    <3>1. CASE r.isLiteral
      <4> DEFINE n == Least(Len(r.data), end - r.offset)
      <4>1. x = r.data
        BY <3>1 DEF x, Apply
      <4>2. n \in Nat /\ o + n = hi /\ 0 + n = n /\ o + 0 = o /\ n <= e - o
        <5>1. n = Least(Len(x), end - o) /\ e = o + Len(x) /\ Len(x) \in Nat
          BY <1>2, <4>1 DEF o
        <5> HIDE DEF n
        <5> QED BY <1>1, <1>5, <5>1 DEF Least
      <4> HIDE DEF n, hi
      <4>3. Slice(r.data, 0, n) = Slice(d, o, hi)
        <5>1. Slice(Slice(d, o, e), 0, n) = Slice(d, o + 0, o + n)
          BY <1>1, <1>3, <4>2, SliceSlice
        <5> QED BY <1>3, <4>1, <4>2, <5>1
      <4>4. t = [r EXCEPT !.data = Slice(r.data, 0, n)]
        BY <3>1 DEF Trimmed, n
      <4> DEFINE y == Slice(d, o, hi)
      <4>5. y \in Seq(Byte)
        BY <1>1, <2>2, SliceType, ZenonT(60)
      <4> HIDE DEF y, t
      <4>6. t = [r EXCEPT !.data = y]
        BY <4>3, <4>4 DEF y
      <4>7. t \in Instruction /\ t.offset = o /\ t.isLiteral /\ t.data = y
        BY <3>1, <4>5, <4>6 DEF Instruction, o
      <4> QED BY <4>7 DEF Apply, t, y
    <3>2. CASE ~ r.isLiteral /\ e > end
      <4>1. t = Literal(Slice(d, o, end), o) /\ hi = end
        BY <1>3, <3>2 DEF Trimmed, Least, o, e
      <4> HIDE DEF hi
      <4> DEFINE y == Slice(d, o, hi)
      <4>2. y \in Seq(Byte)
        BY <1>1, <2>2, SliceType, ZenonT(60)
      <4> HIDE DEF y, t
      <4>3. t = Literal(y, o)
        BY <4>1 DEF y
      <4>4. t \in Instruction /\ t.offset = o /\ t.isLiteral /\ t.data = y
        BY <1>1, <4>2, <4>3 DEF Literal, Instruction
      <4> QED BY <4>4 DEF Apply, t, y
    <3>3. CASE ~ r.isLiteral /\ ~ (e > end)
      <4>1. t = r /\ hi = e
        BY <1>3, <3>3 DEF Trimmed, Least, o, e
      <4> QED BY <1>3, <4>1 DEF o, x
    <3> QED BY <3>1, <3>2, <3>3
  <2> HIDE DEF t, hi
  <2>4. Len(Slice(d, o, hi)) = hi - o
    BY <1>1, <2>2, SliceType, ZenonT(60)
  <2>5. EndOf(f, t) = hi
    BY <1>1, <2>2, <2>3, <2>4 DEF EndOf
  <2>6. Covers(f, d, << t >>, t.offset, EndOf(f, t))
    BY <2>2, <2>3, <2>5, CoversOne
  <2>7. Covers(f, d, << t >>, o, hi) /\ << t >> \in Seq(Instruction)
    BY <2>3, <2>5, <2>6
  <2> QED BY <2>1, <2>7 DEF hi, o, e
<1> QED BY <1>4, <1>5

LEMMA KeptSendable ==
  ASSUME NEW f \in Seq(Byte), NEW d \in Seq(Byte), NEW end \in Nat, end <= Len(d),
         NEW r \in Sendable(f)
  PROVE  Kept(f, d, end, r) \in Seq(Sendable(f))
<1> DEFINE o == r.offset
           m == Most(ChunkSize, BlockSize)
           t == Trimmed(f, d, end, r)
<1>1. r \in Instruction /\ o \in Nat /\ r.data \in Seq(Byte) /\ r.blockIdx \in Nat
  BY DEF Sendable, Instruction
<1>2. m \in Nat /\ BlockSize <= m
  BY ChunkSizeAssumption, BlockSizeAssumption DEF Most
<1>3. CASE ~ (o < end)
  BY <1>3 DEF Kept
<1>4. CASE o < end
  <2>1. Kept(f, d, end, r) = << t >>
    BY <1>4 DEF Kept
  <2>2. CASE r.isLiteral
    <3> DEFINE n == Least(Len(r.data), end - o)
               y == Slice(r.data, 0, n)
    <3>1. n \in Nat /\ 0 \in Nat /\ 0 <= n /\ n <= Len(r.data) /\ n - 0 = n /\ Len(r.data) \in Nat
      BY <1>1, <1>4, LenProperties DEF Least
    <3>2. Len(r.data) <= m
      BY <2>2 DEF Sendable
    <3>3. t = [r EXCEPT !.data = y]
      BY <2>2 DEF Trimmed
    <3> HIDE DEF n, m
    <3>4. y \in Seq(Byte) /\ Len(y) = n - 0
      <4> DEFINE s == r.data
      <4>1. s \in Seq(Byte) /\ 0 \in Nat /\ n \in Nat /\ 0 <= n /\ n <= Len(s)
        BY <1>1, <3>1
      <4> HIDE DEF s
      <4>2. Slice(s, 0, n) \in Seq(Byte) /\ Len(Slice(s, 0, n)) = n - 0
        BY ONLY <4>1, SliceType, ZenonT(60)
      <4> QED BY <4>2 DEF s
    <3> HIDE DEF y, t
    <3>5. t \in Instruction /\ t.isLiteral /\ t.data = y
      BY <1>1, <2>2, <3>3, <3>4 DEF Instruction
    <3>6. Len(t.data) <= m
      BY <1>2, <3>1, <3>2, <3>4, <3>5
    <3>7. t \in Sendable(f)
      BY <3>5, <3>6 DEF Sendable, m
    <3> QED BY <2>1, <3>7
  <2>3. CASE ~ r.isLiteral /\ EndOf(f, r) > end
    <3> DEFINE y == Slice(d, o, end)
    <3>1. t = Literal(y, o)
      BY <2>3 DEF Trimmed
    <3>2. y \in Seq(Byte) /\ Len(y) = end - o
      <4>1. d \in Seq(Byte) /\ o \in Nat /\ end \in Nat /\ o <= end /\ end <= Len(d)
        BY <1>1, <1>4
      <4> HIDE DEF o
      <4> QED BY ONLY <4>1, SliceType, ZenonT(60)
    <3>3. Len(Block(f, r.blockIdx)) \in Nat /\ Len(Block(f, r.blockIdx)) <= BlockSize
      <4> DEFINE i == r.blockIdx
      <4>1. i \in 0 .. NumBlocks(f) - 1
        BY <1>1, <2>3, RoundedDivision, LenProperties, BlockSizeAssumption DEF Sendable, NumBlocks
      <4> HIDE DEF i
      <4>2. /\ Block(f, i) \in Seq(Byte) /\ Len(Block(f, i)) = BlockEnd(f, i) - i * BlockSize
            /\ BlockEnd(f, i) - i * BlockSize <= BlockSize
        BY <4>1, BlockType, BlockBounds
      <4> QED BY <4>2, LenProperties DEF i
    <3>4. EndOf(f, r) = o + Len(Block(f, r.blockIdx))
      BY <2>3 DEF EndOf, Apply
    <3> HIDE DEF y, t, m
    <3>5. Len(y) <= m
      BY <1>1, <1>2, <2>3, <3>2, <3>3, <3>4, BlockSizeAssumption
    <3>6. t \in Instruction /\ t.isLiteral /\ t.data = y
      BY <1>1, <3>1, <3>2 DEF Literal, Instruction
    <3>7. t \in Sendable(f)
      BY <3>5, <3>6 DEF Sendable, m
    <3> QED BY <2>1, <3>7
  <2>4. CASE ~ r.isLiteral /\ ~ (EndOf(f, r) > end)
    BY <2>1, <2>4 DEF Trimmed
  <2> QED BY <2>2, <2>3, <2>4
<1> QED BY <1>3, <1>4

\* What a worker sends covers its segment, although it searched beyond.
LEMMA SegmentCovers ==
  ASSUME NEW f \in Seq(Byte), NEW d \in Seq(Byte), d # << >>, NEW known, AreBlocks(f, known),
         NEW n \in Nat \ {0}, NEW i \in 0 .. WorkerCount(d, n) - 1
  PROVE  /\ SegmentResult(f, known, d, n, i) \in Seq(Instruction)
         /\ Covers(f, d, SegmentResult(f, known, d, n, i),
                   i * SegmentSize(d, n), SegmentEnd(d, n, i))
<1> DEFINE lo == i * SegmentSize(d, n)
           end == SegmentEnd(d, n, i)
           hi == Least(end + BlockSize, Len(d))
           part == Slice(d, lo, hi)
           insts == SearchResult(f, known, part)
           found == Found(f, known, d, n, i)
           N == Len(found)
           p == [k \in DOMAIN found |-> Kept(f, d, end, found[k])]
           at == [k \in 1 .. N + 1 |-> IF k <= N THEN Least(found[k].offset, end) ELSE end]
<1>1. /\ lo \in Nat /\ end \in Nat /\ lo < end /\ end <= Len(d)
      /\ hi \in Nat /\ end <= hi /\ lo <= hi /\ hi <= Len(d)
  <2>1. lo \in Nat /\ end \in Nat /\ lo < end /\ end <= Len(d)
    BY SegmentBounds
  <2>2. Len(d) \in Nat /\ BlockSize \in Nat
    BY LenProperties, BlockSizeAssumption
  <2> HIDE DEF lo, end
  <2> QED BY <2>1, <2>2 DEF Least
<1>2. found = Shifted(insts, lo)
  BY DEF Found, Forked, Shifted
<1>3. SegmentResult(f, known, d, n, i) = FlattenSeq(p)
  BY DEF SegmentResult
<1> HIDE DEF lo, end, hi, found
<1>4. part \in Seq(Byte) /\ Len(part) = hi - lo
  BY <1>1, SliceType, ZenonT(60)
<1>5. insts \in Seq(Instruction) /\ Covers(f, part, insts, 0, hi - lo)
  <2>1. insts \in Seq(Instruction) /\ Rebuilds(f, part, insts, Len(part))
    <3> HIDE DEF part
    <3> QED BY <1>4, SearchRebuilds
  <2> QED BY <1>4, <2>1 DEF Rebuilds
<1>6. found \in Seq(Instruction) /\ Covers(f, d, found, lo, hi)
  <2> DEFINE m == hi - lo
  <2>1. m \in Nat /\ 0 \in Nat /\ lo + 0 = lo /\ lo + m = hi
    BY <1>1
  <2>2. Covers(f, Slice(d, lo, hi), insts, 0, m)
    BY <1>5
  <2> HIDE DEF m, insts
  <2>3. /\ Shifted(insts, lo) \in Seq(Instruction)
        /\ Covers(f, d, Shifted(insts, lo), lo + 0, lo + m)
    <3>1. /\ insts \in Seq(Instruction) /\ 0 \in Nat /\ m \in Nat
          /\ f \in Seq(Byte) /\ d \in Seq(Byte) /\ lo \in Nat /\ hi \in Nat /\ lo <= hi /\ hi <= Len(d)
          /\ Covers(f, Slice(d, lo, hi), insts, 0, m)
      BY <1>1, <1>5, <2>1, <2>2
    <3> QED BY ONLY <3>1, ShiftedCovers
  <2> QED BY <1>2, <2>1, <2>3
<1> HIDE DEF part, insts
<1>7. DOMAIN found = 1 .. N /\ N \in Nat
  BY <1>6, LenProperties
<1>8. N # 0
  <2>1. found # << >>
    BY <1>1, <1>6 DEF Covers
  <2> QED BY <1>6, <1>7, <2>1, EmptySeq
<1> HIDE DEF N
<1>9. ASSUME NEW k \in 1 .. N
      PROVE  /\ found[k] \in Instruction /\ p[k] = Kept(f, d, end, found[k])
             /\ p[k] \in Seq(Instruction)
             /\ Covers(f, d, p[k], Least(found[k].offset, end), Least(EndOf(f, found[k]), end))
  <2> DEFINE r == found[k]
  <2>1. r \in Instruction
    BY <1>6, ElementOfSeq DEF N
  <2>2. EndOf(f, r) <= Len(d) /\ Apply(f, r) = Slice(d, r.offset, EndOf(f, r))
    BY <1>6 DEF Covers, N
  <2>3. p[k] = Kept(f, d, end, r)
    BY <1>7
  <2> HIDE DEF r, p
  <2>4. /\ Kept(f, d, end, r) \in Seq(Instruction)
        /\ Covers(f, d, Kept(f, d, end, r), Least(r.offset, end), Least(EndOf(f, r), end))
    BY <1>1, <2>1, <2>2, KeptCovers
  <2> QED BY <2>1, <2>3, <2>4 DEF r
<1>10. p \in Seq(Seq(Instruction)) /\ Len(p) = N
  <2>1. p = [k \in 1 .. N |-> p[k]]
    BY <1>7
  <2> HIDE DEF p
  <2>2. p \in [1 .. N -> Seq(Instruction)]
    BY <1>9, <2>1
  <2> QED BY <1>7, <2>2, LenProperties
<1> HIDE DEF p
<1>11. at[1] = lo /\ at[N + 1] = end
  <2>1. 1 \in 1 .. N + 1 /\ N + 1 \in 1 .. N + 1 /\ 1 <= N /\ ~ (N + 1 <= N)
    BY <1>7, <1>8
  <2>2. found[1].offset = lo
    BY <1>7, <1>8, <1>6, EmptySeq DEF Covers, N
  <2> QED BY <1>1, <2>1, <2>2 DEF Least
<1>12. ASSUME NEW k \in 1 .. N
       PROVE  at[k] = Least(found[k].offset, end) /\ at[k + 1] = Least(EndOf(f, found[k]), end)
  <2>1. k \in 1 .. N + 1 /\ k + 1 \in 1 .. N + 1 /\ k <= N
    BY <1>7
  <2>2. CASE k = N
    <3>1. EndOf(f, found[N]) = hi
      BY <1>6, <1>7, <1>8, EmptySeq DEF Covers, N
    <3>2. Least(hi, end) = end
      BY <1>1 DEF Least
    <3>3. at[k + 1] = end
      BY <1>11, <2>2
    <3> QED BY <2>1, <2>2, <3>1, <3>2, <3>3
  <2>3. CASE k # N
    <3>1. k \in 1 .. N - 1 /\ k + 1 <= N
      BY <1>7, <2>3
    <3>2. found[k + 1].offset = EndOf(f, found[k])
      BY <1>6, <3>1 DEF Covers, N
    <3> QED BY <2>1, <3>1, <3>2
  <2> QED BY <2>2, <2>3
<1> HIDE DEF at
<1>13. PiecesCover(f, d, p, at)
  BY <1>9, <1>10, <1>12 DEF PiecesCover
<1>14. FlattenSeq(p) \in Seq(Instruction) /\ Covers(f, d, FlattenSeq(p), at[1], at[Len(p) + 1])
  BY <1>10, <1>13, FlattenType, FlattenCovers
<1>15. Covers(f, d, FlattenSeq(p), lo, end)
  BY <1>10, <1>11, <1>14
<1> QED BY <1>3, <1>14, <1>15 DEF lo, end

LEMMA SegmentSendable ==
  ASSUME NEW f \in Seq(Byte), NEW d \in Seq(Byte), d # << >>, NEW known, AreBlocks(f, known),
         NEW n \in Nat \ {0}, NEW i \in 0 .. WorkerCount(d, n) - 1
  PROVE  SegmentResult(f, known, d, n, i) \in Seq(Sendable(f))
<1> DEFINE lo == i * SegmentSize(d, n)
           end == SegmentEnd(d, n, i)
           hi == Least(end + BlockSize, Len(d))
           part == Slice(d, lo, hi)
           insts == SearchResult(f, known, part)
           found == Found(f, known, d, n, i)
           p == [k \in DOMAIN found |-> Kept(f, d, end, found[k])]
<1>1. /\ lo \in Nat /\ end \in Nat /\ lo < end /\ end <= Len(d)
      /\ hi \in Nat /\ lo <= hi /\ hi <= Len(d)
  <2>1. lo \in Nat /\ end \in Nat /\ lo < end /\ end <= Len(d)
    BY SegmentBounds
  <2>2. Len(d) \in Nat /\ BlockSize \in Nat
    BY LenProperties, BlockSizeAssumption
  <2> HIDE DEF lo, end
  <2> QED BY <2>1, <2>2 DEF Least
<1>2. found = Shifted(insts, lo)
  BY DEF Found, Forked, Shifted
<1>3. SegmentResult(f, known, d, n, i) = FlattenSeq(p)
  BY DEF SegmentResult
<1> HIDE DEF lo, end, hi, found
<1>4. part \in Seq(Byte)
  BY <1>1, SliceType, ZenonT(60)
<1> HIDE DEF part
<1>5. insts \in Seq(Sendable(f))
  BY <1>4, NumBlocksType, SearchSendable
<1> HIDE DEF insts
<1>6. found = [k \in 1 .. Len(insts) |-> [insts[k] EXCEPT !.offset = @ + lo]] /\ Len(insts) \in Nat
  BY <1>2, <1>5, LenProperties DEF Shifted
<1>7. ASSUME NEW k \in 1 .. Len(insts)
      PROVE  found[k] \in Sendable(f)
  <2> DEFINE r == insts[k]
  <2>1. r \in Sendable(f)
    BY <1>5, ElementOfSeq
  <2>2. found[k] = [r EXCEPT !.offset = @ + lo]
    BY <1>6
  <2> HIDE DEF r
  <2>3. r \in Instruction /\ r.offset + lo \in Nat
    BY <1>1, <2>1 DEF Sendable, Instruction
  <2>4. /\ found[k] \in Instruction /\ found[k].isLiteral = r.isLiteral
        /\ found[k].data = r.data /\ found[k].blockIdx = r.blockIdx
    BY <2>2, <2>3 DEF Instruction
  <2> QED BY <2>1, <2>4 DEF Sendable
<1>8. DOMAIN found = 1 .. Len(insts)
  BY <1>6
<1>9. ASSUME NEW k \in 1 .. Len(insts)
      PROVE  Kept(f, d, end, found[k]) \in Seq(Sendable(f))
  BY <1>1, <1>7, KeptSendable
<1>10. p \in Seq(Seq(Sendable(f)))
  BY <1>6, <1>8, <1>9
<1> HIDE DEF p
<1> QED BY <1>3, <1>10, FlattenType

\* What SearchParallel returns rebuilds all of the source, however many workers
\* are asked for, and wherever their segments cut blocks and matches.
LEMMA ParallelRebuilds ==
  ASSUME NEW f \in Seq(Byte), NEW d \in Seq(Byte), NEW known, AreBlocks(f, known), NEW n \in Int
  PROVE  /\ ParallelResult(f, known, d, n) \in Seq(Instruction)
         /\ Rebuilds(f, d, ParallelResult(f, known, d, n), Len(d))
<1>1. CASE Serial(f, d, n)
  BY <1>1, SearchRebuilds DEF ParallelResult
<1>2. CASE ~ Serial(f, d, n)
  <2> DEFINE W == WorkerCount(d, n)
             c == SegmentSize(d, n)
             p == [s \in 1 .. W |-> SegmentResult(f, known, d, n, s - 1)]
             at == [k \in 1 .. W + 1 |-> IF k = 1 THEN 0 ELSE SegmentEnd(d, n, k - 2)]
  <2>1. n \in Nat \ {0} /\ d # << >>
    BY <1>2, EmptySeq, BlockSizeAssumption DEF Serial
  <2>2. ParallelResult(f, known, d, n) = FlattenSeq(p)
    BY <1>2 DEF ParallelResult
  <2>3. c \in Nat \ {0} /\ W \in Nat \ {0}
    BY <2>1, SegmentBounds
  <2>4. ASSUME NEW s \in 1 .. W
        PROVE  /\ p[s] \in Seq(Instruction)
               /\ Covers(f, d, p[s], (s - 1) * c, SegmentEnd(d, n, s - 1))
    <3> DEFINE i == s - 1
    <3>1. i \in 0 .. W - 1
      BY <2>3
    <3>2. p[s] = SegmentResult(f, known, d, n, i)
      OBVIOUS
    <3> HIDE DEF i, p
    <3>3. /\ SegmentResult(f, known, d, n, i) \in Seq(Instruction)
          /\ Covers(f, d, SegmentResult(f, known, d, n, i), i * c, SegmentEnd(d, n, i))
      BY <2>1, <3>1, SegmentCovers
    <3> QED BY <3>2, <3>3 DEF i
  <2>5. p \in Seq(Seq(Instruction)) /\ Len(p) = W
    <3>1. p = [s \in 1 .. W |-> p[s]]
      OBVIOUS
    <3> HIDE DEF p, W
    <3>2. p \in [1 .. W -> Seq(Instruction)]
      BY <2>4, <3>1
    <3> QED BY <2>3, <3>2, LenProperties
  <2>6. ASSUME NEW s \in 1 .. W
        PROVE  at[s] = (s - 1) * c /\ at[s + 1] = SegmentEnd(d, n, s - 1)
    <3> HIDE DEF c
    <3>1. s \in 1 .. W + 1 /\ s + 1 \in 1 .. W + 1 /\ s + 1 # 1 /\ s + 1 - 2 = s - 1
      BY <2>3
    <3>2. CASE s = 1
      <4>1. (s - 1) * c = 0
        BY <2>3, <3>2
      <4> QED BY <3>1, <3>2, <4>1
    <3>3. CASE s # 1
      <4> DEFINE j == s - 2
      <4>1. j \in 0 .. W - 1 /\ j < W - 1 /\ j + 1 = s - 1
        BY <2>3, <3>3
      <4> HIDE DEF j
      <4>2. SegmentEnd(d, n, j) = (j + 1) * c
        BY <2>1, <4>1, SegmentBounds DEF c
      <4>3. at[s] = SegmentEnd(d, n, j)
        BY <3>1, <3>3 DEF j
      <4> QED BY <3>1, <4>1, <4>2, <4>3
    <3> QED BY <3>2, <3>3
  <2>7. at[1] = 0 /\ at[W + 1] = Len(d)
    <3>1. 1 \in 1 .. W + 1 /\ W \in 1 .. W /\ W - 1 \in 0 .. W - 1
      BY <2>3
    <3>2. SegmentEnd(d, n, W - 1) = Len(d)
      BY <2>1, <3>1, SegmentBounds
    <3> QED BY <2>6, <3>1, <3>2
  <2> HIDE DEF p, at, W
  <2>8. PiecesCover(f, d, p, at)
    BY <2>4, <2>5, <2>6 DEF PiecesCover
  <2>9. FlattenSeq(p) \in Seq(Instruction) /\ Covers(f, d, FlattenSeq(p), at[1], at[Len(p) + 1])
    BY <2>5, <2>8, FlattenType, FlattenCovers
  <2> QED BY <2>2, <2>5, <2>7, <2>9 DEF Rebuilds
<1> QED BY <1>1, <1>2

LEMMA ParallelSendable ==
  ASSUME NEW f \in Seq(Byte), NEW d \in Seq(Byte), NEW known, AreBlocks(f, known), NEW n \in Int
  PROVE  ParallelResult(f, known, d, n) \in Seq(Sendable(f))
<1>1. CASE Serial(f, d, n)
  BY <1>1, NumBlocksType, SearchSendable DEF ParallelResult
<1>2. CASE ~ Serial(f, d, n)
  <2> DEFINE W == WorkerCount(d, n)
             p == [s \in 1 .. W |-> SegmentResult(f, known, d, n, s - 1)]
  <2>1. n \in Nat \ {0} /\ d # << >>
    BY <1>2, EmptySeq, BlockSizeAssumption DEF Serial
  <2>2. ParallelResult(f, known, d, n) = FlattenSeq(p)
    BY <1>2 DEF ParallelResult
  <2>3. W \in Nat
    BY <2>1, SegmentBounds
  <2>4. ASSUME NEW s \in 1 .. W
        PROVE  SegmentResult(f, known, d, n, s - 1) \in Seq(Sendable(f))
    <3> DEFINE i == s - 1
    <3>1. i \in 0 .. W - 1
      BY <2>3
    <3> HIDE DEF i
    <3>2. SegmentResult(f, known, d, n, i) \in Seq(Sendable(f))
      BY <2>1, <3>1, SegmentSendable
    <3> QED BY <3>2 DEF i
  <2> HIDE DEF W
  <2>5. p \in Seq(Seq(Sendable(f)))
    BY <2>3, <2>4
  <2> HIDE DEF p
  <2> QED BY <2>2, <2>5, FlattenType
<1> QED BY <1>1, <1>2

-----------------------------------------------------------------------------
(* Joining lists *)

Seqs(S, a, b, c) == a \in Seq(S) /\ b \in Seq(S) /\ c \in Seq(S)

LEMMA Associative ==
  ASSUME NEW S, NEW a, NEW b, NEW c, Seqs(S, a, b, c)
  PROVE  /\ a \o b \in Seq(S) /\ b \o c \in Seq(S)
         /\ (a \o b) \o c = a \o (b \o c) /\ a \o (b \o c) \in Seq(S)
<1>1. a \in Seq(S) /\ b \in Seq(S) /\ c \in Seq(S)
  BY DEF Seqs
<1>2. a \o b \in Seq(S) /\ b \o c \in Seq(S)
  BY ONLY <1>1, ConcatProperties
<1>3. a \o (b \o c) \in Seq(S)
  BY ONLY <1>1, <1>2, ConcatProperties
<1>4. (a \o b) \o c = a \o (b \o c)
  BY ONLY <1>1, ConcatAssociative
<1> QED BY <1>2, <1>3, <1>4

\* The joined pieces are determined by the pieces.
LEMMA JoinsAgree ==
  ASSUME NEW p, NEW q, NEW m \in Nat, NEW g, NEW h, Joins(p, m, g), Joins(q, m, h),
         \A k \in 1 .. m : p[k] = q[k]
  PROVE  m # 0 => g[m] = h[m]
<1> DEFINE P == {k \in 0 .. m : k # 0 => g[k] = h[k]}
<1>1. 0 \in P
  OBVIOUS
<1>2. ASSUME NEW k \in 0 .. m - 1, k \in P
      PROVE  k + 1 \in P
  <2>1. k + 1 \in 1 .. m /\ (k + 1 = 1 <=> k = 0) /\ k + 1 - 1 = k
    OBVIOUS
  <2>2. /\ g[k + 1] = IF k = 0 THEN p[k + 1] ELSE g[k] \o p[k + 1]
        /\ h[k + 1] = IF k = 0 THEN q[k + 1] ELSE h[k] \o q[k + 1]
    BY <2>1 DEF Joins
  <2>3. p[k + 1] = q[k + 1] /\ (k # 0 => g[k] = h[k])
    BY <1>2, <2>1
  <2>4. g[k + 1] = h[k + 1]
    BY <2>2, <2>3
  <2> QED BY <2>1, <2>4
<1> HIDE DEF P
<1>3. 0 .. m \subseteq P
  BY <1>1, <1>2, Induction
<1> QED BY <1>3 DEF P

LEMMA FlattenAppend ==
  ASSUME NEW S, NEW p \in Seq(Seq(S)), NEW x \in Seq(S)
  PROVE  FlattenSeq(Append(p, x)) = FlattenSeq(p) \o x
<1> DEFINE N == Len(p)
           q == Append(p, x)
<1>1. N \in Nat /\ q \in Seq(Seq(S)) /\ Len(q) = N + 1
  BY AppendProperties, LenProperties
<1>2. q[N + 1] = x /\ \A k \in 1 .. N : q[k] = p[k]
  BY AppendProperties
<1> HIDE DEF q
<1>3. PICK h : Joins(q, N + 1, h) /\ FlattenSeq(q) = h[N + 1]
  <2>1. Len(q) \in Nat \ {0}
    BY <1>1
  <2> QED BY <1>1, <2>1, FlattenJoins
<1>4. h[N + 1] = IF N = 0 THEN x ELSE h[N] \o x
  <2>1. N + 1 \in 1 .. N + 1 /\ (N + 1 = 1 <=> N = 0) /\ N + 1 - 1 = N
    BY <1>1
  <2> QED BY <1>2, <1>3, <2>1 DEF Joins
<1>5. CASE N = 0
  <2>1. p = << >>
    BY <1>5, EmptySeq
  <2>2. FlattenSeq(p) = << >>
    BY <2>1 DEF FlattenSeq
  <2>3. << >> \o x = x
    BY ConcatEmptySeq
  <2> QED BY <1>3, <1>4, <1>5, <2>2, <2>3 DEF q
<1>6. CASE N # 0
  <2>1. PICK g : Joins(p, N, g) /\ FlattenSeq(p) = g[N]
    BY <1>1, <1>6, FlattenJoins
  <2>2. Joins(q, N, h)
    <3>1. \A k \in 1 .. N : k \in 1 .. N + 1
      BY <1>1
    <3> HIDE DEF N
    <3> QED BY <1>3, <3>1 DEF Joins
  <2>3. N \in Nat /\ N # 0 /\ Joins(p, N, g) /\ Joins(q, N, h) /\ \A k \in 1 .. N : p[k] = q[k]
    BY <1>1, <1>2, <1>6, <2>1, <2>2
  <2> HIDE DEF N
  <2>4. g[N] = h[N]
    BY ONLY <2>3, JoinsAgree, SMTT(30)
  <2> QED BY <1>3, <1>4, <1>6, <2>1, <2>4 DEF q
<1> QED BY <1>5, <1>6

LEMMA FlattenOne ==
  ASSUME NEW S, NEW x \in Seq(S)
  PROVE  FlattenSeq(<< x >>) = x
<1> DEFINE p == << >>
<1>1. p \in Seq(Seq(S)) /\ FlattenSeq(p) = << >> /\ Append(p, x) = << x >>
  BY EmptySeq DEF FlattenSeq
<1> HIDE DEF p
<1>2. FlattenSeq(Append(p, x)) = FlattenSeq(p) \o x
  BY <1>1, FlattenAppend
<1> QED BY <1>1, <1>2, ConcatEmptySeq

LEMMA FlattenConcat ==
  ASSUME NEW S, NEW p \in Seq(Seq(S)), NEW q \in Seq(Seq(S))
  PROVE  FlattenSeq(p \o q) = FlattenSeq(p) \o FlattenSeq(q)
<1> DEFINE N == Len(q)
           First(m) == SubSeq(q, 1, m)
           Same(r) == FlattenSeq(p \o r) = FlattenSeq(p) \o FlattenSeq(r)
           P == {m \in 0 .. N : Same(First(m))}
<1>0. N \in Nat
  BY LenProperties
<1>1. 0 \in P
  <2>1. First(0) = << >>
    BY SubSeqEmpty
  <2>4. FlattenSeq(<< >>) = << >>
    BY DEF FlattenSeq
  <2>2. p \o << >> = p
    BY ConcatEmptySeq
  <2>3. FlattenSeq(p) \o << >> = FlattenSeq(p)
    BY FlattenType, ConcatEmptySeq
  <2>5. Same(First(0))
    <3> HIDE DEF First
    <3> QED BY <2>1, <2>2, <2>3, <2>4
  <2> HIDE DEF First, Same
  <2> QED BY <1>0, <2>5
<1>2. ASSUME NEW m \in 0 .. N - 1, m \in P
      PROVE  m + 1 \in P
  <2> DEFINE r == First(m)
             x == q[m + 1]
  <2>1. m \in Nat /\ m <= N /\ m + 1 \in 1 .. N /\ (m + 1) - 1 = m
    BY <1>0
  <2>2. r \in Seq(Seq(S)) /\ x \in Seq(S)
    BY <2>1, PrefixType, ElementOfSeq
  <2>3. First(m + 1) = Append(r, x)
    <3> DEFINE j == m + 1
    <3>1. 1 \in 1 .. Len(q) /\ j \in 1 .. Len(q) /\ j - 1 = m
      BY <1>0, <2>1
    <3> HIDE DEF j
    <3>2. SubSeq(q, 1, j) = SubSeq(q, 1, j - 1) \o << q[j] >>
      BY <3>1, SubSeqRecursiveSecond
    <3>3. Append(r, x) = r \o << x >>
      BY <2>2, AppendIsConcat
    <3> QED BY <3>1, <3>2, <3>3 DEF j
  <2>4. FlattenSeq(p \o r) = FlattenSeq(p) \o FlattenSeq(r)
    BY <1>2
  <2> HIDE DEF First, r, x
  <2>5. p \o Append(r, x) = Append(p \o r, x)
    <3>1. Append(r, x) = r \o << x >> /\ << x >> \in Seq(Seq(S))
      BY <2>2, AppendIsConcat
    <3>2. p \o r \in Seq(Seq(S))
      BY <2>2, ConcatProperties
    <3>3. Append(p \o r, x) = (p \o r) \o << x >>
      BY <2>2, <3>2, AppendIsConcat
    <3> QED BY <2>2, <3>1, <3>3, ConcatAssociative, SMTT(30)
  <2>6. FlattenSeq(Append(p \o r, x)) = FlattenSeq(p \o r) \o x
    <3>1. p \o r \in Seq(Seq(S))
      BY <2>2, ConcatProperties
    <3> QED BY <2>2, <3>1, FlattenAppend
  <2>7. FlattenSeq(Append(r, x)) = FlattenSeq(r) \o x
    BY <2>2, FlattenAppend
  <2>8. (FlattenSeq(p) \o FlattenSeq(r)) \o x = FlattenSeq(p) \o (FlattenSeq(r) \o x)
    <3> DEFINE a == FlattenSeq(p)
               b == FlattenSeq(r)
    <3>0. r \in Seq(Seq(S)) /\ x \in Seq(S)
      BY <2>2
    <3>1. a \in Seq(S) /\ b \in Seq(S) /\ x \in Seq(S)
      BY <3>0, FlattenType
    <3> HIDE DEF a, b
    <3>2. (a \o b) \o x = a \o (b \o x)
      BY ONLY <3>1, ConcatAssociative, SMTT(30)
    <3> QED BY <3>2 DEF a, b
  <2>9. Same(First(m + 1))
    BY <2>3, <2>4, <2>5, <2>6, <2>7, <2>8
  <2>10. m + 1 \in 0 .. N
    BY <1>0, <2>1
  <2> HIDE DEF Same
  <2> QED BY <2>9, <2>10
<1> HIDE DEF P
<1>3. 0 .. N \subseteq P
  BY <1>0, <1>1, <1>2, Induction
<1>4. N \in P
  BY <1>0, <1>3
<1>5. Same(First(N))
  BY <1>4 DEF P
<1> QED BY <1>5, SubSeqFull

LEMMA FlattenCons ==
  ASSUME NEW S, NEW x \in Seq(S), NEW q \in Seq(Seq(S))
  PROVE  FlattenSeq(<< x >> \o q) = x \o FlattenSeq(q)
<1> DEFINE p == << x >>
<1>1. p \in Seq(Seq(S)) /\ FlattenSeq(p) = x
  BY FlattenOne
<1> HIDE DEF p
<1>2. FlattenSeq(p \o q) = FlattenSeq(p) \o FlattenSeq(q)
  BY <1>1, FlattenConcat
<1> QED BY <1>1, <1>2 DEF p

\* A list is empty or an element and the rest.
LEMMA ConsParts ==
  ASSUME NEW S, NEW s \in Seq(S), s # << >>
  PROVE  /\ Head(s) \in S /\ Tail(s) \in Seq(S) /\ s[1] = Head(s)
         /\ Len(s) \in Nat \ {0} /\ Len(Tail(s)) = Len(s) - 1
         /\ s = << Head(s) >> \o Tail(s)
<1>1. Head(s) \in S /\ Tail(s) \in Seq(S) /\ Len(Tail(s)) = Len(s) - 1
  BY HeadTailProperties
<1>2. Len(s) \in Nat \ {0}
  BY EmptySeq, LenProperties
<1>3. s[1] = Head(s)
  BY <1>2
<1>4. 1 \in 1 .. Len(s) /\ Len(s) \in 1 .. Len(s)
  BY <1>2
<1>5. SubSeq(s, 1, Len(s)) = << s[1] >> \o SubSeq(s, 2, Len(s))
  <2> DEFINE n == Len(s)
  <2>1. 1 \in 1 .. n /\ n \in 1 .. n /\ n = Len(s)
    BY <1>4
  <2> HIDE DEF n
  <2>2. SubSeq(s, 1, n) = << s[1] >> \o SubSeq(s, 1 + 1, n)
    BY <2>1, SubSeqRecursiveFirst
  <2> QED BY <2>1, <2>2
<1>6. SubSeq(s, 1, Len(s)) = s /\ SubSeq(s, 2, Len(s)) = Tail(s)
  BY SubSeqFull, TailIsSubSeq
<1> QED BY <1>1, <1>2, <1>3, <1>5, <1>6

\* g of every element of s, and those joined.
Maps(g, S, T) == g \in [S -> T]
Mapped(g, s) == [k \in DOMAIN s |-> g[s[k]]]
FlatMap(g, s) == FlattenSeq(Mapped(g, s))

LEMMA MappedType ==
  ASSUME NEW S, NEW T, NEW g, Maps(g, S, T), NEW s \in Seq(S)
  PROVE  Mapped(g, s) \in Seq(T) /\ Len(Mapped(g, s)) = Len(s)
<1>1. \A k \in 1 .. Len(s) : g[s[k]] \in T
  BY ElementOfSeq DEF Maps
<1> QED BY <1>1, LenProperties DEF Mapped

LEMMA MappedConcat ==
  ASSUME NEW S, NEW T, NEW g, Maps(g, S, T), NEW a \in Seq(S), NEW b \in Seq(S)
  PROVE  Mapped(g, a \o b) = Mapped(g, a) \o Mapped(g, b)
<1> DEFINE c == a \o b
           x == Mapped(g, a)
           y == Mapped(g, b)
           z == Mapped(g, c)
<1>1. /\ c \in Seq(S) /\ Len(c) = Len(a) + Len(b)
      /\ \A k \in 1 .. Len(c) : c[k] = IF k <= Len(a) THEN a[k] ELSE b[k - Len(a)]
  BY ConcatProperties
<1> HIDE DEF c
<1>2. /\ x \in Seq(T) /\ Len(x) = Len(a) /\ y \in Seq(T) /\ Len(y) = Len(b)
      /\ z \in Seq(T) /\ Len(z) = Len(c)
  <2>1. x \in Seq(T) /\ Len(x) = Len(a)
    BY MappedType, SMTT(30)
  <2>2. y \in Seq(T) /\ Len(y) = Len(b)
    BY MappedType, SMTT(30)
  <2>3. z \in Seq(T) /\ Len(z) = Len(c)
    BY <1>1, MappedType, SMTT(30)
  <2> QED BY <2>1, <2>2, <2>3
<1>3. /\ \A k \in 1 .. Len(a) : x[k] = g[a[k]]
      /\ \A k \in 1 .. Len(b) : y[k] = g[b[k]]
      /\ \A k \in 1 .. Len(c) : z[k] = g[c[k]]
  BY <1>1, LenProperties DEF Mapped
<1> HIDE DEF x, y, z
<1>4. /\ x \o y \in Seq(T) /\ Len(x \o y) = Len(c)
      /\ \A k \in 1 .. Len(c) : (x \o y)[k] = IF k <= Len(a) THEN x[k] ELSE y[k - Len(a)]
  <2>1. /\ x \o y \in Seq(T) /\ Len(x \o y) = Len(x) + Len(y)
        /\ \A k \in 1 .. Len(x) + Len(y) : (x \o y)[k] = IF k <= Len(x) THEN x[k] ELSE y[k - Len(x)]
    BY <1>2, ConcatProperties
  <2> QED BY ONLY <1>1, <1>2, <2>1
<1>5. \A k \in 1 .. Len(c) : z[k] = (x \o y)[k]
  <2> TAKE k \in 1 .. Len(c)
  <2>1. Len(a) \in Nat /\ Len(b) \in Nat
    BY LenProperties
  <2>2. CASE k <= Len(a)
    <3>1. k \in 1 .. Len(a)
      BY <1>1, <2>1, <2>2
    <3>2. z[k] = g[a[k]] /\ x[k] = g[a[k]] /\ (x \o y)[k] = x[k]
      BY <1>1, <1>3, <1>4, <2>2, <3>1
    <3> QED BY <3>2
  <2>3. CASE ~ (k <= Len(a))
    <3>1. k - Len(a) \in 1 .. Len(b)
      BY <1>1, <2>1, <2>3
    <3>2. z[k] = g[c[k]] /\ c[k] = b[k - Len(a)] /\ (x \o y)[k] = y[k - Len(a)]
      BY <1>1, <1>3, <1>4, <2>3
    <3>3. y[k - Len(a)] = g[b[k - Len(a)]]
      BY <1>3, <3>1
    <3> QED BY <3>2, <3>3
  <2> QED BY <2>2, <2>3
<1>6. z = x \o y
  BY <1>2, <1>4, <1>5, SeqEqual
<1> QED BY <1>6 DEF x, y, z, c

LEMMA FlatMapType ==
  ASSUME NEW S, NEW T, NEW g, Maps(g, S, Seq(T)), NEW s \in Seq(S)
  PROVE  FlatMap(g, s) \in Seq(T)
<1>1. Mapped(g, s) \in Seq(Seq(T))
  BY MappedType
<1> QED BY <1>1, FlattenType DEF FlatMap

LEMMA FlatMapNone ==
  ASSUME NEW g
  PROVE  FlatMap(g, << >>) = << >>
<1>1. Mapped(g, << >>) = << >>
  BY DEF Mapped
<1> QED BY <1>1 DEF FlatMap, FlattenSeq

LEMMA FlatMapOne ==
  ASSUME NEW S, NEW T, NEW g, Maps(g, S, Seq(T)), NEW x \in S
  PROVE  FlatMap(g, << x >>) = g[x]
<1>1. Mapped(g, << x >>) = << g[x] >>
  BY DEF Mapped
<1>2. g[x] \in Seq(T)
  BY DEF Maps
<1> QED BY <1>1, <1>2, FlattenOne DEF FlatMap

LEMMA FlatMapConcat ==
  ASSUME NEW S, NEW T, NEW g, Maps(g, S, Seq(T)), NEW a \in Seq(S), NEW b \in Seq(S)
  PROVE  FlatMap(g, a \o b) = FlatMap(g, a) \o FlatMap(g, b)
<1>1. Mapped(g, a \o b) = Mapped(g, a) \o Mapped(g, b)
  BY MappedConcat
<1>2. Mapped(g, a) \in Seq(Seq(T)) /\ Mapped(g, b) \in Seq(Seq(T))
  BY MappedType
<1> QED BY <1>1, <1>2, FlattenConcat DEF FlatMap

LEMMA FlatMapCons ==
  ASSUME NEW S, NEW T, NEW g, Maps(g, S, Seq(T)), NEW s \in Seq(S), s # << >>
  PROVE  FlatMap(g, s) = g[Head(s)] \o FlatMap(g, Tail(s))
<1> DEFINE a == << Head(s) >>
           b == Tail(s)
<1>1. a \in Seq(S) /\ b \in Seq(S) /\ s = a \o b /\ Head(s) \in S
  BY ConsParts
<1>2. FlatMap(g, a) = g[Head(s)]
  BY <1>1, FlatMapOne
<1> HIDE DEF a, b
<1>3. FlatMap(g, a \o b) = FlatMap(g, a) \o FlatMap(g, b)
  BY <1>1, FlatMapConcat
<1> QED BY <1>1, <1>2, <1>3 DEF b

-----------------------------------------------------------------------------
(* What instructions rebuild *)

LEMMA PrefixNext ==
  ASSUME NEW S, NEW s \in Seq(S), NEW m \in 0 .. Len(s) - 1
  PROVE  /\ SubSeq(s, 1, m) \in Seq(S) /\ s[m + 1] \in S
         /\ SubSeq(s, 1, m + 1) = SubSeq(s, 1, m) \o << s[m + 1] >>
<1> DEFINE j == m + 1
<1>1. Len(s) \in Nat /\ m \in Nat /\ m <= Len(s) /\ 1 \in 1 .. Len(s) /\ j \in 1 .. Len(s) /\ j - 1 = m
  BY LenProperties
<1> HIDE DEF j
<1>2. SubSeq(s, 1, m) \in Seq(S) /\ s[j] \in S
  BY <1>1, PrefixType, ElementOfSeq
<1>3. SubSeq(s, 1, j) = SubSeq(s, 1, j - 1) \o << s[j] >>
  BY <1>1, SubSeqRecursiveSecond
<1> QED BY <1>1, <1>2, <1>3 DEF j

LEMMA FlatMapNext ==
  ASSUME NEW S, NEW T, NEW g, Maps(g, S, Seq(T)), NEW s \in Seq(S), NEW m \in 0 .. Len(s) - 1
  PROVE  FlatMap(g, SubSeq(s, 1, m + 1)) = FlatMap(g, SubSeq(s, 1, m)) \o g[s[m + 1]]
<1> DEFINE a == SubSeq(s, 1, m)
           x == s[m + 1]
           b == << x >>
<1>1. a \in Seq(S) /\ x \in S /\ SubSeq(s, 1, m + 1) = a \o b
  BY PrefixNext
<1> HIDE DEF a, x
<1>2. FlatMap(g, b) = g[x]
  BY <1>1, FlatMapOne
<1>3. b \in Seq(S)
  BY <1>1
<1> HIDE DEF b
<1>4. FlatMap(g, a \o b) = FlatMap(g, a) \o FlatMap(g, b)
  BY <1>1, <1>3, FlatMapConcat
<1> QED BY <1>1, <1>2, <1>4 DEF a, x

Applied(f) == [r \in Instruction |-> Apply(f, r)]
RebuiltFrom(f, list) == FlatMap(Applied(f), list)
BatchRebuilt(f) == [b \in Seq(Instruction) |-> RebuiltFrom(f, b)]
AllRebuilt(f, batches) == FlatMap(BatchRebuilt(f), batches)

LEMMA ApplyType ==
  ASSUME NEW f \in Seq(Byte), NEW r \in Instruction
  PROVE  Apply(f, r) \in Seq(Byte)
BY BlockIsBytes DEF Apply, Instruction

LEMMA RebuiltMaps ==
  ASSUME NEW f \in Seq(Byte)
  PROVE  /\ Maps(Applied(f), Instruction, Seq(Byte))
         /\ Maps(BatchRebuilt(f), Seq(Instruction), Seq(Byte))
         /\ \A list \in Seq(Instruction) : RebuiltFrom(f, list) \in Seq(Byte)
<1>1. Maps(Applied(f), Instruction, Seq(Byte))
  BY ApplyType DEF Applied, Maps
<1>2. ASSUME NEW list \in Seq(Instruction)
      PROVE  RebuiltFrom(f, list) \in Seq(Byte)
  <2> DEFINE g == Applied(f)
  <2>1. Maps(g, Instruction, Seq(Byte)) /\ list \in Seq(Instruction)
    BY <1>1
  <2> HIDE DEF g
  <2>2. FlatMap(g, list) \in Seq(Byte)
    BY ONLY <2>1, FlatMapType
  <2> QED BY <2>2 DEF g, RebuiltFrom
<1>3. Maps(BatchRebuilt(f), Seq(Instruction), Seq(Byte))
  BY <1>2 DEF BatchRebuilt, Maps
<1> QED BY <1>1, <1>2, <1>3

\* Instructions that cover a file rebuild it.
LEMMA CoversRebuilds ==
  ASSUME NEW f \in Seq(Byte), NEW d \in Seq(Byte), NEW t \in Seq(Instruction),
         Covers(f, d, t, 0, Len(d))
  PROVE  RebuiltFrom(f, t) = d
<1> DEFINE N == Len(t)
           g == Applied(f)
           E(m) == IF m = 0 THEN 0 ELSE EndOf(f, t[m])
           Same(m) == E(m) \in 0 .. Len(d) /\ FlatMap(g, SubSeq(t, 1, m)) = Slice(d, 0, E(m))
           P == {m \in 0 .. N : Same(m)}
<1>0. N \in Nat /\ Len(d) \in Nat
  BY LenProperties
<1>1. 0 \in P
  <2>1. SubSeq(t, 1, 0) = << >> /\ Slice(d, 0, 0) = << >>
    BY SubSeqEmpty DEF Slice
  <2> HIDE DEF g
  <2>2. Same(0)
    <3>1. FlatMap(g, SubSeq(t, 1, 0)) = Slice(d, 0, 0)
      BY <2>1, FlatMapNone
    <3>2. E(0) = 0 /\ 0 \in 0 .. Len(d)
      BY <1>0
    <3> HIDE DEF E
    <3> QED BY <3>1, <3>2
  <2> QED BY <1>0, <2>2
<1>2. ASSUME NEW m \in 0 .. N - 1, m \in P
      PROVE  m + 1 \in P
  <2> DEFINE r == t[m + 1]
             e == E(m)
  <2>1. /\ m \in Nat /\ m + 1 \in 1 .. N /\ m + 1 # 0
        /\ e \in 0 .. Len(d) /\ FlatMap(g, SubSeq(t, 1, m)) = Slice(d, 0, e)
    BY <1>0, <1>2
  <2>2. r \in Instruction
    BY <2>1, ElementOfSeq
  <2>3. EndOf(f, r) <= Len(d) /\ Apply(f, r) = Slice(d, r.offset, EndOf(f, r))
    BY <2>1 DEF Covers
  <2>4. r.offset = e
    <3>1. CASE m = 0
      <4>1. t # << >>
        BY <1>0, <2>1
      <4> QED BY <3>1, <4>1 DEF Covers
    <3>2. CASE m # 0
      <4>1. m \in 1 .. Len(t) - 1
        BY <1>0, <2>1, <3>2
      <4> QED BY <3>2, <4>1 DEF Covers
    <3> QED BY <3>1, <3>2
  <2>5. Apply(f, r) \in Seq(Byte) /\ EndOf(f, r) = e + Len(Apply(f, r)) /\ E(m + 1) = EndOf(f, r)
    BY <2>1, <2>2, <2>4, ApplyType DEF EndOf
  <2> DEFINE x == EndOf(f, r)
  <2>6. x \in Nat /\ e <= x /\ x <= Len(d)
    BY <2>1, <2>3, <2>5, LenProperties
  <2>7. FlatMap(g, SubSeq(t, 1, m + 1)) = FlatMap(g, SubSeq(t, 1, m)) \o g[r]
    <3>1. Maps(g, Instruction, Seq(Byte)) /\ m \in 0 .. Len(t) - 1
      BY RebuiltMaps
    <3> HIDE DEF g
    <3> QED BY <3>1, FlatMapNext, ZenonT(60)
  <2>8. g[r] = Slice(d, e, x)
    BY <2>2, <2>3, <2>4 DEF Applied
  <2> HIDE DEF r, e, x, g
  <2>9. Slice(d, 0, e) \o Slice(d, e, x) = Slice(d, 0, x)
    <3>1. 0 + 1 = 1 /\ 1 \in 1 .. Len(d) + 1 /\ e \in 1 - 1 .. Len(d) /\ x \in e .. Len(d)
      BY <1>0, <2>1, <2>6
    <3>2. SubSeq(d, 1, e) \o SubSeq(d, e + 1, x) = SubSeq(d, 1, x)
      BY <3>1, ConcatAdjacentSubSeq
    <3> QED BY <3>1, <3>2 DEF Slice
  <2>10. E(m + 1) = x
    BY <2>5 DEF x
  <2> HIDE DEF E
  <2>11. Same(m + 1)
    <3>1. FlatMap(g, SubSeq(t, 1, m + 1)) = Slice(d, 0, x)
      BY <2>1, <2>7, <2>8, <2>9
    <3>2. x \in 0 .. Len(d)
      BY <1>0, <2>6
    <3> QED BY <2>10, <3>1, <3>2
  <2> QED BY <1>0, <2>1, <2>11
<1> HIDE DEF P
<1>3. 0 .. N \subseteq P
  BY <1>0, <1>1, <1>2, Induction
<1>4. Same(N)
  BY <1>0, <1>3 DEF P
<1>5. SubSeq(t, 1, N) = t
  BY SubSeqFull
<1>6. E(N) = Len(d)
  <2>1. CASE N = 0
    <3>1. t = << >>
      BY <2>1, EmptySeq
    <3> QED BY <2>1, <3>1 DEF Covers
  <2>2. CASE N # 0
    <3>1. t # << >>
      BY <1>0, <2>2, EmptySeq
    <3> QED BY <2>2, <3>1 DEF Covers
  <2> QED BY <2>1, <2>2
<1>7. Slice(d, 0, Len(d)) = d
  BY SubSeqFull DEF Slice
<1> HIDE DEF E, g
<1> QED BY <1>4, <1>5, <1>6, <1>7 DEF RebuiltFrom, g

-----------------------------------------------------------------------------
(* What instructions amount to *)

\* The literal bytes of an instruction, and the reference it is.
Carried == [r \in Instruction |-> IF r.isLiteral THEN r.data ELSE << >>]
RefOf == [r \in Instruction |-> IF r.isLiteral THEN << >> ELSE << r >>]

LEMMA SentMaps == Maps(Carried, Instruction, Seq(Byte)) /\ Maps(RefOf, Instruction, Seq(Instruction))
<1>1. Maps(Carried, Instruction, Seq(Byte))
  BY DEF Carried, Maps, Instruction
<1>2. Maps(RefOf, Instruction, Seq(Instruction))
  BY DEF RefOf, Maps
<1> QED BY <1>1, <1>2

\* The data of some instructions has as many bytes as what g makes of the list,
\* if g takes the data of those and nothing of the others.
Takes(g, t, K) == \A k \in 1 .. Len(t) : g[t[k]] = IF k \in K THEN t[k].data ELSE << >>

LEMMA DataCountMaps ==
  ASSUME NEW g, Maps(g, Instruction, Seq(Byte)), NEW t \in Seq(Instruction),
         NEW K \in SUBSET (1 .. Len(t)), Takes(g, t, K)
  PROVE  DataCount(t, K) = Len(FlatMap(g, t))
<1> DEFINE N == Len(t)
           U(m) == K \cap 1 .. m
           F(m) == FlatMap(g, SubSeq(t, 1, m))
           Same(m) == DataCount(t, U(m)) = Len(F(m))
           P == {m \in 0 .. N : Same(m)}
<1>0. N \in Nat
  BY LenProperties
<1>1. 0 \in P
  <2>1. U(0) = {} /\ SubSeq(t, 1, 0) = << >>
    BY SubSeqEmpty
  <2>2. DataCount(t, {}) = 0 /\ FlatMap(g, << >>) = << >>
    BY NothingCounted, FlatMapNone
  <2>3. U(0) = {} /\ F(0) = << >> /\ Len(<< >>) = 0
    BY <2>1, <2>2
  <2>4. Same(0)
    <3> HIDE DEF U, F
    <3> QED BY <2>2, <2>3
  <2> HIDE DEF Same
  <2> QED BY <1>0, <2>4
<1>2. ASSUME NEW m \in 0 .. N - 1, m \in P
      PROVE  m + 1 \in P
  <2> DEFINE x == m + 1
  <2>0. m \in Nat /\ x \in 1 .. N /\ m \in 0 .. Len(t) - 1
    BY <1>0
  <2>1. F(x) = F(m) \o g[t[x]]
    <3>1. m \in 0 .. Len(t) - 1
      BY <1>0
    <3> QED BY <3>1, FlatMapNext, ZenonT(60)
  <2>2. t[x] \in Instruction /\ SubSeq(t, 1, m) \in Seq(Instruction)
    BY <2>0, PrefixNext
  <2>3. F(m) \in Seq(Byte)
    BY <2>2, FlatMapType
  <2>4. g[t[x]] \in Seq(Byte) /\ g[t[x]] = IF x \in K THEN t[x].data ELSE << >>
    BY <2>0, <2>2 DEF Maps, Takes
  <2>5. DataCount(t, U(m)) = Len(F(m))
    BY <1>2
  <2>6. Len(F(x)) = Len(F(m)) + Len(g[t[x]])
    <3> HIDE DEF F
    <3> QED BY <2>1, <2>3, <2>4, ConcatProperties
  <2>7. DataCount(t, U(x)) = Len(F(m)) + Len(g[t[x]])
    <3>1. CASE x \in K
      <4> DEFINE T == U(m)
      <4>1. x \notin T /\ U(x) = T \cup {x} /\ IsFiniteSet(T)
        <5>1. IsFiniteSet(1 .. m) /\ T \subseteq 1 .. m
          BY <2>0, FS_Interval
        <5>2. IsFiniteSet(T)
          BY <5>1, FS_Subset
        <5>3. U(x) = T \cup {x} /\ x \notin T
          BY <1>0, <2>0, <3>1
        <5> QED BY <5>2, <5>3
      <4>2. \A k \in T \cup {x} : Len(t[k].data) \in Nat
        <5>1. \A k \in T \cup {x} : t[k] \in Instruction
          BY <3>1, ElementOfSeq
        <5> QED BY <5>1, LenProperties DEF Instruction
      <4> HIDE DEF T, x
      <4>3. DataCount(t, T \cup {x}) = DataCount(t, T) + Len(t[x].data)
        BY <4>1, <4>2, DataCountAdd
      <4>4. DataCount(t, T) = Len(F(m)) /\ g[t[x]] = t[x].data
        BY <2>4, <2>5, <3>1 DEF T
      <4> HIDE DEF U, F
      <4> QED BY <4>1, <4>3, <4>4
    <3>2. CASE x \notin K
      <4>1. U(x) = U(m)
        BY <1>0, <2>0, <3>2
      <4>2. Len(g[t[x]]) = 0 /\ Len(F(m)) \in Nat
        BY <2>3, <2>4, <3>2, LenProperties
      <4> HIDE DEF U, F
      <4> QED BY <2>5, <4>1, <4>2
    <3> QED BY <3>1, <3>2
  <2> HIDE DEF F, U
  <2> QED BY <1>0, <2>0, <2>6, <2>7
<1> HIDE DEF P
<1>3. 0 .. N \subseteq P
  BY <1>0, <1>1, <1>2, Induction
<1>4. Same(N)
  <2> HIDE DEF Same
  <2> QED BY <1>0, <1>3 DEF P
<1>5. U(N) = K /\ SubSeq(t, 1, N) = t
  BY SubSeqFull
<1> QED BY <1>4, <1>5

\* References carry no data.
Plain(t) == \A k \in 1 .. Len(t) : ~ t[k].isLiteral => t[k].data = << >>

\* LiteralBytes counts bytes, whichever way they are added up.
LEMMA LiteralCountIs ==
  ASSUME NEW t \in Seq(Instruction)
  PROVE  /\ LiteralCount(t) = Len(FlatMap(Carried, t))
         /\ Plain(t) => DataCount(t, 1 .. Len(t)) = LiteralCount(t)
<1> DEFINE K == {k \in DOMAIN t : t[k].isLiteral}
           A == 1 .. Len(t)
<1>1. /\ DOMAIN t = A /\ K \in SUBSET A /\ A \in SUBSET A
      /\ \A k \in A : t[k] \in Instruction
      /\ Maps(Carried, Instruction, Seq(Byte))
  BY LenProperties, ElementOfSeq, SentMaps
<1>2. Takes(Carried, t, K)
  BY <1>1 DEF Takes, Carried
<1>3. LiteralCount(t) = DataCount(t, K)
  BY Zenon DEF LiteralCount, K, DataCount, MapThenSumSet, MapThenFoldSet
<1> HIDE DEF K
<1>4. DataCount(t, K) = Len(FlatMap(Carried, t))
  BY <1>1, <1>2, DataCountMaps
<1>5. ASSUME Plain(t)
      PROVE  DataCount(t, A) = Len(FlatMap(Carried, t))
  <2>1. Takes(Carried, t, A)
    BY <1>1, <1>5 DEF Takes, Carried, Plain
  <2> HIDE DEF A
  <2> QED BY <1>1, <2>1, DataCountMaps DEF A
<1> QED BY <1>3, <1>4, <1>5

LEMMA ReferencesAre ==
  ASSUME NEW t \in Seq(Instruction)
  PROVE  References(t) = FlatMap(RefOf, t) /\ References(t) \in Seq(Instruction)
<1>1. DOMAIN t = 1 .. Len(t) /\ \A k \in 1 .. Len(t) : t[k] \in Instruction
  BY LenProperties, ElementOfSeq
<1>2. Mapped(RefOf, t) = [k \in DOMAIN t |-> IF t[k].isLiteral THEN << >> ELSE << t[k] >>]
  BY <1>1 DEF Mapped, RefOf
<1>3. References(t) = FlatMap(RefOf, t)
  BY <1>2, Zenon DEF References, FlatMap
<1>4. FlatMap(RefOf, t) \in Seq(Instruction)
  BY SentMaps, FlatMapType
<1> QED BY <1>3, <1>4

\* The references of two lists, and what the lists amount to.
LEMMA CountsConcat ==
  ASSUME NEW a \in Seq(Instruction), NEW b \in Seq(Instruction)
  PROVE  /\ References(a \o b) = References(a) \o References(b)
         /\ MatchCount(a \o b) = MatchCount(a) + MatchCount(b)
         /\ LiteralCount(a \o b) = LiteralCount(a) + LiteralCount(b)
<1>1. a \o b \in Seq(Instruction)
  BY ConcatProperties
<1>2. /\ References(a \o b) = FlatMap(RefOf, a \o b)
      /\ References(a) = FlatMap(RefOf, a) /\ References(a) \in Seq(Instruction)
      /\ References(b) = FlatMap(RefOf, b) /\ References(b) \in Seq(Instruction)
  BY <1>1, ReferencesAre
<1>3. FlatMap(RefOf, a \o b) = FlatMap(RefOf, a) \o FlatMap(RefOf, b)
  BY SentMaps, FlatMapConcat
<1>4. References(a \o b) = References(a) \o References(b)
  BY <1>2, <1>3
<1>5. MatchCount(a \o b) = MatchCount(a) + MatchCount(b)
  BY <1>2, <1>4, ConcatProperties DEF MatchCount
<1>6. LiteralCount(a \o b) = LiteralCount(a) + LiteralCount(b)
  <2>1. /\ LiteralCount(a \o b) = Len(FlatMap(Carried, a \o b))
        /\ LiteralCount(a) = Len(FlatMap(Carried, a)) /\ LiteralCount(b) = Len(FlatMap(Carried, b))
    BY <1>1, LiteralCountIs
  <2>2. FlatMap(Carried, a \o b) = FlatMap(Carried, a) \o FlatMap(Carried, b)
    BY SentMaps, FlatMapConcat
  <2>3. FlatMap(Carried, a) \in Seq(Byte) /\ FlatMap(Carried, b) \in Seq(Byte)
    BY SentMaps, FlatMapType
  <2> QED BY <2>1, <2>2, <2>3, ConcatProperties
<1> QED BY <1>4, <1>5, <1>6

\* Matches counts references, one by one or all at once.
LEMMA MatchCountIs ==
  ASSUME NEW t \in Seq(Instruction)
  PROVE  Cardinality({k \in 1 .. Len(t) : ~ t[k].isLiteral}) = MatchCount(t)
<1> DEFINE N == Len(t)
           U(m) == {k \in 1 .. m : ~ t[k].isLiteral}
           F(m) == FlatMap(RefOf, SubSeq(t, 1, m))
           Same(m) == IsFiniteSet(U(m)) /\ Cardinality(U(m)) = Len(F(m))
           P == {m \in 0 .. N : Same(m)}
<1>0. N \in Nat
  BY LenProperties
<1>1. 0 \in P
  <2>1. U(0) = {} /\ SubSeq(t, 1, 0) = << >>
    BY SubSeqEmpty
  <2>2. IsFiniteSet({}) /\ Cardinality({}) = 0 /\ FlatMap(RefOf, << >>) = << >>
    BY FS_EmptySet, FlatMapNone
  <2>3. U(0) = {} /\ F(0) = << >> /\ Len(<< >>) = 0
    BY <2>1, <2>2
  <2>4. Same(0)
    <3> HIDE DEF U, F
    <3> QED BY <2>2, <2>3
  <2> HIDE DEF Same
  <2> QED BY <1>0, <2>4
<1>2. ASSUME NEW m \in 0 .. N - 1, m \in P
      PROVE  m + 1 \in P
  <2> DEFINE x == m + 1
  <2>0. m \in Nat /\ x \in 1 .. N /\ Maps(RefOf, Instruction, Seq(Instruction))
    BY <1>0, SentMaps
  <2>1. F(x) = F(m) \o RefOf[t[x]]
    BY <2>0, FlatMapNext, ZenonT(60)
  <2>2. t[x] \in Instruction /\ SubSeq(t, 1, m) \in Seq(Instruction)
    BY PrefixNext
  <2>3. F(m) \in Seq(Instruction)
    BY <2>0, <2>2, FlatMapType
  <2>4. IsFiniteSet(U(m)) /\ Cardinality(U(m)) = Len(F(m)) /\ Len(F(m)) \in Nat
    BY <1>2, <2>3, LenProperties
  <2>5. CASE t[x].isLiteral
    <3>1. U(x) = U(m) /\ RefOf[t[x]] = << >>
      BY <1>0, <2>0, <2>2, <2>5 DEF RefOf
    <3> HIDE DEF U, F
    <3>2. F(x) = F(m)
      BY <2>1, <2>3, <3>1, ConcatEmptySeq
    <3> QED BY <1>0, <2>0, <2>4, <3>1, <3>2
  <2>6. CASE ~ t[x].isLiteral
    <3>1. U(x) = U(m) \cup {x} /\ x \notin U(m) /\ RefOf[t[x]] = << t[x] >>
      BY <1>0, <2>0, <2>2, <2>6 DEF RefOf
    <3> HIDE DEF U, F, x
    <3>2. IsFiniteSet(U(m) \cup {x}) /\ Cardinality(U(m) \cup {x}) = Cardinality(U(m)) + 1
      BY <2>4, <3>1, FS_AddElement
    <3>3. Len(F(x)) = Len(F(m)) + 1
      <4>1. << t[x] >> \in Seq(Instruction) /\ Len(<< t[x] >>) = 1
        BY <2>2
      <4> QED BY <2>1, <2>3, <3>1, <4>1, ConcatProperties
    <3>4. Same(x)
      BY <2>4, <3>1, <3>2, <3>3
    <3> HIDE DEF Same
    <3> QED BY <1>0, <2>0, <3>4 DEF x
  <2> QED BY <2>5, <2>6
<1> HIDE DEF P
<1>3. 0 .. N \subseteq P
  BY <1>0, <1>1, <1>2, Induction
<1>4. Same(N)
  <2> HIDE DEF Same
  <2> QED BY <1>0, <1>3 DEF P
<1>5. SubSeq(t, 1, N) = t /\ References(t) = FlatMap(RefOf, t)
  BY SubSeqFull, ReferencesAre
<1> QED BY <1>4, <1>5 DEF MatchCount

\* Chunks of data have its bytes and no references, wherever they are sent.
LEMMA ChunksAmount ==
  ASSUME NEW d \in Seq(Byte), NEW lo \in Nat
  PROVE  /\ Chunks(d, lo) \in Seq(Instruction) /\ Plain(Chunks(d, lo))
         /\ References(Chunks(d, lo)) = << >> /\ MatchCount(Chunks(d, lo)) = 0
         /\ LiteralCount(Chunks(d, lo)) = Len(d)
<1> DEFINE c == Chunks(d, 0)
           e == Chunks(d, lo)
           N == (Len(d) + ChunkSize - 1) \div ChunkSize
           x(k) == Slice(d, (k - 1) * ChunkSize, Least((k - 1) * ChunkSize + ChunkSize, Len(d)))
           g == Applied(<< >>)
           n == Len(c)
<1>1. c \in Seq(Instruction) /\ RebuiltFrom(<< >>, c) = d
  <2>1. << >> \in Seq(Byte)
    BY EmptySeq
  <2> HIDE DEF c
  <2>2. c \in Seq(Instruction) /\ Covers(<< >>, d, c, 0, Len(d))
    BY <2>1, ChunksRebuild DEF c
  <2> QED BY <2>1, <2>2, CoversRebuilds
<1>2. /\ c = [k \in 1 .. N |-> Literal(x(k), 0 + (k - 1) * ChunkSize)]
      /\ e = [k \in 1 .. N |-> Literal(x(k), lo + (k - 1) * ChunkSize)]
  BY Zenon DEF Chunks
<1> HIDE DEF c, e, N, x, n
<1>3. 1 .. N = 1 .. n /\ n \in Nat /\ DOMAIN c = 1 .. n
  BY <1>1, <1>2, LenProperties DEF n
<1>4. ASSUME NEW k \in 1 .. n
      PROVE  /\ c[k] \in Instruction /\ c[k].isLiteral /\ c[k].data = x(k) /\ x(k) \in Seq(Byte)
             /\ e[k] = Literal(x(k), lo + (k - 1) * ChunkSize)
             /\ e[k] \in Instruction /\ e[k].isLiteral /\ e[k].data = x(k)
  <2>1. c[k] \in Instruction
    BY <1>1, ElementOfSeq DEF n
  <2>2. c[k].isLiteral /\ c[k].data = x(k)
    BY <1>2, <1>3 DEF Literal
  <2>3. x(k) \in Seq(Byte)
    BY <2>1, <2>2 DEF Instruction
  <2>4. e[k] = Literal(x(k), lo + (k - 1) * ChunkSize)
    BY <1>2, <1>3
  <2>5. lo + (k - 1) * ChunkSize \in Nat
    BY ChunkSizeAssumption
  <2> QED BY <2>1, <2>2, <2>3, <2>4, <2>5 DEF Literal, Instruction
<1>5. e \in Seq(Instruction) /\ Len(e) = n /\ DOMAIN e = 1 .. n
  <2>1. e = [k \in 1 .. n |-> e[k]]
    BY <1>2, <1>3
  <2>2. \A k \in 1 .. n : e[k] \in Instruction
    BY <1>4
  <2> QED BY <1>3, <2>1, <2>2, LenProperties
<1>6. LiteralCount(e) = Len(d)
  <2>1. Mapped(Carried, e) = [k \in 1 .. n |-> x(k)]
    BY <1>4, <1>5 DEF Mapped, Carried
  <2>2. Mapped(g, c) = [k \in 1 .. n |-> x(k)]
    BY <1>3, <1>4 DEF Mapped, Applied, Apply
  <2>3. FlatMap(Carried, e) = RebuiltFrom(<< >>, c)
    BY <2>1, <2>2 DEF FlatMap, RebuiltFrom
  <2> QED BY <1>1, <1>5, <2>3, LiteralCountIs
<1>7. MatchCount(e) = 0 /\ References(e) = << >>
  <2>1. {k \in 1 .. Len(e) : ~ e[k].isLiteral} = {}
    BY <1>4, <1>5
  <2>2. Cardinality({k \in 1 .. Len(e) : ~ e[k].isLiteral}) = 0
    BY <2>1, FS_EmptySet
  <2>3. MatchCount(e) = 0
    BY <1>5, <2>2, MatchCountIs
  <2>4. References(e) \in Seq(Instruction) /\ Len(References(e)) = 0
    BY <1>5, <2>3, ReferencesAre DEF MatchCount
  <2> QED BY <2>3, <2>4, EmptySeq
<1>8. Plain(e)
  BY <1>4, <1>5 DEF Plain
<1> QED BY <1>5, <1>6, <1>7, <1>8 DEF e

LEMMA SliceChunksAmount ==
  ASSUME NEW d \in Seq(Byte), NEW lo \in Nat, NEW hi \in Nat, lo <= hi, hi <= Len(d)
  PROVE  LET t == Chunks(Slice(d, lo, hi), lo)
         IN  /\ t \in Seq(Instruction) /\ Plain(t)
             /\ References(t) = << >> /\ MatchCount(t) = 0 /\ LiteralCount(t) = hi - lo
<1> DEFINE s == Slice(d, lo, hi)
<1>1. s \in Seq(Byte) /\ Len(s) = hi - lo
  BY SliceType, ZenonT(60)
<1> HIDE DEF s
<1>2. /\ Chunks(s, lo) \in Seq(Instruction) /\ Plain(Chunks(s, lo))
      /\ References(Chunks(s, lo)) = << >> /\ MatchCount(Chunks(s, lo)) = 0
      /\ LiteralCount(Chunks(s, lo)) = Len(s)
  BY <1>1, ChunksAmount
<1> QED BY <1>1, <1>2 DEF s

\* A reference is one match and no bytes, and so is nothing at all nothing.
LEMMA MatchAmounts ==
  ASSUME NEW i \in Nat, NEW o \in Nat
  PROVE  LET t == << Match(i, o) >>
         IN  /\ t \in Seq(Instruction) /\ Plain(t)
             /\ References(t) = t /\ MatchCount(t) = 1 /\ LiteralCount(t) = 0
<1> DEFINE r == Match(i, o)
           t == << r >>
<1>1. /\ r \in Instruction /\ ~ r.isLiteral /\ r.data = << >>
      /\ Carried[r] = << >> /\ RefOf[r] = t
  <2>1. r \in Instruction /\ ~ r.isLiteral /\ r.data = << >>
    BY EmptySeq DEF Match, Instruction
  <2> HIDE DEF r
  <2> QED BY <2>1 DEF Carried, RefOf
<1> HIDE DEF r
<1>2. t \in Seq(Instruction) /\ Len(t) = 1 /\ t[1] = r
  BY <1>1
<1>3. FlatMap(Carried, t) = << >> /\ FlatMap(RefOf, t) = t
  <2>1. FlatMap(Carried, t) = Carried[r]
    BY <1>1, SentMaps, FlatMapOne
  <2>2. FlatMap(RefOf, t) = RefOf[r]
    BY <1>1, SentMaps, FlatMapOne
  <2> QED BY <1>1, <2>1, <2>2
<1> HIDE DEF t
<1>4. References(t) = t /\ LiteralCount(t) = Len(<< >>)
  BY <1>2, <1>3, ReferencesAre, LiteralCountIs
<1>5. Plain(t)
  BY <1>1, <1>2 DEF Plain
<1>6. MatchCount(t) = 1 /\ LiteralCount(t) = 0
  BY <1>2, <1>4 DEF MatchCount
<1> QED BY <1>2, <1>4, <1>5, <1>6 DEF t, r

LEMMA NothingAmounts ==
  << >> \in Seq(Instruction) /\ Plain(<< >>) /\ References(<< >>) = << >>
    /\ MatchCount(<< >>) = 0 /\ LiteralCount(<< >>) = 0
<1>1. << >> \in Seq(Instruction) /\ FlatMap(Carried, << >>) = << >> /\ FlatMap(RefOf, << >>) = << >>
  BY EmptySeq, FlatMapNone
<1>2. References(<< >>) = << >> /\ LiteralCount(<< >>) = Len(<< >>)
  BY <1>1, ReferencesAre, LiteralCountIs
<1> QED BY <1>1, <1>2 DEF MatchCount, Plain
=============================================================================
