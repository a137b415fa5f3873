----------------------------- MODULE Transposition -----------------------------
(***************************************************************************)
(* How the words of blocks get into lanes before a core of MD5 is entered: *)
(* x[i][b] is to be word i of block b.  Chunks of blocks that lie apart    *)
(* are gathered word by word; the last chunks of eight equally long tails  *)
(* lie in one buffer and are shuffled, in 256-bit registers of eight words *)
(* (md5x8TransposeFast).                                                   *)
(***************************************************************************)
EXTENDS Integers

\* VPGATHERDD, VPINSRD, and the loop over words and lanes on arm64.
WordByWord(buf) == [i \in 0 .. 15 |-> [b \in DOMAIN buf |-> buf[b][i]]]

\* A shuffle takes word n of v, or word n - 8 of w, for each n of its pattern.
Shuffle(v, w, pattern) ==
  [k \in 0 .. 7 |-> IF pattern[k] < 8 THEN v[pattern[k]] ELSE w[pattern[k] - 8]]

Pattern(p0, p1, p2, p3, p4, p5, p6, p7) ==
  [k \in 0 .. 7 |-> CASE k = 0 -> p0 [] k = 1 -> p1 [] k = 2 -> p2 [] k = 3 -> p3
                      [] k = 4 -> p4 [] k = 5 -> p5 [] k = 6 -> p6 [] k = 7 -> p7]

\* VPUNPCKLDQ, VPUNPCKHDQ, VPUNPCKLQDQ and VPUNPCKHQDQ stay in each half.
LowWords  == Pattern(0, 8, 1, 9, 4, 12, 5, 13)
HighWords == Pattern(2, 10, 3, 11, 6, 14, 7, 15)
LowPairs  == Pattern(0, 1, 8, 9, 4, 5, 12, 13)
HighPairs == Pattern(2, 3, 10, 11, 6, 7, 14, 15)

\* VINSERTI128 $1, and VEXTRACTI128 $1 with VINSERTI128 $0 after it.
LowHalves  == Pattern(0, 1, 2, 3, 8, 9, 10, 11)
HighHalves == Pattern(4, 5, 6, 7, 12, 13, 14, 15)

\* T0 to T7, made of the registers Y0 to Y7, two by two.
Interleaved(y) ==
  [r \in 0 .. 7 |->
     LET p == 2 * (r \div 2)
     IN  Shuffle(y[p], y[p + 1], IF r % 2 = 0 THEN LowWords ELSE HighWords)]

\* U0 to U7: T0 with T2, T1 with T3, T4 with T6 and T5 with T7.
Merged(t) ==
  [r \in 0 .. 7 |->
     LET p == 4 * (r \div 4) + (r % 4) \div 2
     IN  Shuffle(t[p], t[p + 2], IF r % 2 = 0 THEN LowPairs ELSE HighPairs)]

\* Words r and r + 4, made of the halves of Ur and U(r+4).
Paired(u) ==
  [r \in 0 .. 7 |->
     IF r < 4 THEN Shuffle(u[r], u[r + 4], LowHalves)
     ELSE Shuffle(u[r - 4], u[r], HighHalves)]

\* Eight words of each block, from its word n on.
Pass(buf, n) == Paired(Merged(Interleaved([b \in 0 .. 7 |-> [k \in 0 .. 7 |-> buf[b][n + k]]])))

TransposeFast(buf) ==
  [i \in 0 .. 15 |-> IF i < 8 THEN Pass(buf, 0)[i] ELSE Pass(buf, 8)[i - 8]]
================================================================================
