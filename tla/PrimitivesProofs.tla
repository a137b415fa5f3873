---------------------------- MODULE PrimitivesProofs ----------------------------
(***************************************************************************)
(* Theorems about the parts signatures are made of.                        *)
(*                                                                         *)
(* MD5Core and the transposition before it: the shuffles of                *)
(* md5x8TransposeFast put every word of eight blocks where gathering word  *)
(* by word puts it, and every vector core computes, lane by lane and step  *)
(* by step, what the scalar rounds compute, for words of any width and any *)
(* table of constants and rotations.                                       *)
(*                                                                         *)
(* BlockSizes: the block size that is advised for a file is one the        *)
(* decoder of its signature accepts, whatever the limits are that satisfy  *)
(* SizesAssumption, and for files of any size.                             *)
(*                                                                         *)
(* BatchedSum: every kernel, the batches and the byte-by-byte loop give    *)
(* the checksum RollingSum defines.  The sums are finite ones; what they   *)
(* need (parts, rows and columns, weights) comes first, then congruence    *)
(* modulo Mod, under which wrapping is harmless, then one turn of each     *)
(* loop, and last the invariant.                                           *)
(*                                                                         *)
(* LaneHash and BlockSums: every lane gives the digest its block has by    *)
(* itself, and the weak checksum kept beside it is of the same bytes.      *)
(* First how texts are cut into chunks and end, then the chunks of blocks, *)
(* then one step of the hash, and last a whole batch.                      *)
(***************************************************************************)
EXTENDS Primitives, BlocksProofs

-----------------------------------------------------------------------------
(* Single instructions *)

LEMMA ShuffledAt ==
  ASSUME NEW v, NEW w
  PROVE  /\ Shuffle(v, w, LowWords)[0] = v[0] /\ Shuffle(v, w, LowWords)[1] = w[0]
         /\ Shuffle(v, w, LowWords)[2] = v[1] /\ Shuffle(v, w, LowWords)[3] = w[1]
         /\ Shuffle(v, w, LowWords)[4] = v[4] /\ Shuffle(v, w, LowWords)[5] = w[4]
         /\ Shuffle(v, w, LowWords)[6] = v[5] /\ Shuffle(v, w, LowWords)[7] = w[5]
         /\ Shuffle(v, w, HighWords)[0] = v[2] /\ Shuffle(v, w, HighWords)[1] = w[2]
         /\ Shuffle(v, w, HighWords)[2] = v[3] /\ Shuffle(v, w, HighWords)[3] = w[3]
         /\ Shuffle(v, w, HighWords)[4] = v[6] /\ Shuffle(v, w, HighWords)[5] = w[6]
         /\ Shuffle(v, w, HighWords)[6] = v[7] /\ Shuffle(v, w, HighWords)[7] = w[7]
         /\ Shuffle(v, w, LowPairs)[0] = v[0] /\ Shuffle(v, w, LowPairs)[1] = v[1]
         /\ Shuffle(v, w, LowPairs)[2] = w[0] /\ Shuffle(v, w, LowPairs)[3] = w[1]
         /\ Shuffle(v, w, LowPairs)[4] = v[4] /\ Shuffle(v, w, LowPairs)[5] = v[5]
         /\ Shuffle(v, w, LowPairs)[6] = w[4] /\ Shuffle(v, w, LowPairs)[7] = w[5]
         /\ Shuffle(v, w, HighPairs)[0] = v[2] /\ Shuffle(v, w, HighPairs)[1] = v[3]
         /\ Shuffle(v, w, HighPairs)[2] = w[2] /\ Shuffle(v, w, HighPairs)[3] = w[3]
         /\ Shuffle(v, w, HighPairs)[4] = v[6] /\ Shuffle(v, w, HighPairs)[5] = v[7]
         /\ Shuffle(v, w, HighPairs)[6] = w[6] /\ Shuffle(v, w, HighPairs)[7] = w[7]
         /\ Shuffle(v, w, LowHalves)[0] = v[0] /\ Shuffle(v, w, LowHalves)[1] = v[1]
         /\ Shuffle(v, w, LowHalves)[2] = v[2] /\ Shuffle(v, w, LowHalves)[3] = v[3]
         /\ Shuffle(v, w, LowHalves)[4] = w[0] /\ Shuffle(v, w, LowHalves)[5] = w[1]
         /\ Shuffle(v, w, LowHalves)[6] = w[2] /\ Shuffle(v, w, LowHalves)[7] = w[3]
         /\ Shuffle(v, w, HighHalves)[0] = v[4] /\ Shuffle(v, w, HighHalves)[1] = v[5]
         /\ Shuffle(v, w, HighHalves)[2] = v[6] /\ Shuffle(v, w, HighHalves)[3] = v[7]
         /\ Shuffle(v, w, HighHalves)[4] = w[4] /\ Shuffle(v, w, HighHalves)[5] = w[5]
         /\ Shuffle(v, w, HighHalves)[6] = w[6] /\ Shuffle(v, w, HighHalves)[7] = w[7]
<1>1. /\ Shuffle(v, w, LowWords)[0] = v[0] /\ Shuffle(v, w, LowWords)[1] = w[0]
      /\ Shuffle(v, w, LowWords)[2] = v[1] /\ Shuffle(v, w, LowWords)[3] = w[1]
      /\ Shuffle(v, w, LowWords)[4] = v[4] /\ Shuffle(v, w, LowWords)[5] = w[4]
      /\ Shuffle(v, w, LowWords)[6] = v[5] /\ Shuffle(v, w, LowWords)[7] = w[5]
  BY SMTT(30) DEF Shuffle, Pattern, LowWords
<1>2. /\ Shuffle(v, w, HighWords)[0] = v[2] /\ Shuffle(v, w, HighWords)[1] = w[2]
      /\ Shuffle(v, w, HighWords)[2] = v[3] /\ Shuffle(v, w, HighWords)[3] = w[3]
      /\ Shuffle(v, w, HighWords)[4] = v[6] /\ Shuffle(v, w, HighWords)[5] = w[6]
      /\ Shuffle(v, w, HighWords)[6] = v[7] /\ Shuffle(v, w, HighWords)[7] = w[7]
  BY SMTT(30) DEF Shuffle, Pattern, HighWords
<1>3. /\ Shuffle(v, w, LowPairs)[0] = v[0] /\ Shuffle(v, w, LowPairs)[1] = v[1]
      /\ Shuffle(v, w, LowPairs)[2] = w[0] /\ Shuffle(v, w, LowPairs)[3] = w[1]
      /\ Shuffle(v, w, LowPairs)[4] = v[4] /\ Shuffle(v, w, LowPairs)[5] = v[5]
      /\ Shuffle(v, w, LowPairs)[6] = w[4] /\ Shuffle(v, w, LowPairs)[7] = w[5]
  BY SMTT(30) DEF Shuffle, Pattern, LowPairs
<1>4. /\ Shuffle(v, w, HighPairs)[0] = v[2] /\ Shuffle(v, w, HighPairs)[1] = v[3]
      /\ Shuffle(v, w, HighPairs)[2] = w[2] /\ Shuffle(v, w, HighPairs)[3] = w[3]
      /\ Shuffle(v, w, HighPairs)[4] = v[6] /\ Shuffle(v, w, HighPairs)[5] = v[7]
      /\ Shuffle(v, w, HighPairs)[6] = w[6] /\ Shuffle(v, w, HighPairs)[7] = w[7]
  BY SMTT(30) DEF Shuffle, Pattern, HighPairs
<1>5. /\ Shuffle(v, w, LowHalves)[0] = v[0] /\ Shuffle(v, w, LowHalves)[1] = v[1]
      /\ Shuffle(v, w, LowHalves)[2] = v[2] /\ Shuffle(v, w, LowHalves)[3] = v[3]
      /\ Shuffle(v, w, LowHalves)[4] = w[0] /\ Shuffle(v, w, LowHalves)[5] = w[1]
      /\ Shuffle(v, w, LowHalves)[6] = w[2] /\ Shuffle(v, w, LowHalves)[7] = w[3]
  BY SMTT(30) DEF Shuffle, Pattern, LowHalves
<1>6. /\ Shuffle(v, w, HighHalves)[0] = v[4] /\ Shuffle(v, w, HighHalves)[1] = v[5]
      /\ Shuffle(v, w, HighHalves)[2] = v[6] /\ Shuffle(v, w, HighHalves)[3] = v[7]
      /\ Shuffle(v, w, HighHalves)[4] = w[4] /\ Shuffle(v, w, HighHalves)[5] = w[5]
      /\ Shuffle(v, w, HighHalves)[6] = w[6] /\ Shuffle(v, w, HighHalves)[7] = w[7]
  BY SMTT(30) DEF Shuffle, Pattern, HighHalves
<1> QED BY <1>1, <1>2, <1>3, <1>4, <1>5, <1>6

-----------------------------------------------------------------------------
(* The three rounds of shuffles *)

LEMMA InterleavedRows ==
  ASSUME NEW y
  PROVE  /\ Interleaved(y)[0] = Shuffle(y[0], y[1], LowWords)
         /\ Interleaved(y)[1] = Shuffle(y[0], y[1], HighWords)
         /\ Interleaved(y)[2] = Shuffle(y[2], y[3], LowWords)
         /\ Interleaved(y)[3] = Shuffle(y[2], y[3], HighWords)
         /\ Interleaved(y)[4] = Shuffle(y[4], y[5], LowWords)
         /\ Interleaved(y)[5] = Shuffle(y[4], y[5], HighWords)
         /\ Interleaved(y)[6] = Shuffle(y[6], y[7], LowWords)
         /\ Interleaved(y)[7] = Shuffle(y[6], y[7], HighWords)
BY DEF Interleaved

LEMMA MergedRows ==
  ASSUME NEW t
  PROVE  /\ Merged(t)[0] = Shuffle(t[0], t[2], LowPairs)
         /\ Merged(t)[1] = Shuffle(t[0], t[2], HighPairs)
         /\ Merged(t)[2] = Shuffle(t[1], t[3], LowPairs)
         /\ Merged(t)[3] = Shuffle(t[1], t[3], HighPairs)
         /\ Merged(t)[4] = Shuffle(t[4], t[6], LowPairs)
         /\ Merged(t)[5] = Shuffle(t[4], t[6], HighPairs)
         /\ Merged(t)[6] = Shuffle(t[5], t[7], LowPairs)
         /\ Merged(t)[7] = Shuffle(t[5], t[7], HighPairs)
BY DEF Merged

LEMMA PairedRows ==
  ASSUME NEW u
  PROVE  \A r \in 0 .. 3 : /\ Paired(u)[r] = Shuffle(u[r], u[r + 4], LowHalves)
                            /\ Paired(u)[r + 4] = Shuffle(u[r], u[r + 4], HighHalves)
BY DEF Paired

\* A pass turns the rows of eight registers into columns.
LEMMA PassTransposes ==
  ASSUME NEW y, NEW r \in 0 .. 7, NEW b \in 0 .. 7
  PROVE  Paired(Merged(Interleaved(y)))[r][b] = y[b][r]
<1> DEFINE t == Interleaved(y)
           u == Merged(t)
<1>1. Paired(u) = Paired(Merged(Interleaved(y)))
  OBVIOUS
<1>2. \A p \in 0 .. 3 : /\ Paired(u)[p] = Shuffle(u[p], u[p + 4], LowHalves)
                        /\ Paired(u)[p + 4] = Shuffle(u[p], u[p + 4], HighHalves)
  BY PairedRows
<1>3. \A p \in {0, 4} :
        /\ u[p] = Shuffle(t[p], t[p + 2], LowPairs)
        /\ u[p + 1] = Shuffle(t[p], t[p + 2], HighPairs)
        /\ u[p + 2] = Shuffle(t[p + 1], t[p + 3], LowPairs)
        /\ u[p + 3] = Shuffle(t[p + 1], t[p + 3], HighPairs)
  BY MergedRows
<1>4. \A p \in {0, 2, 4, 6} :
        /\ t[p] = Shuffle(y[p], y[p + 1], LowWords)
        /\ t[p + 1] = Shuffle(y[p], y[p + 1], HighWords)
  BY InterleavedRows
<1> HIDE DEF t, u
\* Four blocks in the registers p to p + 3, before the halves are joined.
<1>5. \A p \in {0, 4}, k \in 0 .. 3 :
        /\ u[p][k] = y[p + k][0] /\ u[p + 1][k] = y[p + k][1]
        /\ u[p + 2][k] = y[p + k][2] /\ u[p + 3][k] = y[p + k][3]
        /\ u[p][k + 4] = y[p + k][4] /\ u[p + 1][k + 4] = y[p + k][5]
        /\ u[p + 2][k + 4] = y[p + k][6] /\ u[p + 3][k + 4] = y[p + k][7]
  <2> TAKE p \in {0, 4}, k \in 0 .. 3
  <2>1. CASE k = 0
    BY <1>3, <1>4, <2>1, ShuffledAt
  <2>2. CASE k = 1
    BY <1>3, <1>4, <2>2, ShuffledAt
  <2>3. CASE k = 2
    BY <1>3, <1>4, <2>3, ShuffledAt
  <2>4. CASE k = 3
    BY <1>3, <1>4, <2>4, ShuffledAt
  <2> QED BY <2>1, <2>2, <2>3, <2>4
<1>6. \A p \in 0 .. 3, k \in 0 .. 3 :
        /\ Paired(u)[p][k] = u[p][k] /\ Paired(u)[p][k + 4] = u[p + 4][k]
        /\ Paired(u)[p + 4][k] = u[p][k + 4] /\ Paired(u)[p + 4][k + 4] = u[p + 4][k + 4]
  BY <1>2, ShuffledAt
<1>7. \A p \in 0 .. 3, q \in {0, 4}, k \in 0 .. 3 :
        u[p + q][k] = y[q + k][p] /\ u[p + q][k + 4] = y[q + k][p + 4]
  BY <1>5
<1>8. \A p \in 0 .. 3, k \in 0 .. 3 :
        /\ Paired(u)[p][k] = y[k][p] /\ Paired(u)[p][k + 4] = y[k + 4][p]
        /\ Paired(u)[p + 4][k] = y[k][p + 4] /\ Paired(u)[p + 4][k + 4] = y[k + 4][p + 4]
  BY <1>6, <1>7
<1>9. \A n \in 0 .. 7 : \E p \in 0 .. 3 : n = p \/ n = p + 4
  <2> TAKE n \in 0 .. 7
  <2>1. CASE n < 4
    BY <2>1
  <2>2. CASE n >= 4
    <3>1. n - 4 \in 0 .. 3 /\ n = (n - 4) + 4
      BY <2>2
    <3> QED BY <3>1
  <2> QED BY <2>1, <2>2
<1> QED BY <1>1, <1>8, <1>9

\* Word e of block b ends in lane b of x[e], whatever the words are.
THEOREM FastIsWordByWord ==
  ASSUME NEW buf, NEW e \in 0 .. 15, NEW b \in 0 .. 7
  PROVE  TransposeFast(buf)[e][b] = buf[b][e]
<1> DEFINE Rows(n) == [r \in 0 .. 7 |-> [k \in 0 .. 7 |-> buf[r][n + k]]]
<1>1. ASSUME NEW n \in {0, 8}, NEW r \in 0 .. 7
      PROVE  Pass(buf, n)[r][b] = buf[b][n + r]
  <2>1. Pass(buf, n)[r][b] = Rows(n)[b][r]
    BY PassTransposes DEF Pass
  <2> QED BY <2>1
<1>2. CASE e < 8
  <2>1. TransposeFast(buf)[e] = Pass(buf, 0)[e] /\ e \in 0 .. 7
    BY <1>2 DEF TransposeFast
  <2>2. Pass(buf, 0)[e][b] = buf[b][0 + e]
    BY <1>1, <2>1
  <2> QED BY <2>1, <2>2
<1>3. CASE e >= 8
  <2>1. TransposeFast(buf)[e] = Pass(buf, 8)[e - 8] /\ e - 8 \in 0 .. 7
    BY <1>3 DEF TransposeFast
  <2>2. Pass(buf, 8)[e - 8][b] = buf[b][8 + (e - 8)]
    BY <1>1, <2>1
  <2>3. 8 + (e - 8) = e
    OBVIOUS
  <2> QED BY <2>1, <2>2, <2>3
<1> QED BY <1>2, <1>3

\* The state keeps its type, the lane has the words of its block, and the word of
\* the next step is loaded.
CoreInv ==
  /\ unit \in Units /\ own \in 0 .. LanesOf(unit) - 1
  /\ turn \in 0 .. 65
  /\ words \in Message /\ words = block
  /\ kept \in State /\ reg \in State /\ saved \in State
  /\ ahead \in MD5Word
  /\ turn < 64 => ahead = words[WordOf(turn)]

-----------------------------------------------------------------------------
(* The schedule *)

LEMMA WordOfType ==
  ASSUME NEW e \in Steps
  PROVE  WordOf(e) \in 0 .. 15
<1>0. e \in 0 .. 63
  BY DEF Steps
<1>1. CASE e < 16
  BY <1>0, <1>1 DEF WordOf
<1>2. CASE e >= 16 /\ e < 32
  <2>1. WordOf(e) = (5 * e + 1) % 16
    BY <1>0, <1>2 DEF WordOf
  <2> QED BY <1>0, <2>1
<1>3. CASE e >= 32 /\ e < 48
  <2>1. WordOf(e) = (3 * e + 5) % 16
    BY <1>0, <1>3 DEF WordOf
  <2> QED BY <1>0, <2>1
<1>4. CASE e >= 48
  <2>1. WordOf(e) = (7 * e) % 16
    BY <1>0, <1>4 DEF WordOf
  <2> QED BY <1>0, <2>1
<1> QED BY <1>0, <1>1, <1>2, <1>3, <1>4

LEMMA ShiftType ==
  ASSUME NEW e \in Steps
  PROVE  Shift(e) \in 1 .. Width - 1
<1>1. e \div 16 \in 0 .. 3 /\ e % 4 \in 0 .. 3
  BY DEF Steps
<1> QED BY <1>1, TableAssumption DEF Shift

\* The register that is written in a step is that of b in the next one, and
\* the others keep their contents and become c, d and a.
LEMMA RolesTurn ==
  ASSUME NEW e \in Steps
  PROVE  /\ \A r \in 0 .. 3 : RegisterOf(r, e) \in 0 .. 3
         /\ RegisterOf(1, e + 1) = RegisterOf(0, e)
         /\ RegisterOf(2, e + 1) = RegisterOf(1, e)
         /\ RegisterOf(3, e + 1) = RegisterOf(2, e)
         /\ RegisterOf(0, e + 1) = RegisterOf(3, e)
         /\ \A r \in 1 .. 3 : RegisterOf(r, e) # RegisterOf(0, e)
<1>1. e % 4 \in 0 .. 3 /\ (e + 1) % 4 \in 0 .. 3
  BY DEF Steps
<1>2. (e + 1) % 4 = IF e % 4 = 3 THEN 0 ELSE (e % 4) + 1
  BY DEF Steps
<1> QED BY <1>1, <1>2 DEF RegisterOf

LEMMA RolesAtRest ==
  \A r \in 0 .. 3 : RegisterOf(r, 0) = r /\ RegisterOf(r, 64) = r
BY DEF RegisterOf

-----------------------------------------------------------------------------
(* Rotation *)

LEMMA RotateOne ==
  ASSUME NEW p \in Bits, NEW s \in 1 .. Width - 1
  PROVE  (p + s) % Width = IF p + s < Width THEN p + s ELSE p + s - Width
<1>1. Width \in Nat /\ Width > 1 /\ p \in 0 .. Width - 1
  BY WidthAssumption DEF Bits
<1>2. \A q \in Int, r \in 0 .. Width - 1 : ((q * Width) + r) % Width = r
  BY <1>1
<1>3. CASE p + s < Width
  <2>1. p + s \in 0 .. Width - 1 /\ (0 * Width) + (p + s) = p + s
    BY <1>1, <1>3
  <2> QED BY <1>2, <1>3, <2>1
<1>4. CASE ~(p + s < Width)
  <2>1. p + s - Width \in 0 .. Width - 1 /\ (1 * Width) + (p + s - Width) = p + s
    BY <1>1, <1>4
  <2> QED BY <1>2, <1>4, <2>1
<1> QED BY <1>3, <1>4

LEMMA RotatedIsRotateLeft ==
  ASSUME NEW u, NEW w \in MD5Word, NEW s \in 1 .. Width - 1
  PROVE  /\ Rotated(u, w, s) = RotateLeft(w, s)
         /\ RotateLeft(w, s) \in MD5Word
<1>1. /\ Width \in Nat /\ Width > 1
      /\ w \subseteq 0 .. Width - 1
  BY WidthAssumption DEF MD5Word, Bits
<1>2. \A p \in w : (p + s) % Width = IF p + s < Width THEN p + s ELSE p + s - Width
  BY <1>1, RotateOne DEF Bits
<1>3. \A q : q \in RotateLeft(w, s) <=> q \in ShiftLeft(w, s) \cup ShiftRight(w, Width - s)
  <2>1. ASSUME NEW q \in RotateLeft(w, s)
        PROVE  q \in ShiftLeft(w, s) \cup ShiftRight(w, Width - s)
    <3>1. PICK p \in w : q = (p + s) % Width
      BY DEF RotateLeft
    <3>2. p \in 0 .. Width - 1
      BY <1>1
    <3>3. CASE p + s < Width
      BY <1>1, <1>2, <3>1, <3>2, <3>3 DEF ShiftLeft, Bits
    <3>4. CASE ~(p + s < Width)
      BY <1>1, <1>2, <3>1, <3>2, <3>4 DEF ShiftRight, Bits
    <3> QED BY <3>3, <3>4
  <2>2. ASSUME NEW q \in ShiftLeft(w, s)
        PROVE  q \in RotateLeft(w, s)
    <3>1. q \in 0 .. Width - 1 /\ q - s \in w
      BY <2>2 DEF ShiftLeft, Bits
    <3>2. ((q - s) + s) % Width = q
      BY <1>1, <1>2, <3>1
    <3> QED BY <3>1, <3>2 DEF RotateLeft
  <2>3. ASSUME NEW q \in ShiftRight(w, Width - s)
        PROVE  q \in RotateLeft(w, s)
    <3>1. q \in 0 .. Width - 1 /\ q + (Width - s) \in w
      BY <2>3 DEF ShiftRight, Bits
    <3>2. ((q + (Width - s)) + s) % Width = q
      BY <1>1, <1>2, <3>1
    <3> QED BY <3>1, <3>2 DEF RotateLeft
  <2> QED BY <2>1, <2>2, <2>3
<1>4. RotateLeft(w, s) = ShiftLeft(w, s) \cup ShiftRight(w, Width - s)
  BY <1>3
<1>5. Rotated(u, w, s) = RotateLeft(w, s)
  BY <1>4 DEF Rotated
<1>6. RotateLeft(w, s) \in MD5Word
  BY <1>4 DEF ShiftLeft, ShiftRight, MD5Word
<1> QED BY <1>5, <1>6

-----------------------------------------------------------------------------
(* The round functions *)

LEMMA AVX2F ==
  ASSUME NEW e \in Steps,
         NEW b \in MD5Word, NEW c \in MD5Word, NEW d \in MD5Word
  PROVE  FWithAVX2(e, b, c, d) = Rounds!F(e, b, c, d)
<1>0. e \in 0 .. 63 /\ b \subseteq Bits /\ c \subseteq Bits /\ d \subseteq Bits
  BY DEF Steps, MD5Word
<1>1. CASE e < 16
  <2>1. FWithAVX2(e, b, c, d) = (b \cap c) \cup (d \ b)
    BY <1>0, <1>1 DEF FWithAVX2, AndNot
  <2>2. Rounds!F(e, b, c, d) = (b \cap c) \cup ((Bits \ b) \cap d)
    BY <1>0, <1>1 DEF Rounds!F, Rounds!Not, Rounds!Bits, Rounds!Xor, Bits, Xor
  <2>3. (b \cap c) \cup (d \ b) = (b \cap c) \cup ((Bits \ b) \cap d)
    BY <1>0
  <2> QED BY <2>1, <2>2, <2>3
<1>2. CASE e >= 16 /\ e < 32
  <2>1. FWithAVX2(e, b, c, d) = (b \cap d) \cup (c \ d)
    BY <1>0, <1>2 DEF FWithAVX2, AndNot
  <2>2. Rounds!F(e, b, c, d) = (b \cap d) \cup (c \cap (Bits \ d))
    BY <1>0, <1>2 DEF Rounds!F, Rounds!Not, Rounds!Bits, Rounds!Xor, Bits, Xor
  <2>3. (b \cap d) \cup (c \ d) = (b \cap d) \cup (c \cap (Bits \ d))
    BY <1>0
  <2> QED BY <2>1, <2>2, <2>3
<1>3. CASE e >= 32 /\ e < 48
  <2>1. FWithAVX2(e, b, c, d) = Xor(d, Xor(b, c))
    BY <1>0, <1>3 DEF FWithAVX2
  <2>2. Rounds!F(e, b, c, d) = Xor(Xor(b, c), d)
    BY <1>0, <1>3 DEF Rounds!F, Rounds!Not, Rounds!Bits, Rounds!Xor, Bits, Xor
  <2>3. Xor(d, Xor(b, c)) = Xor(Xor(b, c), d)
    BY DEF Xor
  <2> QED BY <2>1, <2>2, <2>3
<1>4. CASE e >= 48
  <2>1. FWithAVX2(e, b, c, d) = Xor(c, Xor(Bits, d \ b))
    BY <1>0, <1>4 DEF FWithAVX2, AndNot
  <2>2. Rounds!F(e, b, c, d) = Xor(c, b \cup (Bits \ d))
    BY <1>0, <1>4 DEF Rounds!F, Rounds!Not, Rounds!Bits, Rounds!Xor, Bits, Xor
  <2>3. Xor(c, Xor(Bits, d \ b)) = Xor(c, b \cup (Bits \ d))
    BY <1>0 DEF Xor
  <2> QED BY <2>1, <2>2, <2>3
<1> QED BY <1>0, <1>1, <1>2, <1>3, <1>4

LEMMA NEONF ==
  ASSUME NEW e \in Steps,
         NEW b \in MD5Word, NEW c \in MD5Word, NEW d \in MD5Word
  PROVE  FWithNEON(e, b, c, d) = Rounds!F(e, b, c, d)
<1>0. e \in 0 .. 63 /\ b \subseteq Bits /\ c \subseteq Bits /\ d \subseteq Bits
  BY DEF Steps, MD5Word
<1>1. CASE e < 16
  <2>1. FWithNEON(e, b, c, d) = (b \cap c) \cup (d \cap (Bits \ b))
    BY <1>0, <1>1 DEF FWithNEON, Not
  <2>2. Rounds!F(e, b, c, d) = (b \cap c) \cup ((Bits \ b) \cap d)
    BY <1>0, <1>1 DEF Rounds!F, Rounds!Not, Rounds!Bits, Rounds!Xor, Bits, Xor
  <2>3. (b \cap c) \cup (d \cap (Bits \ b)) = (b \cap c) \cup ((Bits \ b) \cap d)
    OBVIOUS
  <2> QED BY <2>1, <2>2, <2>3
<1>2. CASE e >= 16 /\ e < 32
  <2>1. FWithNEON(e, b, c, d) = (b \cap d) \cup (c \cap (Bits \ d))
    BY <1>0, <1>2 DEF FWithNEON, Not
  <2>2. Rounds!F(e, b, c, d) = (b \cap d) \cup (c \cap (Bits \ d))
    BY <1>0, <1>2 DEF Rounds!F, Rounds!Not, Rounds!Bits, Rounds!Xor, Bits, Xor
  <2> QED BY <2>1, <2>2
<1>3. CASE e >= 32 /\ e < 48
  <2>1. FWithNEON(e, b, c, d) = Xor(d, Xor(b, c))
    BY <1>0, <1>3 DEF FWithNEON
  <2>2. Rounds!F(e, b, c, d) = Xor(Xor(b, c), d)
    BY <1>0, <1>3 DEF Rounds!F, Rounds!Not, Rounds!Bits, Rounds!Xor, Bits, Xor
  <2>3. Xor(d, Xor(b, c)) = Xor(Xor(b, c), d)
    BY DEF Xor
  <2> QED BY <2>1, <2>2, <2>3
<1>4. CASE e >= 48
  <2>1. FWithNEON(e, b, c, d) = Xor(c, b \cup (Bits \ d))
    BY <1>0, <1>4 DEF FWithNEON, Not
  <2>2. Rounds!F(e, b, c, d) = Xor(c, b \cup (Bits \ d))
    BY <1>0, <1>4 DEF Rounds!F, Rounds!Not, Rounds!Bits, Rounds!Xor, Bits, Xor
  <2> QED BY <2>1, <2>2
<1> QED BY <1>0, <1>1, <1>2, <1>3, <1>4

\* The three immediates say what the scalar code says, as Go orders the operands.
LEMMA AVX512F ==
  ASSUME NEW e \in Steps,
         NEW b \in MD5Word, NEW c \in MD5Word, NEW d \in MD5Word
  PROVE  FWithAVX512(e, b, c, d) = Rounds!F(e, b, c, d)
<1>0. e \in 0 .. 63 /\ b \subseteq Bits /\ c \subseteq Bits /\ d \subseteq Bits
  BY DEF Steps, MD5Word
<1>1. CASE e < 16
  <2>1. FWithAVX512(e, b, c, d) = Ternary({3, 4, 6, 7}, b, c, d)
    BY <1>0, <1>1 DEF FWithAVX512
  <2>2. Rounds!F(e, b, c, d) = (b \cap c) \cup ((Bits \ b) \cap d)
    BY <1>0, <1>1 DEF Rounds!F, Rounds!Not, Rounds!Bits, Rounds!Xor, Bits, Xor
  <2>3. Ternary({3, 4, 6, 7}, b, c, d) = (b \cap c) \cup ((Bits \ b) \cap d)
    BY <1>0 DEF Ternary, Bit, Xor
  <2> QED BY <2>1, <2>2, <2>3
<1>2. CASE e >= 16 /\ e < 32
  <2>1. FWithAVX512(e, b, c, d) = Ternary({2, 3, 5, 7}, b, c, d)
    BY <1>0, <1>2 DEF FWithAVX512
  <2>2. Rounds!F(e, b, c, d) = (b \cap d) \cup (c \cap (Bits \ d))
    BY <1>0, <1>2 DEF Rounds!F, Rounds!Not, Rounds!Bits, Rounds!Xor, Bits, Xor
  <2>3. Ternary({2, 3, 5, 7}, b, c, d) = (b \cap d) \cup (c \cap (Bits \ d))
    BY <1>0 DEF Ternary, Bit, Xor
  <2> QED BY <2>1, <2>2, <2>3
<1>3. CASE e >= 32 /\ e < 48
  <2>1. FWithAVX512(e, b, c, d) = Xor(d, Xor(c, b))
    BY <1>0, <1>3 DEF FWithAVX512
  <2>2. Rounds!F(e, b, c, d) = Xor(Xor(b, c), d)
    BY <1>0, <1>3 DEF Rounds!F, Rounds!Not, Rounds!Bits, Rounds!Xor, Bits, Xor
  <2>3. Xor(d, Xor(c, b)) = Xor(Xor(b, c), d)
    BY DEF Xor
  <2> QED BY <2>1, <2>2, <2>3
<1>4. CASE e >= 48
  <2>1. FWithAVX512(e, b, c, d) = Ternary({0, 1, 5, 6}, b, c, d)
    BY <1>0, <1>4 DEF FWithAVX512
  <2>2. Rounds!F(e, b, c, d) = Xor(c, b \cup (Bits \ d))
    BY <1>0, <1>4 DEF Rounds!F, Rounds!Not, Rounds!Bits, Rounds!Xor, Bits, Xor
  <2>3. Ternary({0, 1, 5, 6}, b, c, d) = Xor(c, b \cup (Bits \ d))
    BY <1>0 DEF Ternary, Bit, Xor
  <2> QED BY <2>1, <2>2, <2>3
<1> QED BY <1>0, <1>1, <1>2, <1>3, <1>4

LEMMA UnitsAgree ==
  ASSUME NEW u \in Units, NEW e \in Steps,
         NEW b \in MD5Word, NEW c \in MD5Word, NEW d \in MD5Word
  PROVE  FOf(u, e, b, c, d) = Rounds!F(e, b, c, d)
<1>1. CASE u = "AVX2"
  BY <1>1, AVX2F DEF FOf
<1>2. CASE u = "AVX512"
  BY <1>2, AVX512F DEF FOf
<1>3. CASE u = "NEON"
  BY <1>3, NEONF DEF FOf
<1> QED BY <1>1, <1>2, <1>3 DEF Units

LEMMA FType ==
  ASSUME NEW e \in Steps,
         NEW b \in MD5Word, NEW c \in MD5Word, NEW d \in MD5Word
  PROVE  Rounds!F(e, b, c, d) \in MD5Word
<1>1. b \subseteq Bits /\ c \subseteq Bits /\ d \subseteq Bits
  BY DEF MD5Word
<1>2. Rounds!F(e, b, c, d) \subseteq Bits
  BY <1>1 DEF Rounds!F, Rounds!Not, Rounds!Bits, Rounds!Xor, Bits
<1> QED BY <1>2 DEF MD5Word

-----------------------------------------------------------------------------
(* The steps *)

\* The vector code adds the state, the word and the constant first.
LEMMA SumReordered ==
  ASSUME NEW f \in MD5Word, NEW a \in MD5Word, NEW w \in MD5Word, NEW t \in MD5Word
  PROVE  /\ Plus(f, Plus(Plus(a, w), t)) = Plus(Plus(Plus(f, a), w), t)
         /\ Plus(f, Plus(Plus(a, w), t)) \in MD5Word
<1>1. Plus(a, w) \in MD5Word /\ Plus(f, a) \in MD5Word
  BY PlusAssumption
<1>2. Plus(Plus(a, w), t) \in MD5Word
  BY <1>1, PlusAssumption
<1>3. Plus(f, Plus(Plus(a, w), t)) = Plus(Plus(f, Plus(a, w)), t)
  BY <1>1, PlusAssumption
<1>4. Plus(f, Plus(a, w)) = Plus(Plus(f, a), w)
  BY PlusAssumption
<1> QED BY <1>2, <1>3, <1>4, PlusAssumption

\* Either way of loading x gives a lane the words of its own block.
LEMMA LoadedInPlace ==
  ASSUME NEW u \in Units, NEW n \in 0 .. LanesOf(u) - 1,
         NEW buf \in Buffer, NEW x \in Loaded(u, buf), NEW e \in 0 .. 15
  PROVE  x[e][n] = buf[n][e]
<1>1. n \in 0 .. 15 /\ (u = "AVX2" => n \in 0 .. 7)
  BY DEF Units, LanesOf
<1>2. WordByWord(buf)[e][n] = buf[n][e]
  BY <1>1 DEF WordByWord, Buffer
<1>3. u = "AVX2" => TransposeFast(buf)[e][n] = buf[n][e]
  BY <1>1, FastIsWordByWord
<1> QED BY <1>2, <1>3 DEF Loaded

\* What entering the core does.
LEMMA EnterResult ==
  ASSUME CoreInv, NEW buf \in Buffer, Enter(buf)
  PROVE  /\ words' \in Message /\ words' = block'
         /\ ahead' = words'[WordOf(0)] /\ ahead' \in MD5Word
<1>1. own \in 0 .. 15
  BY DEF CoreInv, Units, LanesOf
<1>2. buf[own] \in Message
  BY <1>1 DEF Buffer
<1>3. PICK x \in Loaded(unit, buf) : words' = [e \in 0 .. 15 |-> x[e][own]]
  BY DEF Enter
<1>4. \A e \in 0 .. 15 : x[e][own] = buf[own][e]
  BY LoadedInPlace DEF CoreInv
<1>5. words' = buf[own]
  <2>1. words' = [e \in 0 .. 15 |-> buf[own][e]]
    BY <1>3, <1>4
  <2> QED BY <1>2, <2>1 DEF Message
<1>6. WordOf(0) \in 0 .. 15
  BY WordOfType DEF Steps
<1>7. words'[WordOf(0)] \in MD5Word
  BY <1>2, <1>5, <1>6 DEF Message
<1> QED BY <1>2, <1>5, <1>7 DEF Enter

LEMMA NoMessageType == NoMessage \in Message /\ NoState \in State
BY DEF NoMessage, Message, NoState, State, MD5Word

\* What one step of the core does, in the words of the scalar code.
LEMMA TurnResult ==
  ASSUME CoreInv, CoreTurn
  PROVE  /\ turn \in Steps
         /\ \A r \in 0 .. 3 : Role(r) \in MD5Word
         /\ LET f == Plus(Plus(Plus(Rounds!F(turn, Role(1), Role(2), Role(3)),
                                    Role(0)), words[WordOf(turn)]), T[turn])
                new == Plus(Role(1), RotateLeft(f, Shift(turn)))
            IN  /\ new \in MD5Word
                /\ reg' = [reg EXCEPT ![RegisterOf(0, turn)] = new]
<1>1. turn \in Steps /\ turn < 64 /\ turn \in 0 .. 63
  BY DEF CoreInv, CoreTurn, Steps
<1>2. \A r \in 0 .. 3 : Role(r) \in MD5Word
  BY <1>1, RolesTurn DEF Role, CoreInv, State
<1>3. ahead = words[WordOf(turn)] /\ ahead \in MD5Word /\ T[turn] \in MD5Word
  BY <1>1, TableAssumption DEF CoreInv
<1>4. Shift(turn) \in 1 .. Width - 1
  BY <1>1, ShiftType
<1> DEFINE f   == FOf(unit, turn, Role(1), Role(2), Role(3))
           sum == Plus(Plus(Role(0), ahead), T[turn])
           g   == Rounds!F(turn, Role(1), Role(2), Role(3))
           all == Plus(Plus(Plus(g, Role(0)), words[WordOf(turn)]), T[turn])
<1>5. f = g /\ g \in MD5Word
  BY <1>1, <1>2, UnitsAgree, FType DEF CoreInv
<1>6. Plus(f, sum) = all /\ all \in MD5Word
  <2> HIDE DEF f, g
  <2>1. Role(0) \in MD5Word
    BY <1>2
  <2>2. /\ Plus(g, sum) = Plus(Plus(Plus(g, Role(0)), ahead), T[turn])
        /\ Plus(g, sum) \in MD5Word
    BY <1>3, <1>5, <2>1, SumReordered
  <2>3. all = Plus(Plus(Plus(g, Role(0)), ahead), T[turn])
    BY <1>3
  <2> HIDE DEF sum, all
  <2> QED BY <1>5, <2>2, <2>3
<1>7. Rotated(unit, all, Shift(turn)) = RotateLeft(all, Shift(turn))
      /\ RotateLeft(all, Shift(turn)) \in MD5Word
  <2> HIDE DEF all
  <2> QED BY <1>4, <1>6, RotatedIsRotateLeft
<1>8. Plus(Role(1), RotateLeft(all, Shift(turn))) \in MD5Word
  <2> HIDE DEF all
  <2>1. Role(1) \in MD5Word
    BY <1>2
  <2> QED BY <1>7, <2>1, PlusAssumption
<1>9. reg' = [reg EXCEPT ![RegisterOf(0, turn)] =
                Plus(Role(1), Rotated(unit, Plus(f, sum), Shift(turn)))]
  BY DEF CoreTurn
<1>10. reg' = [reg EXCEPT ![RegisterOf(0, turn)] =
                 Plus(Role(1), RotateLeft(all, Shift(turn)))]
  <2> HIDE DEF f, sum, all
  <2> QED BY <1>6, <1>7, <1>9
<1> QED BY <1>1, <1>2, <1>8, <1>10

LEMMA CoreInvHolds ==
  /\ CoreInit => CoreInv
  /\ CoreInv /\ [CoreNext]_coreVars => CoreInv'
<1>1. CoreInit => CoreInv
  <2>1. {} \in MD5Word
    BY DEF MD5Word
  <2> QED BY <2>1, NoMessageType DEF CoreInit, CoreInv, Units, LanesOf, Outside
<1>2. ASSUME CoreInv, [CoreNext]_coreVars
      PROVE  CoreInv'
  <2>1. ASSUME NEW u \in Units, NEW s \in State, NEW n \in 0 .. LanesOf(u) - 1,
               BeginBlock(u, n, s)
        PROVE  CoreInv'
    BY <1>2, <2>1 DEF CoreInv, BeginBlock, Outside
  <2>2. ASSUME NEW buf \in Buffer, Enter(buf)
        PROVE  CoreInv'
    <3>1. /\ words' \in Message /\ words' = block'
          /\ ahead' = words'[WordOf(0)] /\ ahead' \in MD5Word
      BY <1>2, <2>2, EnterResult
    <3> QED BY <1>2, <2>2, <3>1 DEF CoreInv, Enter
  <2>3. CASE CoreTurn
    <3>1. turn \in 0 .. 63 /\ turn' = turn + 1 /\ turn' \in 1 .. 64
      BY <1>2, <2>3 DEF CoreInv, CoreTurn
    <3>2. reg' \in State
      <4>1. RegisterOf(0, turn) \in 0 .. 3
        BY <3>1, RolesTurn DEF Steps
      <4>2. PICK new \in MD5Word : reg' = [reg EXCEPT ![RegisterOf(0, turn)] = new]
        BY <1>2, <2>3, TurnResult
      <4> QED BY <1>2, <4>1, <4>2 DEF CoreInv, State
    <3>3. ahead' = IF turn < 63 THEN words[WordOf(turn + 1)] ELSE ahead
      BY <2>3 DEF CoreTurn, LoadedAhead
    <3>4. ahead' \in MD5Word /\ (turn' < 64 => ahead' = words[WordOf(turn')])
      <4>1. CASE turn < 63
        <5>1. WordOf(turn + 1) \in 0 .. 15
          BY <3>1, <4>1, WordOfType DEF Steps
        <5> QED BY <1>2, <3>1, <3>3, <4>1, <5>1 DEF CoreInv, Message
      <4>2. CASE ~(turn < 63)
        BY <1>2, <3>1, <3>3, <4>2 DEF CoreInv
      <4> QED BY <4>1, <4>2
    <3> QED BY <1>2, <2>3, <3>1, <3>2, <3>4 DEF CoreInv, CoreTurn
  <2>4. CASE Leave
    <3>1. reg' \in State
      BY <1>2, <2>4, PlusAssumption DEF CoreInv, Leave, State
    <3> QED BY <1>2, <2>4, <3>1 DEF CoreInv, Leave, Outside
  <2>5. CASE UNCHANGED coreVars
    BY <1>2, <2>5 DEF CoreInv, coreVars
  <2> QED BY <1>2, <2>1, <2>2, <2>3, <2>4, <2>5 DEF CoreNext, CoreStep
<1> QED BY <1>1, <1>2

-----------------------------------------------------------------------------
(* The refinement *)

\* A lane of each core does with its own block what the scalar rounds do, step by
\* step, whichever way its words were loaded and wherever the registers' roles
\* have got to (gen_md5x8, gen_md5x16 and gen_md5x4, md5x8TransposeFast).
THEOREM CoresAgree == CoreSpec => CoreFollowsRounds
<1>1. CoreInit => Rounds!RoundsInit
  BY DEF CoreInit, Rounds!RoundsInit, InRole, NoState, NoMessage, Outside,
         Rounds!NoState, Rounds!NoMessage, Rounds!Between
<1>2. ASSUME CoreInv, CoreInv', [CoreNext]_coreVars
      PROVE  [Rounds!RoundsNext]_Rounds!roundsVars
  <2>1. ASSUME NEW u \in Units, NEW s \in State, NEW n \in 0 .. LanesOf(u) - 1,
               BeginBlock(u, n, s)
        PROVE  Rounds!NewBlock
    <3>1. \A r \in 0 .. 3 : InRole(r)' = s[r] /\ s[r] \in MD5Word
      BY <2>1 DEF BeginBlock, InRole, State
    <3> QED BY <2>1, <3>1 DEF BeginBlock, Rounds!NewBlock, Rounds!Between, Outside,
                              Rounds!MD5Word, Rounds!Bits, MD5Word, Bits
  <2>2. ASSUME NEW buf \in Buffer, Enter(buf)
        PROVE  Rounds!NewChunk
    <3>1. \A r \in 0 .. 3 : InRole(r) = kept[r] /\ InRole(r)' = kept[r]
      BY <2>2, RolesAtRest DEF Enter, InRole, Role, Outside
    <3>2. saved' = [NoState EXCEPT ![0] = kept[0], ![1] = kept[1],
                                   ![2] = kept[2], ![3] = kept[3]]
      BY <1>2, <2>2 DEF Enter, CoreInv, State, NoState
    <3>3. saved' = [Rounds!NoState EXCEPT ![0] = InRole(0), ![1] = InRole(1),
                                          ![2] = InRole(2), ![3] = InRole(3)]
      BY <3>1, <3>2 DEF Rounds!NoState, NoState
    <3>4. block' \in Rounds!Message
      <4>1. block' \in Message
        BY <1>2 DEF CoreInv
      <4> QED BY <4>1 DEF Rounds!Message, Message, Rounds!MD5Word, MD5Word,
                          Rounds!Bits, Bits
    <3>5. UNCHANGED << InRole(0), InRole(1), InRole(2), InRole(3) >>
      BY <3>1
    <3> QED BY <2>2, <3>3, <3>4, <3>5
            DEF Enter, Rounds!NewChunk, Rounds!Between, Outside
  <2>3. CASE CoreTurn
    <3>1. turn \in 0 .. 63 /\ turn' = turn + 1 /\ turn' # Outside /\ turn # Outside
      BY <1>2, <2>3 DEF CoreInv, CoreTurn, Outside
    <3>2. \A r \in 0 .. 3 : /\ InRole(r) = reg[RegisterOf(r, turn)]
                            /\ InRole(r)' = reg'[RegisterOf(r, turn + 1)]
      BY <3>1 DEF InRole, Role
    <3> DEFINE f == Plus(Plus(Plus(Rounds!F(turn, InRole(1), InRole(2), InRole(3)),
                                   InRole(0)), words[WordOf(turn)]), T[turn])
               new == Plus(InRole(1), RotateLeft(f, Shift(turn)))
    <3>3. \A r \in 0 .. 3 : InRole(r) = Role(r)
      BY <3>1 DEF InRole
    <3>4. reg' = [reg EXCEPT ![RegisterOf(0, turn)] = new]
      BY <1>2, <2>3, <3>3, TurnResult
    <3>5. /\ InRole(1)' = new /\ InRole(2)' = InRole(1)
          /\ InRole(3)' = InRole(2) /\ InRole(0)' = InRole(3)
      <4> HIDE DEF new
      <4>1. /\ \A r \in 0 .. 3 : RegisterOf(r, turn) \in 0 .. 3
            /\ RegisterOf(1, turn + 1) = RegisterOf(0, turn)
            /\ RegisterOf(2, turn + 1) = RegisterOf(1, turn)
            /\ RegisterOf(3, turn + 1) = RegisterOf(2, turn)
            /\ RegisterOf(0, turn + 1) = RegisterOf(3, turn)
            /\ \A r \in 1 .. 3 : RegisterOf(r, turn) # RegisterOf(0, turn)
        BY <3>1, RolesTurn DEF Steps
      <4>2. reg \in [0 .. 3 -> MD5Word]
        BY <1>2 DEF CoreInv, State
      <4> QED BY <3>2, <3>4, <4>1, <4>2
    <3>6. Rounds!WordOf(turn) = WordOf(turn) /\ Rounds!Shift(turn) = Shift(turn)
      BY DEF Rounds!WordOf, WordOf, Rounds!Shift, Shift
    <3>7. Rounds!RotateLeft(f, Shift(turn)) = RotateLeft(f, Shift(turn))
      BY DEF Rounds!RotateLeft, RotateLeft
    <3>8. turn < 64 /\ turn' = turn + 1 /\ UNCHANGED << block, saved >>
      BY <2>3 DEF CoreTurn
    <3>9. new = Plus(InRole(1),
                     Rounds!RotateLeft(Plus(Plus(Plus(
                         Rounds!F(turn, InRole(1), InRole(2), InRole(3)), InRole(0)),
                         block[Rounds!WordOf(turn)]), T[turn]), Rounds!Shift(turn)))
      BY <1>2, <3>6, <3>7 DEF CoreInv
    <3> HIDE DEF f, new
    <3>10. Rounds!Step
      BY <3>5, <3>8, <3>9 DEF Rounds!Step
    <3> QED BY <3>10 DEF Rounds!RoundsNext
  <2>4. CASE Leave
    <3>1. \A r \in 0 .. 3 : /\ InRole(r) = reg[r]
                            /\ InRole(r)' = Plus(reg[r], saved[r])
      BY <1>2, <2>4, RolesAtRest DEF Leave, InRole, Role, Outside
    <3>2. Rounds!Fold
      BY <2>4, <3>1 DEF Leave, Rounds!Fold, Rounds!Between, Outside
    <3> QED BY <3>2 DEF Rounds!RoundsNext
  <2>5. CASE UNCHANGED coreVars
    BY <2>5 DEF coreVars, Rounds!roundsVars, InRole, Role
  <2> QED BY <1>2, <2>1, <2>2, <2>3, <2>4, <2>5
          DEF CoreNext, CoreStep, Rounds!RoundsNext
<1> QED BY <1>1, <1>2, CoreInvHolds, PTL
        DEF CoreSpec, CoreFollowsRounds, Rounds!RoundsSpec

-----------------------------------------------------------------------------
(* The advised block size *)

\* The size is the one of this file, and none before was larger.
SizesInv ==
  /\ fileSize \in Nat
  /\ blockSize = CalculateBlockSize(fileSize)
  /\ fileSize <= MaxWireBlocks * MostBlock => blockSize = largest

-----------------------------------------------------------------------------
(* Arithmetic *)

LEMMA Division ==
  ASSUME NEW n \in Nat, NEW d \in Nat \ {0}
  PROVE  /\ n \div d \in Nat
         /\ d * (n \div d) <= n
         /\ n < d * ((n \div d) + 1)
<1>1. n = (d * (n \div d)) + (n % d) /\ n % d \in 0 .. d - 1 /\ n \div d \in Int
  OBVIOUS
<1>2. n \div d \in Nat
  BY SMT
<1> QED BY <1>1, <1>2

LEMMA ProductMonotone ==
  ASSUME NEW a \in Nat, NEW b \in Nat, NEW k \in Nat, a <= b
  PROVE  a * k <= b * k /\ k * a <= k * b /\ a * k \in Nat /\ b * k \in Nat
OBVIOUS

\* At most m blocks of size s hold what m * s bytes are enough for.
LEMMA BlocksBound ==
  ASSUME NEW n \in Nat, NEW s \in Nat \ {0}, NEW m \in Nat, n <= m * s
  PROVE  BlocksOf(n, s) <= m
<1> DEFINE q == (n + s - 1) \div s
<1>1. q \in Nat /\ s * q <= n + s - 1
  BY Division
<1>2. s * q < s * (m + 1)
  <2>1. s * (m + 1) = (m * s) + s /\ m * s \in Nat
    OBVIOUS
  <2> HIDE DEF q
  <2>2. s * q \in Nat
    BY <1>1
  <2> QED BY <1>1, <2>1, <2>2
<1>3. CASE q >= m + 1
  <2> HIDE DEF q
  <2>1. s * (m + 1) <= s * q
    BY <1>1, <1>3, ProductMonotone
  <2>2. s * (m + 1) \in Nat /\ s * q \in Nat
    BY <1>1
  <2> QED BY <1>2, <2>1, <2>2
<1>4. CASE ~(q >= m + 1)
  BY <1>1, <1>4 DEF BlocksOf
<1> QED BY <1>3, <1>4

LEMMA Limits ==
  /\ {SmallFile, LeastBlock, MostBlock, Divisor, HalfRange, MaxWireBlocks} \subseteq Nat \ {0}
  /\ LeastBlock <= MostBlock /\ MostBlock < HalfRange
  /\ MaxWireBlocks * MostBlock \in Nat
BY SizesAssumption

\* Within a file that can be signed at all the conversion changes nothing.
LEMMA ConversionHolds ==
  ASSUME NEW n \in Nat, n <= MaxWireBlocks * MostBlock
  PROVE  Int32(n \div Divisor) = n \div Divisor
<1> DEFINE q == n \div Divisor
<1>1. q \in Nat /\ Divisor * q <= n
  BY Division, Limits
<1>2. n < Divisor * HalfRange
  BY SizesAssumption, Limits
<1>3. q < HalfRange
  <2>1. SUFFICES ASSUME q >= HalfRange
                 PROVE  FALSE
    BY <1>1, Limits
  <2> HIDE DEF q
  <2>2. Divisor * HalfRange <= Divisor * q
    BY <1>1, <2>1, ProductMonotone, Limits
  <2>3. Divisor * HalfRange \in Nat /\ Divisor * q \in Nat
    BY <1>1, Limits
  <2> QED BY <1>1, <1>2, <2>2, <2>3
<1>4. (q + HalfRange) % (2 * HalfRange) = q + HalfRange
  <2> HIDE DEF q
  <2>1. q + HalfRange \in 0 .. (2 * HalfRange) - 1 /\ 2 * HalfRange \in Nat \ {0}
    BY <1>1, <1>3, Limits
  <2>2. \A r, w \in Nat : r < w => r % w = r
    OBVIOUS
  <2> QED BY <2>1, <2>2
<1> QED BY <1>1, <1>4, Limits DEF Int32

-----------------------------------------------------------------------------
(* The advice *)

LEMMA ClampedType ==
  ASSUME NEW n \in Int
  PROVE  Clamped(n) \in LeastBlock .. MostBlock
BY Limits DEF Clamped

LEMMA AdviceInRange ==
  ASSUME NEW n \in Nat, n <= MaxWireBlocks * MostBlock
  PROVE  CalculateBlockSize(n) \in LeastBlock .. MostBlock
<1>1. n \div Divisor \in Nat
  BY Division, Limits
<1>2. Int32(n \div Divisor) = n \div Divisor
  BY ConversionHolds
<1> QED BY <1>1, <1>2, ClampedType, Limits DEF CalculateBlockSize

LEMMA AdviceMonotone ==
  ASSUME NEW n \in Nat, NEW k \in Nat, n <= k, k <= MaxWireBlocks * MostBlock
  PROVE  CalculateBlockSize(n) <= CalculateBlockSize(k)
<1>1. n <= MaxWireBlocks * MostBlock
  BY Limits
<1>2. /\ Int32(n \div Divisor) = n \div Divisor
      /\ Int32(k \div Divisor) = k \div Divisor
  BY <1>1, ConversionHolds
<1>3. n \div Divisor \in Nat /\ k \div Divisor \in Nat
  BY Division, Limits
<1>4. n \div Divisor <= k \div Divisor
  <2> DEFINE p == n \div Divisor
             q == k \div Divisor
  <2>1. Divisor * p <= n /\ k < Divisor * (q + 1)
    BY Division, Limits
  <2>2. SUFFICES ASSUME p >= q + 1
                 PROVE  FALSE
    BY <1>3
  <2>3. p \in Nat /\ q \in Nat
    BY <1>3
  <2> HIDE DEF p, q
  <2>4. Divisor * (q + 1) <= Divisor * p
    BY <2>2, <2>3, ProductMonotone, Limits
  <2>5. Divisor * (q + 1) \in Nat /\ Divisor * p \in Nat
    BY <2>3, Limits
  <2> QED BY <2>1, <2>4, <2>5
<1>5. Clamped(n \div Divisor) <= Clamped(k \div Divisor)
  BY <1>3, <1>4, Limits DEF Clamped
<1>6. LeastBlock <= Clamped(k \div Divisor)
  BY <1>3, ClampedType, Limits
<1> QED BY <1>2, <1>5, <1>6, Limits DEF CalculateBlockSize

LEMMA FewBlocks ==
  ASSUME NEW n \in Nat, n <= MaxWireBlocks * MostBlock
  PROVE  BlocksOf(n, CalculateBlockSize(n)) <= MaxWireBlocks
<1> DEFINE q == n \div Divisor
<1>1. q \in Nat /\ n < Divisor * (q + 1) /\ Int32(q) = q
  BY Division, ConversionHolds, Limits
<1>2. SUFFICES n <= MaxWireBlocks * CalculateBlockSize(n)
  <2>1. CalculateBlockSize(n) \in Nat \ {0}
    BY AdviceInRange, Limits
  <2> QED BY <2>1, BlocksBound, Limits
<1>3. CASE n <= SmallFile
  BY <1>3, SizesAssumption, Limits DEF CalculateBlockSize
<1>4. CASE ~(n <= SmallFile)
  <2>1. CalculateBlockSize(n) = Clamped(q)
    BY <1>1, <1>4 DEF CalculateBlockSize
  <2> HIDE DEF q
  <2>2. CASE q < LeastBlock
    <3>1. Divisor * (q + 1) <= Divisor * LeastBlock
      BY <1>1, <2>2, ProductMonotone, Limits
    <3>2. Divisor * LeastBlock <= MaxWireBlocks * LeastBlock
      BY SizesAssumption, ProductMonotone, Limits
    <3>3. /\ Divisor * (q + 1) \in Nat /\ Divisor * LeastBlock \in Nat
          /\ MaxWireBlocks * LeastBlock \in Nat
      BY <1>1, Limits
    <3>4. Clamped(q) = LeastBlock
      BY <2>2 DEF Clamped
    <3> QED BY <1>1, <2>1, <3>1, <3>2, <3>3, <3>4
  <2>3. CASE q >= LeastBlock /\ q <= MostBlock
    <3>1. Divisor * (q + 1) <= Divisor * (2 * q)
      BY <1>1, <2>3, ProductMonotone, Limits
    <3>2. Divisor * (2 * q) = (2 * Divisor) * q
      BY <1>1, Limits
    <3>3. (2 * Divisor) * q <= MaxWireBlocks * q
      BY <1>1, SizesAssumption, ProductMonotone, Limits
    <3>4. /\ Divisor * (q + 1) \in Nat /\ Divisor * (2 * q) \in Nat
          /\ MaxWireBlocks * q \in Nat
      BY <1>1, Limits
    <3>5. Clamped(q) = q
      BY <1>1, <2>3, Limits DEF Clamped
    <3> QED BY <1>1, <2>1, <3>1, <3>2, <3>3, <3>4, <3>5
  <2>4. CASE q > MostBlock
    BY <1>1, <2>1, <2>4, Limits DEF Clamped
  <2> QED BY <1>1, <2>2, <2>3, <2>4, Limits
<1> QED BY <1>3, <1>4

-----------------------------------------------------------------------------
(* The theorem *)

LEMMA SizesInvHolds == SizesSpec => []SizesInv
<1>1. SizesInit => SizesInv
  BY DEF SizesInit, SizesInv
<1>2. ASSUME SizesInv, [Grow]_sizeVars
      PROVE  SizesInv'
  <2>1. CASE Grow
    <3>1. PICK n \in Growth :
            /\ fileSize' = fileSize + n
            /\ blockSize' = CalculateBlockSize(fileSize')
            /\ largest' = IF blockSize' > largest THEN blockSize' ELSE largest
      BY <2>1 DEF Grow
    <3>2. n \in Nat /\ fileSize \in Nat /\ fileSize' \in Nat /\ fileSize <= fileSize'
      BY <1>2, <3>1, GrowthAssumption DEF SizesInv
    <3>3. ASSUME fileSize' <= MaxWireBlocks * MostBlock
          PROVE  blockSize' = largest'
      <4>1. fileSize <= MaxWireBlocks * MostBlock
        BY <3>2, <3>3, Limits
      <4>2. blockSize = largest /\ blockSize = CalculateBlockSize(fileSize)
        BY <1>2, <4>1 DEF SizesInv
      <4>3. blockSize <= blockSize'
        BY <3>1, <3>2, <3>3, <4>2, AdviceMonotone
      <4>4. blockSize \in Nat /\ blockSize' \in Nat
        BY <3>1, <3>2, <3>3, <4>1, <4>2, AdviceInRange, Limits
      <4> QED BY <3>1, <4>2, <4>3, <4>4
    <3> QED BY <3>1, <3>2, <3>3 DEF SizesInv
  <2>2. CASE UNCHANGED sizeVars
    BY <1>2, <2>2 DEF SizesInv, sizeVars
  <2> QED BY <1>2, <2>1, <2>2
<1> QED BY <1>1, <1>2, PTL DEF SizesSpec

\* Whatever size a file grows to, short of one that no signature could hold, the
\* block size advised for it is within its limits, no smaller than any before,
\* and leads to no more blocks than WireDecodeSignature takes (wire.go:76).
THEOREM SignaturesOfAnySize == SizesSpec => []AdviceAccepted
<1>1. SizesInv => AdviceAccepted
  BY AdviceInRange, FewBlocks DEF SizesInv, AdviceAccepted
<1> QED BY <1>1, SizesInvHolds, PTL

-----------------------------------------------------------------------------
(* Sums *)

Adds(f, n) == \A k \in 1 .. n : f[k] \in Int

\* g holds the sums of f up to n.
IsTotal(f, n, g) ==
  /\ g \in [0 .. n -> Int]
  /\ g[0] = 0
  /\ \A k \in 1 .. n : g[k] = g[k - 1] + f[k]

LEMMA TotalExists ==
  ASSUME NEW N \in Nat, NEW f, Adds(f, N)
  PROVE  \E g : IsTotal(f, N, g)
<1> DEFINE P == {m \in 0 .. N : \E g : IsTotal(f, m, g)}
<1>1. 0 \in P
  <2>1. IsTotal(f, 0, [k \in 0 .. 0 |-> 0])
    BY DEF IsTotal
  <2> QED BY <2>1
<1>2. ASSUME NEW m \in 0 .. N - 1, m \in P
      PROVE  m + 1 \in P
  <2>1. PICK g : IsTotal(f, m, g)
    BY <1>2
  <2> DEFINE h == [k \in 0 .. m + 1 |-> IF k <= m THEN g[k] ELSE g[m] + f[m + 1]]
  <2>2. g \in [0 .. m -> Int] /\ g[m] \in Int /\ f[m + 1] \in Int /\ g[0] = 0
    BY <2>1 DEF IsTotal, Adds
  <2>3. h \in [0 .. m + 1 -> Int] /\ h[0] = 0
    BY <2>2
  <2>4. ASSUME NEW k \in 1 .. m + 1
        PROVE  h[k] = h[k - 1] + f[k]
    <3>1. CASE k <= m
      BY <2>1, <3>1 DEF IsTotal
    <3>2. CASE k = m + 1
      BY <3>2
    <3> QED BY <3>1, <3>2
  <2> HIDE DEF h
  <2>5. IsTotal(f, m + 1, h)
    BY <2>3, <2>4 DEF IsTotal
  <2> QED BY <2>5
<1> HIDE DEF P
<1>3. 0 .. N \subseteq P
  BY <1>1, <1>2, Induction
<1> QED BY <1>3 DEF P

\* Total is its recursive definition.
LEMMA TotalCorrect ==
  ASSUME NEW N \in Nat, NEW f, Adds(f, N)
  PROVE  \E g : IsTotal(f, N, g) /\ Total(N, f) = g[N]
<1> DEFINE Body(h) == [k \in 0 .. N |-> IF k = 0 THEN 0 ELSE h[k - 1] + f[k]]
           c == CHOOSE h : h = Body(h)
<1>1. PICK g : IsTotal(f, N, g)
  BY TotalExists
<1>2. g = Body(g)
  <2>1. g = [k \in 0 .. N |-> g[k]]
    BY <1>1 DEF IsTotal
  <2>2. \A k \in 0 .. N : g[k] = Body(g)[k]
    BY <1>1 DEF IsTotal
  <2> QED BY <2>1, <2>2
<1>3. c = Body(c)
  <2> HIDE DEF Body
  <2> QED BY <1>2
<1>4. Total(N, f) = c[N]
  BY DEF Total
<1> HIDE DEF c
<1>5. c[0] = 0
  BY <1>3
<1>6. ASSUME NEW k \in 1 .. N
      PROVE  c[k] = c[k - 1] + f[k]
  <2>1. k \in 0 .. N /\ k # 0
    OBVIOUS
  <2>2. Body(c)[k] = c[k - 1] + f[k]
    BY <2>1
  <2> HIDE DEF Body
  <2> QED BY <1>3, <2>2
<1> DEFINE P == {k \in 0 .. N : c[k] \in Int}
<1>7. 0 \in P
  BY <1>5
<1>8. ASSUME NEW k \in 0 .. N - 1, k \in P
      PROVE  k + 1 \in P
  <2>1. c[k + 1] = c[k] + f[k + 1] /\ f[k + 1] \in Int /\ c[k] \in Int
    BY <1>6, <1>8 DEF Adds
  <2> QED BY <2>1
<1>9. 0 .. N \subseteq P
  <2> HIDE DEF P
  <2> QED BY <1>7, <1>8, Induction
<1>10. c \in [0 .. N -> Int]
  BY <1>3, <1>9
<1> HIDE DEF Body
<1>11. IsTotal(f, N, c)
  BY <1>5, <1>6, <1>10 DEF IsTotal
<1> QED BY <1>4, <1>11

LEMMA TotalsAgree ==
  ASSUME NEW N \in Nat, NEW f, NEW g, NEW h, NEW e, IsTotal(f, N, g), IsTotal(e, N, h),
         \A k \in 1 .. N : f[k] = e[k]
  PROVE  g[N] = h[N]
<1> DEFINE P == {k \in 0 .. N : g[k] = h[k]}
<1>1. 0 \in P
  BY DEF IsTotal
<1>2. ASSUME NEW k \in 0 .. N - 1, k \in P
      PROVE  k + 1 \in P
  <2>1. g[k + 1] = g[k] + f[k + 1] /\ h[k + 1] = h[k] + e[k + 1] /\ g[k] = h[k]
    BY <1>2 DEF IsTotal
  <2> QED BY <2>1
<1> HIDE DEF P
<1>3. 0 .. N \subseteq P
  BY <1>1, <1>2, Induction
<1> QED BY <1>3 DEF P

LEMMA TotalSame ==
  ASSUME NEW n \in Nat, NEW f, NEW e, Adds(f, n), \A k \in 1 .. n : f[k] = e[k]
  PROVE  Total(n, f) = Total(n, e)
<1>1. Adds(e, n)
  BY DEF Adds
<1>2. PICK g : IsTotal(f, n, g) /\ Total(n, f) = g[n]
  BY TotalCorrect
<1>3. PICK h : IsTotal(e, n, h) /\ Total(n, e) = h[n]
  BY <1>1, TotalCorrect
<1> QED BY <1>2, <1>3, TotalsAgree

LEMMA TotalZero ==
  ASSUME NEW f
  PROVE  Total(0, f) = 0
<1>1. Adds(f, 0)
  BY DEF Adds
<1>2. PICK g : IsTotal(f, 0, g) /\ Total(0, f) = g[0]
  BY <1>1, TotalCorrect
<1> QED BY <1>2 DEF IsTotal

LEMMA TotalType ==
  ASSUME NEW n \in Nat, NEW f, Adds(f, n)
  PROVE  Total(n, f) \in Int
<1>1. PICK g : IsTotal(f, n, g) /\ Total(n, f) = g[n]
  BY TotalCorrect
<1> QED BY <1>1 DEF IsTotal

LEMMA TotalNext ==
  ASSUME NEW n \in Nat, NEW f, Adds(f, n + 1)
  PROVE  /\ Total(n + 1, f) = Total(n, f) + f[n + 1]
         /\ Adds(f, n) /\ Total(n, f) \in Int /\ f[n + 1] \in Int
<1>1. Adds(f, n) /\ f[n + 1] \in Int /\ n + 1 \in Nat
  BY DEF Adds
<1>2. PICK g : IsTotal(f, n + 1, g) /\ Total(n + 1, f) = g[n + 1]
  BY <1>1, TotalCorrect
<1>3. PICK h : IsTotal(f, n, h) /\ Total(n, f) = h[n]
  BY <1>1, TotalCorrect
<1> DEFINE e == [k \in 0 .. n |-> g[k]]
<1>4. IsTotal(f, n, e) /\ e[n] = g[n]
  BY <1>2 DEF IsTotal
<1> HIDE DEF e
<1>5. e[n] = h[n]
  BY <1>3, <1>4, TotalsAgree
<1>6. g[n + 1] = g[n] + f[n + 1]
  BY <1>2 DEF IsTotal
<1>7. Total(n, f) \in Int
  BY <1>1, TotalType
<1> QED BY <1>1, <1>2, <1>3, <1>4, <1>5, <1>6, <1>7

LEMMA AddsLess ==
  ASSUME NEW n \in Nat, NEW f, Adds(f, n), NEW m \in 0 .. n
  PROVE  Adds(f, m)
BY DEF Adds

LEMMA TotalAdd ==
  ASSUME NEW n \in Nat, NEW f, NEW e, NEW h, Adds(f, n), Adds(e, n),
         \A k \in 1 .. n : h[k] = f[k] + e[k]
  PROVE  Total(n, h) = Total(n, f) + Total(n, e)
<1> DEFINE P == {m \in 0 .. n : Total(m, h) = Total(m, f) + Total(m, e)}
<1>1. Adds(h, n)
  BY DEF Adds
<1>2. 0 \in P
  BY TotalZero
<1>3. ASSUME NEW m \in 0 .. n - 1, m \in P
      PROVE  m + 1 \in P
  <2>1. Adds(h, m + 1) /\ Adds(f, m + 1) /\ Adds(e, m + 1) /\ m \in Nat /\ m + 1 \in 1 .. n
    BY <1>1, AddsLess
  <2>2. /\ Total(m + 1, h) = Total(m, h) + h[m + 1]
        /\ Total(m + 1, f) = Total(m, f) + f[m + 1]
        /\ Total(m + 1, e) = Total(m, e) + e[m + 1]
        /\ Total(m, f) \in Int /\ Total(m, e) \in Int /\ f[m + 1] \in Int /\ e[m + 1] \in Int
    BY <2>1, TotalNext
  <2>3. h[m + 1] = f[m + 1] + e[m + 1]
    BY <2>1
  <2>4. Total(m, h) = Total(m, f) + Total(m, e)
    BY <1>3
  <2>5. Total(m + 1, h) = Total(m + 1, f) + Total(m + 1, e)
    BY ONLY <2>2, <2>3, <2>4
  <2> QED BY <2>5
<1> HIDE DEF P
<1>4. 0 .. n \subseteq P
  BY <1>2, <1>3, Induction
<1> QED BY <1>4 DEF P

LEMMA TotalScale ==
  ASSUME NEW n \in Nat, NEW f, NEW h, NEW c \in Int, Adds(f, n),
         \A k \in 1 .. n : h[k] = c * f[k]
  PROVE  Total(n, h) = c * Total(n, f)
<1> DEFINE P == {m \in 0 .. n : Total(m, h) = c * Total(m, f)}
<1>1. Adds(h, n)
  BY DEF Adds
<1>2. 0 \in P
  BY TotalZero
<1>3. ASSUME NEW m \in 0 .. n - 1, m \in P
      PROVE  m + 1 \in P
  <2>1. Adds(h, m + 1) /\ Adds(f, m + 1) /\ m \in Nat /\ m + 1 \in 1 .. n
    BY <1>1, AddsLess
  <2>2. /\ Total(m + 1, h) = Total(m, h) + h[m + 1]
        /\ Total(m + 1, f) = Total(m, f) + f[m + 1]
        /\ Total(m, f) \in Int /\ f[m + 1] \in Int
    BY <2>1, TotalNext
  <2>3. h[m + 1] = c * f[m + 1]
    BY <2>1
  <2>4. Total(m, h) = c * Total(m, f)
    BY <1>3
  <2>5. Total(m + 1, h) = c * Total(m + 1, f)
    BY ONLY <2>2, <2>3, <2>4, c \in Int
  <2> QED BY <2>5
<1> HIDE DEF P
<1>4. 0 .. n \subseteq P
  BY <1>2, <1>3, Induction
<1> QED BY <1>4 DEF P

LEMMA TotalLess ==
  ASSUME NEW n \in Nat, NEW f, NEW e, Adds(f, n), Adds(e, n),
         \A k \in 1 .. n : f[k] <= e[k]
  PROVE  Total(n, f) <= Total(n, e)
<1> DEFINE P == {m \in 0 .. n : Total(m, f) <= Total(m, e)}
<1>2. 0 \in P
  BY TotalZero
<1>3. ASSUME NEW m \in 0 .. n - 1, m \in P
      PROVE  m + 1 \in P
  <2>1. Adds(e, m + 1) /\ Adds(f, m + 1) /\ m \in Nat /\ m + 1 \in 1 .. n
    BY AddsLess
  <2>2. /\ Total(m + 1, e) = Total(m, e) + e[m + 1]
        /\ Total(m + 1, f) = Total(m, f) + f[m + 1]
        /\ Total(m, f) \in Int /\ f[m + 1] \in Int
        /\ Total(m, e) \in Int /\ e[m + 1] \in Int
    BY <2>1, TotalNext
  <2>3. f[m + 1] <= e[m + 1]
    BY <2>1
  <2>4. Total(m, f) <= Total(m, e)
    BY <1>3
  <2>5. Total(m + 1, f) <= Total(m + 1, e)
    BY ONLY <2>2, <2>3, <2>4
  <2> QED BY <2>5
<1> HIDE DEF P
<1>4. 0 .. n \subseteq P
  BY <1>2, <1>3, Induction
<1> QED BY <1>4 DEF P

\* n equal terms.
LEMMA TotalConstant ==
  ASSUME NEW n \in Nat, NEW f, NEW c \in Int, \A k \in 1 .. n : f[k] = c
  PROVE  Total(n, f) = n * c
<1> DEFINE P == {m \in 0 .. n : Total(m, f) = m * c}
<1>1. Adds(f, n)
  BY DEF Adds
<1>2. 0 \in P
  BY TotalZero
<1>3. ASSUME NEW m \in 0 .. n - 1, m \in P
      PROVE  m + 1 \in P
  <2>1. Adds(f, m + 1) /\ m \in Nat /\ m + 1 \in 1 .. n
    BY <1>1, AddsLess
  <2>2. Total(m + 1, f) = Total(m, f) + f[m + 1]
    BY <2>1, TotalNext
  <2>3. f[m + 1] = c /\ Total(m, f) = m * c
    BY <1>3, <2>1
  <2>4. (m + 1) * c = (m * c) + c
    BY <2>1
  <2> QED BY <2>1, <2>2, <2>3, <2>4
<1> HIDE DEF P
<1>4. 0 .. n \subseteq P
  BY <1>2, <1>3, Induction
<1> QED BY <1>4 DEF P

LEMMA TotalJoin ==
  ASSUME NEW a \in Nat, NEW b \in Nat, NEW f, NEW h, Adds(f, a + b),
         \A k \in 1 .. b : h[k] = f[a + k]
  PROVE  Total(a + b, f) = Total(a, f) + Total(b, h)
<1> DEFINE P == {m \in 0 .. b : Total(a + m, f) = Total(a, f) + Total(m, h)}
<1>1. Adds(h, b) /\ a + b \in Nat
  BY DEF Adds
<1>2. Total(a, f) \in Int
  BY <1>1, AddsLess, TotalType
<1>3. 0 \in P
  BY <1>2, TotalZero
<1>4. ASSUME NEW m \in 0 .. b - 1, m \in P
      PROVE  m + 1 \in P
  <2>1. /\ Adds(h, m + 1) /\ m \in Nat /\ m + 1 \in 1 .. b
        /\ a + m \in Nat /\ (a + m) + 1 \in 0 .. a + b
    BY <1>1, AddsLess
  <2>2. Adds(f, (a + m) + 1)
    BY <1>1, <2>1, AddsLess
  <2>3. /\ Total((a + m) + 1, f) = Total(a + m, f) + f[(a + m) + 1]
        /\ Total(m + 1, h) = Total(m, h) + h[m + 1]
        /\ Total(m, h) \in Int /\ h[m + 1] \in Int
    BY <2>1, <2>2, TotalNext
  <2>4. h[m + 1] = f[a + (m + 1)] /\ a + (m + 1) = (a + m) + 1
    BY <2>1
  <2>5. Total(a + m, f) = Total(a, f) + Total(m, h)
    BY <1>4
  <2>6. Total(a + (m + 1), f) = Total(a, f) + Total(m + 1, h)
    BY ONLY <1>2, <2>3, <2>4, <2>5
  <2> QED BY <2>6
<1> HIDE DEF P
<1>5. 0 .. b \subseteq P
  BY <1>3, <1>4, Induction
<1> QED BY <1>5 DEF P

\* g holds the sums of N parts of f, of m terms each.
IsParts(N, m, f, g) ==
  \A n \in 1 .. N : g[n] = Total(m, [k \in 1 .. m |-> f[((n - 1) * m) + k]])

LEMMA TotalParts ==
  ASSUME NEW N \in Nat, NEW m \in Nat, NEW f, NEW g, Adds(f, N * m), IsParts(N, m, f, g)
  PROVE  Total(N, g) = Total(N * m, f)
<1> DEFINE part(n) == [k \in 1 .. m |-> f[((n - 1) * m) + k]]
           P == {n \in 0 .. N : Total(n, g) = Total(n * m, f)}
<1>0. N * m \in Nat
  OBVIOUS
<1>1. ASSUME NEW n \in 0 .. N - 1
      PROVE  /\ Adds(part(n + 1), m) /\ n * m \in Nat /\ (n * m) + m = (n + 1) * m
             /\ (n + 1) * m \in 0 .. N * m
             /\ \A k \in 1 .. m : part(n + 1)[k] = f[(n * m) + k]
  <2>1. n * m \in Nat /\ (n * m) + m = (n + 1) * m
    OBVIOUS
  <2>2. (n + 1) * m <= N * m
    BY ScaleMonotone
  <2>3. \A k \in 1 .. m : part(n + 1)[k] = f[(n * m) + k]
    OBVIOUS
  <2>4. \A k \in 1 .. m : (n * m) + k \in 1 .. N * m
    <3> DEFINE u == n * m
               v == N * m
    <3>1. u \in Nat /\ v \in Nat /\ u + m <= v
      BY <1>0, <2>1, <2>2
    <3> HIDE DEF u, v
    <3>2. \A k \in 1 .. m : u + k \in 1 .. v
      BY <3>1
    <3> QED BY <3>2 DEF u, v
  <2> HIDE DEF part
  <2>5. Adds(part(n + 1), m)
    BY <2>3, <2>4 DEF Adds
  <2> QED BY <1>0, <2>1, <2>2, <2>3, <2>5
<1>2. \A n \in 1 .. N : g[n] = Total(m, part(n))
  BY DEF IsParts
<1>3. ASSUME NEW n \in 1 .. N
      PROVE  g[n] \in Int
  <2>1. n - 1 \in 0 .. N - 1 /\ (n - 1) + 1 = n
    OBVIOUS
  <2> HIDE DEF part
  <2>2. Adds(part((n - 1) + 1), m)
    BY <1>1, <2>1
  <2>3. Adds(part(n), m)
    BY <2>1, <2>2
  <2> QED BY <1>2, <2>3, TotalType
<1> HIDE DEF part
<1>4. Adds(g, N)
  BY <1>3 DEF Adds
<1>5. 0 \in P
  <2>1. 0 * m = 0
    OBVIOUS
  <2> QED BY <2>1, TotalZero
<1>6. ASSUME NEW n \in 0 .. N - 1, n \in P
      PROVE  n + 1 \in P
  <2>1. n \in Nat /\ Adds(g, n + 1) /\ n + 1 \in 1 .. N
    BY <1>4, AddsLess
  <2>2. Total(n + 1, g) = Total(n, g) + g[n + 1]
    BY <2>1, TotalNext
  <2>3. Adds(f, (n * m) + m)
    BY <1>0, <1>1, AddsLess
  <2>4. Total((n * m) + m, f) = Total(n * m, f) + Total(m, part(n + 1))
    BY <1>1, <2>3, TotalJoin
  <2>5. Total(n + 1, g) = Total((n + 1) * m, f)
    BY <1>1, <1>2, <1>6, <2>1, <2>2, <2>4
  <2> QED BY <2>5
<1> HIDE DEF P
<1>7. 0 .. N \subseteq P
  BY <1>5, <1>6, Induction
<1> QED BY <1>7 DEF P

\* The sums of the N rows of h, and of its M columns.
Rows(N, M, h) == [l \in 1 .. N |-> Total(M, h[l])]
Columns(N, M, h) == [r \in 1 .. M |-> Total(N, [l \in 1 .. N |-> h[l][r]])]

LEMMA TotalSwap ==
  ASSUME NEW N \in Nat, NEW M \in Nat, NEW h, \A l \in 1 .. N : Adds(h[l], M)
  PROVE  Total(N, Rows(N, M, h)) = Total(M, Columns(N, M, h))
<1> DEFINE rows == [l \in 1 .. N |-> Total(M, h[l])]
           column(r) == [l \in 1 .. N |-> h[l][r]]
           columns(n) == [r \in 1 .. M |-> Total(n, column(r))]
           P == {n \in 0 .. N : Total(n, rows) = Total(M, columns(n))}
<1>1. Adds(rows, N)
  BY TotalType DEF Adds
<1>2. \A r \in 1 .. M : Adds(column(r), N)
  BY DEF Adds
<1>3. \A r \in 1 .. M, l \in 1 .. N : column(r)[l] = h[l][r]
  OBVIOUS
<1>4. \A l \in 1 .. N : rows[l] = Total(M, h[l])
  OBVIOUS
<1> HIDE DEF column, rows
<1>5. \A n \in 0 .. N : Adds(columns(n), M)
  BY <1>2, AddsLess, TotalType DEF Adds
<1>6. \A n \in 0 .. N, r \in 1 .. M : columns(n)[r] = Total(n, column(r))
  OBVIOUS
<1> HIDE DEF columns
<1>7. 0 \in P
  <2>1. \A r \in 1 .. M : columns(0)[r] = 0
    BY <1>6, TotalZero
  <2>2. Total(M, columns(0)) = M * 0
    BY <2>1, TotalConstant
  <2> QED BY <2>2, TotalZero
<1>8. ASSUME NEW n \in 0 .. N - 1, n \in P
      PROVE  n + 1 \in P
  <2>1. n \in Nat /\ Adds(rows, n + 1) /\ n + 1 \in 1 .. N
    BY <1>1, AddsLess
  <2>2. Total(n + 1, rows) = Total(n, rows) + rows[n + 1]
    BY <2>1, TotalNext
  <2>3. ASSUME NEW r \in 1 .. M
        PROVE  columns(n + 1)[r] = columns(n)[r] + h[n + 1][r]
    <3>1. Adds(column(r), n + 1)
      BY <1>2, <2>1, AddsLess
    <3>2. Total(n + 1, column(r)) = Total(n, column(r)) + column(r)[n + 1]
      BY <2>1, <3>1, TotalNext
    <3> QED BY <1>3, <1>6, <2>1, <3>2
  <2>4. Adds(columns(n), M) /\ Adds(h[n + 1], M)
    BY <1>5, <2>1
  <2>5. Total(M, columns(n + 1)) = Total(M, columns(n)) + Total(M, h[n + 1])
    BY <2>3, <2>4, TotalAdd
  <2>6. Total(n + 1, rows) = Total(M, columns(n + 1))
    BY <1>4, <1>8, <2>1, <2>2, <2>5
  <2> QED BY <2>6
<1> HIDE DEF P
<1>9. 0 .. N \subseteq P
  BY <1>7, <1>8, Induction
<1>10. Total(N, rows) = Total(M, columns(N))
  BY <1>9 DEF P
<1> QED BY <1>10 DEF Rows, Columns, rows, columns, column

-----------------------------------------------------------------------------
(* The sums of the first bytes *)

\* The sum of the first n bytes of d, and that of the sums after each of them.
First(d, n) == Total(n, d)
Running(d, n) == [k \in 1 .. n |-> First(d, k)]
Second(d, n) == Total(n, Running(d, n))

\* The m bytes of d behind the first n, plain and by how many of the m follow.
Following(d, n, m) == [k \in 1 .. m |-> d[n + k]]
Weighing(d, n, m) == [k \in 1 .. m |-> (m - k + 1) * d[n + k]]

\* 1 + ... + n
Triangle(n) == (n * (n + 1)) \div 2

LEMMA FirstNext ==
  ASSUME NEW n \in Nat, NEW d, Adds(d, n + 1)
  PROVE  /\ First(d, n) \in Int /\ d[n + 1] \in Int
         /\ First(d, n + 1) = First(d, n) + d[n + 1]
BY TotalNext DEF First

LEMMA RunningAdds ==
  ASSUME NEW n \in Nat, NEW d, Adds(d, n)
  PROVE  Adds(Running(d, n), n)
<1>1. ASSUME NEW k \in 1 .. n
      PROVE  First(d, k) \in Int
  <2>1. Adds(d, k) /\ k \in Nat
    BY AddsLess
  <2> QED BY <2>1, TotalType DEF First
<1> QED BY <1>1 DEF Adds, Running

LEMMA SecondNext ==
  ASSUME NEW n \in Nat, NEW d, Adds(d, n + 1)
  PROVE  /\ Second(d, n) \in Int /\ First(d, n + 1) \in Int
         /\ Second(d, n + 1) = Second(d, n) + First(d, n + 1)
<1>1. Adds(d, n) /\ n + 1 \in Nat
  BY AddsLess
<1>2. Adds(Running(d, n + 1), n + 1) /\ Adds(Running(d, n), n)
  BY <1>1, RunningAdds
<1>3. /\ Total(n + 1, Running(d, n + 1)) = Total(n, Running(d, n + 1)) + Running(d, n + 1)[n + 1]
      /\ Running(d, n + 1)[n + 1] \in Int
  BY <1>2, TotalNext
<1>4. Running(d, n + 1)[n + 1] = First(d, n + 1)
  BY DEF Running
<1>5. \A k \in 1 .. n : Running(d, n)[k] = Running(d, n + 1)[k]
  BY DEF Running
<1>6. Total(n, Running(d, n)) = Total(n, Running(d, n + 1))
  BY <1>2, <1>5, TotalSame
<1>7. Total(n, Running(d, n)) \in Int
  BY <1>2, TotalType
<1> QED BY <1>3, <1>4, <1>6, <1>7 DEF Second

LEMMA NoSums ==
  ASSUME NEW d
  PROVE  First(d, 0) = 0 /\ Second(d, 0) = 0
BY TotalZero DEF First, Second

LEMMA SumsType ==
  ASSUME NEW n \in Nat, NEW d, Adds(d, n)
  PROVE  First(d, n) \in Int /\ Second(d, n) \in Int
BY RunningAdds, TotalType DEF First, Second

LEMMA FollowingNext ==
  ASSUME NEW n \in Nat, NEW m \in Nat, NEW d, Adds(d, n + (m + 1))
  PROVE  /\ Adds(Following(d, n, m), m) /\ Adds(Following(d, n, m + 1), m + 1)
         /\ Total(m + 1, Following(d, n, m + 1)) = Total(m, Following(d, n, m)) + d[n + (m + 1)]
         /\ d[n + (m + 1)] \in Int
<1>1. \A k \in 1 .. m + 1 : d[n + k] \in Int
  BY DEF Adds
<1>2. Adds(Following(d, n, m), m) /\ Adds(Following(d, n, m + 1), m + 1)
  BY <1>1 DEF Adds, Following
<1>3. Total(m + 1, Following(d, n, m + 1))
        = Total(m, Following(d, n, m + 1)) + Following(d, n, m + 1)[m + 1]
  BY <1>2, TotalNext
<1>4. \A k \in 1 .. m : Following(d, n, m)[k] = Following(d, n, m + 1)[k]
  BY DEF Following
<1>5. Total(m, Following(d, n, m)) = Total(m, Following(d, n, m + 1))
  BY <1>2, <1>4, TotalSame
<1>6. Following(d, n, m + 1)[m + 1] = d[n + (m + 1)]
  BY DEF Following
<1> QED BY <1>1, <1>2, <1>3, <1>5, <1>6

\* With one byte more, every byte is followed by one more.
LEMMA WeighingNext ==
  ASSUME NEW n \in Nat, NEW m \in Nat, NEW d, Adds(d, n + (m + 1))
  PROVE  /\ Adds(Weighing(d, n, m), m) /\ Adds(Weighing(d, n, m + 1), m + 1)
         /\ Total(m + 1, Weighing(d, n, m + 1))
              = Total(m, Weighing(d, n, m)) + Total(m + 1, Following(d, n, m + 1))
<1> DEFINE longer == Weighing(d, n, m + 1)
<1>1. \A k \in 1 .. m + 1 : d[n + k] \in Int
  BY DEF Adds
<1>2. Adds(Weighing(d, n, m), m) /\ Adds(longer, m + 1)
  <2>1. \A k \in 1 .. m : (m - k + 1) * d[n + k] \in Int
    BY <1>1
  <2>2. \A k \in 1 .. m + 1 : ((m + 1) - k + 1) * d[n + k] \in Int
    BY <1>1
  <2> QED BY <2>1, <2>2 DEF Adds, Weighing
<1>3. /\ Adds(Following(d, n, m), m)
      /\ Total(m + 1, Following(d, n, m + 1)) = Total(m, Following(d, n, m)) + d[n + (m + 1)]
      /\ d[n + (m + 1)] \in Int
  BY FollowingNext
<1>4. ASSUME NEW k \in 1 .. m
      PROVE  longer[k] = Weighing(d, n, m)[k] + Following(d, n, m)[k]
  <2>1. /\ longer[k] = ((m + 1) - k + 1) * d[n + k]
        /\ Weighing(d, n, m)[k] = (m - k + 1) * d[n + k]
        /\ Following(d, n, m)[k] = d[n + k]
    BY DEF Weighing, Following
  <2>2. d[n + k] \in Int
    BY <1>1
  <2> DEFINE x == d[n + k]
  <2> HIDE DEF x
  <2>3. ((m + 1) - k + 1) * x = ((m - k + 1) * x) + x
    <3>1. x \in Int
      BY <2>2 DEF x
    <3> QED BY <3>1
  <2> QED BY <2>1, <2>3 DEF x
<1>5. longer[m + 1] = d[n + (m + 1)]
  <2>1. longer[m + 1] = ((m + 1) - (m + 1) + 1) * d[n + (m + 1)]
    BY DEF Weighing
  <2>2. (m + 1) - (m + 1) + 1 = 1
    OBVIOUS
  <2> QED BY <1>3, <2>1, <2>2
<1> HIDE DEF longer
<1>6. Total(m + 1, longer) = Total(m, longer) + longer[m + 1]
  BY <1>2, TotalNext
<1>7. Total(m, longer) = Total(m, Weighing(d, n, m)) + Total(m, Following(d, n, m))
  BY <1>2, <1>3, <1>4, TotalAdd
<1>8. Total(m, Weighing(d, n, m)) \in Int /\ Total(m, Following(d, n, m)) \in Int
  BY <1>2, <1>3, TotalType
<1>9. Total(m + 1, longer)
        = Total(m, Weighing(d, n, m)) + Total(m + 1, Following(d, n, m + 1))
  BY ONLY <1>3, <1>5, <1>6, <1>7, <1>8
<1> QED BY <1>2, <1>9 DEF longer

\* The sums n + m bytes on, from those n bytes on.
LEMMA SumsAdvance ==
  ASSUME NEW n \in Nat, NEW m \in Nat, NEW d, Adds(d, n + m)
  PROVE  /\ First(d, n) \in Int /\ Second(d, n) \in Int
         /\ Adds(Following(d, n, m), m) /\ Adds(Weighing(d, n, m), m)
         /\ First(d, n + m) = First(d, n) + Total(m, Following(d, n, m))
         /\ Second(d, n + m) = Second(d, n) + (m * First(d, n)) + Total(m, Weighing(d, n, m))
<1> DEFINE P == {j \in 0 .. m :
                   /\ Adds(Following(d, n, j), j) /\ Adds(Weighing(d, n, j), j)
                   /\ First(d, n + j) = First(d, n) + Total(j, Following(d, n, j))
                   /\ Second(d, n + j)
                        = Second(d, n) + (j * First(d, n)) + Total(j, Weighing(d, n, j))}
<1>1. First(d, n) \in Int /\ Second(d, n) \in Int /\ n + m \in Nat
  BY AddsLess, SumsType
<1>2. 0 \in P
  <2>1. Total(0, Following(d, n, 0)) = 0 /\ Total(0, Weighing(d, n, 0)) = 0
    BY TotalZero
  <2>2. Adds(Following(d, n, 0), 0) /\ Adds(Weighing(d, n, 0), 0)
    BY DEF Adds
  <2>3. n + 0 = n /\ 0 * First(d, n) = 0
    BY <1>1
  <2>4. 0 \in 0 .. m
    OBVIOUS
  <2>5. First(d, n) + 0 = First(d, n) /\ Second(d, n) + 0 + 0 = Second(d, n)
    BY <1>1
  <2> QED BY <2>1, <2>2, <2>3, <2>4, <2>5
<1>3. ASSUME NEW j \in 0 .. m - 1, j \in P
      PROVE  j + 1 \in P
  <2>1. /\ j \in Nat /\ j + 1 \in 0 .. m /\ n + j \in Nat /\ n + (j + 1) \in 0 .. n + m
        /\ (n + j) + 1 = n + (j + 1)
    OBVIOUS
  <2>2. Adds(d, n + (j + 1))
    BY <1>1, <2>1, AddsLess
  <2>3. /\ First(d, n + (j + 1)) = First(d, n + j) + d[n + (j + 1)]
        /\ Second(d, n + (j + 1)) = Second(d, n + j) + First(d, n + (j + 1))
    BY <2>1, <2>2, FirstNext, SecondNext
  <2>4. /\ Adds(Following(d, n, j), j) /\ Adds(Following(d, n, j + 1), j + 1)
        /\ Total(j + 1, Following(d, n, j + 1)) = Total(j, Following(d, n, j)) + d[n + (j + 1)]
        /\ d[n + (j + 1)] \in Int
    BY <2>1, <2>2, FollowingNext
  <2>5. /\ Adds(Weighing(d, n, j), j) /\ Adds(Weighing(d, n, j + 1), j + 1)
        /\ Total(j + 1, Weighing(d, n, j + 1))
             = Total(j, Weighing(d, n, j)) + Total(j + 1, Following(d, n, j + 1))
    BY <2>1, <2>2, WeighingNext
  <2>6. Total(j, Following(d, n, j)) \in Int /\ Total(j, Weighing(d, n, j)) \in Int
    BY <2>1, <2>4, <2>5, TotalType
  <2>7. /\ First(d, n + j) = First(d, n) + Total(j, Following(d, n, j))
        /\ Second(d, n + j) = Second(d, n) + (j * First(d, n)) + Total(j, Weighing(d, n, j))
    BY <1>3
  <2>8. First(d, n + (j + 1)) = First(d, n) + Total(j + 1, Following(d, n, j + 1))
    BY ONLY <1>1, <2>3, <2>4, <2>6, <2>7
  <2>9. (j + 1) * First(d, n) = (j * First(d, n)) + First(d, n) /\ j * First(d, n) \in Int
    BY <1>1, <2>1
  <2>10. Second(d, n + (j + 1))
           = Second(d, n) + ((j + 1) * First(d, n)) + Total(j + 1, Weighing(d, n, j + 1))
    BY ONLY <1>1, <2>3, <2>4, <2>5, <2>6, <2>7, <2>8, <2>9
  <2> QED BY <2>1, <2>4, <2>5, <2>8, <2>10
<1> HIDE DEF P
<1>4. 0 .. m \subseteq P
  BY <1>2, <1>3, Induction
<1>5. m \in P
  BY <1>4
<1> QED BY <1>1, <1>5 DEF P

LEMMA TriangleDouble ==
  ASSUME NEW n \in Nat
  PROVE  Triangle(n) \in Nat /\ 2 * Triangle(n) = n * (n + 1)
<1>1. PICK k \in Nat : n = 2 * k \/ n = (2 * k) + 1
  <2>1. n \div 2 \in Nat /\ (n = 2 * (n \div 2) \/ n = (2 * (n \div 2)) + 1)
    OBVIOUS
  <2> QED BY <2>1
<1>2. PICK q \in Nat : n * (n + 1) = 2 * q
  <2>1. CASE n = 2 * k
    <3>1. (2 * k) * ((2 * k) + 1) = 2 * (k * ((2 * k) + 1)) /\ k * ((2 * k) + 1) \in Nat
      OBVIOUS
    <3> QED BY <2>1, <3>1
  <2>2. CASE n = (2 * k) + 1
    <3>1. /\ ((2 * k) + 1) * (((2 * k) + 1) + 1) = 2 * (((2 * k) + 1) * (k + 1))
          /\ ((2 * k) + 1) * (k + 1) \in Nat
      OBVIOUS
    <3> QED BY <2>2, <3>1
  <2> QED BY <1>1, <2>1, <2>2
<1>3. (2 * q) \div 2 = q
  OBVIOUS
<1> QED BY <1>2, <1>3 DEF Triangle

LEMMA TriangleAdd ==
  ASSUME NEW n \in Nat, NEW m \in Nat
  PROVE  Triangle(n + m) = Triangle(n) + (n * m) + Triangle(m)
<1>1. /\ Triangle(n) \in Nat /\ 2 * Triangle(n) = n * (n + 1)
      /\ Triangle(m) \in Nat /\ 2 * Triangle(m) = m * (m + 1)
      /\ Triangle(n + m) \in Nat /\ 2 * Triangle(n + m) = (n + m) * ((n + m) + 1)
  BY TriangleDouble
<1>2. (n + m) * ((n + m) + 1) = (n * (n + 1)) + (2 * (n * m)) + (m * (m + 1)) /\ n * m \in Nat
  OBVIOUS
<1>3. n * (n + 1) \in Nat /\ m * (m + 1) \in Nat
  OBVIOUS
<1> QED BY ONLY <1>1, <1>2, <1>3

LEMMA TriangleNext ==
  ASSUME NEW n \in Nat
  PROVE  Triangle(0) = 0 /\ Triangle(n + 1) = Triangle(n) + n + 1
<1>1. Triangle(0) = 0 /\ Triangle(1) = 1
  BY DEF Triangle
<1>2. Triangle(n + 1) = Triangle(n) + (n * 1) + Triangle(1)
  BY TriangleAdd
<1> QED BY <1>1, <1>2, TriangleDouble

SumsBut(d, n) ==
  [s1 |-> First(d, n) + (n * CharOffset), s2 |-> Second(d, n) + (Triangle(n) * CharOffset)]

LEMMA OneByteOn ==
  ASSUME NEW a \in Int, NEW b \in Int, NEW x \in Int, NEW m \in Int, NEW u \in Int, NEW c \in Int
  PROVE  /\ (a + (m * c)) + x + c = (a + x) + ((m + 1) * c)
         /\ (b + (u * c)) + ((a + x) + ((m + 1) * c)) = (b + (a + x)) + ((u + m + 1) * c)
<1>1. (m + 1) * c = (m * c) + c /\ (u + m + 1) * c = (u * c) + (m * c) + c
  OBVIOUS
<1>2. m * c \in Int /\ u * c \in Int
  OBVIOUS
<1> QED BY <1>1, <1>2

\* CHAR_OFFSET counts once for every byte, and once for every prefix it is in.
LEMMA PartialSumsAre ==
  ASSUME NEW w \in Seq(Nat), NEW n \in 0 .. Len(w)
  PROVE  PartialSums(w)[n] = SumsBut(w, n)
<1> DEFINE g == PartialSums(w)
           P == {m \in 0 .. Len(w) : g[m] = SumsBut(w, m)}
<1>0. Len(w) \in Nat /\ \A k \in 1 .. Len(w) : w[k] \in Nat
  BY LenProperties, ElementOfSeq
<1>1. Adds(w, Len(w))
  BY <1>0 DEF Adds
<1>2. IsSums(w, Len(w), g)
  BY PartialSumsCorrect
<1> HIDE DEF g
<1>3. 0 \in P
  <2>1. 0 * CharOffset = 0 /\ Triangle(0) * CharOffset = 0
    BY CharOffsetAssumption, TriangleNext
  <2>2. SumsBut(w, 0) = ZeroSum
    BY <2>1, NoSums DEF SumsBut, ZeroSum
  <2> QED BY <1>0, <1>2, <2>2 DEF IsSums
<1>4. ASSUME NEW m \in 0 .. Len(w) - 1, m \in P
      PROVE  m + 1 \in P
  <2>1. m \in Nat /\ m + 1 \in 1 .. Len(w) /\ Adds(w, m + 1)
    BY <1>0, <1>1, AddsLess
  <2>2. /\ First(w, m) \in Int /\ w[m + 1] \in Nat
        /\ First(w, m + 1) = First(w, m) + w[m + 1]
        /\ Second(w, m) \in Int
        /\ Second(w, m + 1) = Second(w, m) + First(w, m + 1)
    BY <1>0, <2>1, FirstNext, SecondNext
  <2>3. g[m + 1] = Extend(g[m], w[m + 1])
    <3>1. (m + 1) - 1 = m
      BY <2>1
    <3> QED BY <1>2, <2>1, <3>1 DEF IsSums
  <2>4. g[m].s1 = First(w, m) + (m * CharOffset) /\ g[m].s2 = Second(w, m) + (Triangle(m) * CharOffset)
    BY <1>4 DEF SumsBut
  <2>5. g[m + 1] = [s1 |-> g[m].s1 + w[m + 1] + CharOffset,
                    s2 |-> g[m].s2 + (g[m].s1 + w[m + 1] + CharOffset)]
    BY <2>3 DEF Extend
  <2>6. /\ Triangle(m) \in Nat /\ Triangle(m + 1) = Triangle(m) + m + 1 /\ CharOffset \in Nat
    BY <2>1, TriangleDouble, TriangleNext, CharOffsetAssumption
  <2> DEFINE a == First(w, m)
             b == Second(w, m)
             x == w[m + 1]
             u == Triangle(m)
             c == CharOffset
  <2>7. a \in Int /\ b \in Int /\ x \in Int /\ m \in Int /\ u \in Int /\ c \in Int
    BY <2>1, <2>2, <2>6
  <2> HIDE DEF a, b, x, u, c
  <2>8. /\ (a + (m * c)) + x + c = (a + x) + ((m + 1) * c)
        /\ (b + (u * c)) + ((a + x) + ((m + 1) * c)) = (b + (a + x)) + ((u + m + 1) * c)
    BY <2>7, OneByteOn
  <2>9. /\ g[m].s1 + w[m + 1] + CharOffset = First(w, m + 1) + ((m + 1) * CharOffset)
        /\ g[m].s2 + (First(w, m + 1) + ((m + 1) * CharOffset))
             = Second(w, m + 1) + (Triangle(m + 1) * CharOffset)
    BY <2>2, <2>4, <2>6, <2>8, Zenon DEF a, b, x, u, c
  <2>10. g[m + 1] = SumsBut(w, m + 1)
    BY <2>5, <2>9 DEF SumsBut
  <2> QED BY <2>1, <2>10
<1> HIDE DEF P
<1>5. 0 .. Len(w) \subseteq P
  BY <1>0, <1>3, <1>4, Induction
<1> QED BY <1>5 DEF P, g

LEMMA FirstSame ==
  ASSUME NEW n \in Nat, NEW d, NEW w, Adds(d, n), \A k \in 1 .. n : d[k] = w[k]
  PROVE  First(d, n) = First(w, n) /\ Second(d, n) = Second(w, n)
<1>1. ASSUME NEW k \in 0 .. n
      PROVE  First(d, k) = First(w, k)
  <2>1. Adds(d, k) /\ k \in Nat
    BY AddsLess
  <2> QED BY <2>1, TotalSame DEF First
<1>2. Adds(Running(d, n), n)
  BY RunningAdds
<1>3. \A k \in 1 .. n : Running(d, n)[k] = Running(w, n)[k]
  BY <1>1 DEF Running
<1>4. Total(n, Running(d, n)) = Total(n, Running(w, n))
  BY <1>2, <1>3, TotalSame
<1> QED BY <1>1, <1>4 DEF Second

\* w is the first n bytes of d.
IsStart(w, d, n) == w \in Seq(Nat) /\ Len(w) = n /\ \A k \in 1 .. n : w[k] = d[k]

LEMMA ChecksumOfFirst ==
  ASSUME NEW n \in Nat, NEW d, NEW w, IsStart(w, d, n)
  PROVE  Checksum1(w) = Value([s1 |-> SumsBut(d, n).s1 % Mod, s2 |-> SumsBut(d, n).s2 % Mod])
<1>0. w \in Seq(Nat) /\ Len(w) = n /\ \A k \in 1 .. n : w[k] = d[k]
  BY DEF IsStart
<1>1. Adds(w, n)
  <2>1. \A k \in 1 .. Len(w) : w[k] \in Nat
    BY <1>0, ElementOfSeq
  <2> QED BY <1>0, <2>1 DEF Adds
<1>2. First(w, n) = First(d, n) /\ Second(w, n) = Second(d, n)
  BY <1>0, <1>1, FirstSame
<1>3. PartialSums(w)[Len(w)] = SumsBut(d, n)
  BY <1>0, <1>2, PartialSumsAre DEF SumsBut
<1> QED BY <1>3 DEF Checksum1, Reset

-----------------------------------------------------------------------------
(* Sums that agree in the bits that count *)

Like(a, b) == a % Mod = b % Mod

LEMMA LikeIff ==
  ASSUME NEW a \in Int, NEW b \in Int
  PROVE  Like(a, b) <=> \E q \in Int : a = b + (q * Mod)
<1>0. Mod \in Nat \ {0}
  BY ModAssumption
<1> DEFINE u == a \div Mod
           v == b \div Mod
           s == a % Mod
           r == b % Mod
<1>1. /\ u \in Int /\ v \in Int /\ s \in Int /\ r \in 0 .. Mod - 1
      /\ a = (u * Mod) + s /\ b = (v * Mod) + r
  BY <1>0
<1> HIDE DEF u, v, s, r
<1>2. ASSUME s = r
      PROVE  \E q \in Int : a = b + (q * Mod)
  <2>1. (u - v) * Mod = (u * Mod) - (v * Mod) /\ u - v \in Int
    BY <1>0, <1>1
  <2>2. u * Mod \in Int /\ v * Mod \in Int
    BY <1>0, <1>1
  <2>3. a = b + ((u - v) * Mod)
    BY <1>1, <1>2, <2>1, <2>2
  <2> QED BY <2>1, <2>3
<1>3. ASSUME NEW q \in Int, a = b + (q * Mod)
      PROVE  a % Mod = r
  <2>1. (v + q) * Mod = (v * Mod) + (q * Mod) /\ v + q \in Int
    BY <1>0, <1>1
  <2>2. u * Mod \in Int /\ v * Mod \in Int /\ q * Mod \in Int
    BY <1>0, <1>1
  <2>3. a = ((v + q) * Mod) + r
    BY <1>1, <1>3, <2>1, <2>2
  <2> QED BY <1>0, <1>1, <2>1, <2>3, ModUnique
<1> QED BY <1>2, <1>3 DEF Like, s, r

LEMMA LikeChain ==
  ASSUME NEW a, NEW b, NEW c, Like(a, b)
  PROVE  /\ Like(a, a) /\ Like(b, a)
         /\ Like(b, c) => Like(a, c)
BY DEF Like

LEMMA LikeAdd ==
  ASSUME NEW a \in Int, NEW b \in Int, NEW c \in Int, NEW d \in Int, Like(a, b), Like(c, d)
  PROVE  Like(a + c, b + d)
<1>0. Mod \in Nat \ {0}
  BY ModAssumption
<1>1. PICK p \in Int : a = b + (p * Mod)
  BY LikeIff
<1>2. PICK q \in Int : c = d + (q * Mod)
  BY LikeIff
<1>3. (p + q) * Mod = (p * Mod) + (q * Mod) /\ p + q \in Int /\ p * Mod \in Int /\ q * Mod \in Int
  BY <1>0
<1>4. a + c = (b + d) + ((p + q) * Mod)
  BY <1>1, <1>2, <1>3
<1>5. a + c \in Int /\ b + d \in Int
  OBVIOUS
<1> QED BY <1>3, <1>4, <1>5, LikeIff

LEMMA LikeScale ==
  ASSUME NEW a \in Int, NEW b \in Int, NEW c \in Int, Like(a, b)
  PROVE  Like(c * a, c * b)
<1>0. Mod \in Nat \ {0}
  BY ModAssumption
<1>1. PICK p \in Int : a = b + (p * Mod)
  BY LikeIff
<1>2. c * (b + (p * Mod)) = (c * b) + ((c * p) * Mod) /\ c * p \in Int
  <2>1. p * Mod \in Int
    BY <1>0
  <2>2. c * (b + (p * Mod)) = (c * b) + (c * (p * Mod))
    BY <2>1
  <2>3. c * (p * Mod) = (c * p) * Mod
    BY <1>0
  <2> QED BY <2>2, <2>3
<1>3. c * a \in Int /\ c * b \in Int
  OBVIOUS
<1> QED BY <1>1, <1>2, <1>3, LikeIff

LEMMA Multiple ==
  ASSUME NEW w \in Nat, NEW m \in Nat \ {0}, w % m = 0
  PROVE  w \div m \in Nat /\ w = (w \div m) * m
OBVIOUS

\* Sums may wrap at any multiple of Mod.
LEMMA LikeWrap ==
  ASSUME NEW a \in Int, NEW w \in Nat \ {0}, w % Mod = 0
  PROVE  Like(a % w, a) /\ a % w \in Int
<1>0. Mod \in Nat \ {0}
  BY ModAssumption
<1>1. PICK t \in Nat : w = t * Mod
  BY <1>0, Multiple
<1> DEFINE u == a \div w
           r == a % w
<1>2. u \in Int /\ r \in Int /\ a = (u * w) + r
  OBVIOUS
<1> HIDE DEF u, r
<1>3. u * (t * Mod) = (u * t) * Mod /\ u * t \in Int
  BY <1>0, <1>2
<1>4. a = r + ((u * t) * Mod)
  <2>1. (u * t) * Mod \in Int
    BY <1>0, <1>3
  <2>2. a = ((u * t) * Mod) + r
    BY <1>1, <1>2, <1>3
  <2> QED BY <1>2, <2>1, <2>2
<1>5. Like(a, r)
  BY <1>2, <1>3, <1>4, LikeIff
<1> QED BY <1>2, <1>5, LikeChain DEF r

LEMMA WordIsLarge ==
  /\ Word \in Nat \ {0} /\ Word % Mod = 0
  /\ \E t \in Nat : Word = 2 * (t * Mod)
<1>0. Mod \in Nat \ {0} /\ 2 * Mod \in Nat \ {0}
  BY ModAssumption
<1>1. PICK t \in Nat : Word = t * (2 * Mod)
  BY <1>0, WordAssumption, Multiple
<1>2. t * (2 * Mod) = 2 * (t * Mod) /\ t * (2 * Mod) = ((2 * t) * Mod) + 0 /\ 2 * t \in Int
  BY <1>0
<1>3. (((2 * t) * Mod) + 0) % Mod = 0
  <2>1. 0 \in 0 .. Mod - 1
    BY <1>0
  <2> QED BY <1>0, <1>2, <2>1, ModUnique
<1> QED BY <1>1, <1>2, <1>3, WordAssumption

LEMMA LikeTotal ==
  ASSUME NEW n \in Nat, NEW f, NEW e, NEW h, Adds(f, n), Adds(e, n), Adds(h, n),
         \A k \in 1 .. n : Like(h[k], f[k] + e[k])
  PROVE  Like(Total(n, h), Total(n, f) + Total(n, e))
<1> DEFINE P == {m \in 0 .. n : Like(Total(m, h), Total(m, f) + Total(m, e))}
<1>2. 0 \in P
  BY TotalZero DEF Like
<1>3. ASSUME NEW m \in 0 .. n - 1, m \in P
      PROVE  m + 1 \in P
  <2>1. Adds(h, m + 1) /\ Adds(f, m + 1) /\ Adds(e, m + 1) /\ m \in Nat /\ m + 1 \in 1 .. n
    BY AddsLess
  <2>2. /\ Total(m + 1, h) = Total(m, h) + h[m + 1]
        /\ Total(m + 1, f) = Total(m, f) + f[m + 1]
        /\ Total(m + 1, e) = Total(m, e) + e[m + 1]
        /\ Total(m, f) \in Int /\ Total(m, e) \in Int /\ f[m + 1] \in Int /\ e[m + 1] \in Int
        /\ Total(m, h) \in Int /\ h[m + 1] \in Int
    BY <2>1, TotalNext
  <2>3. Like(h[m + 1], f[m + 1] + e[m + 1])
    BY <2>1
  <2>4. Like(Total(m, h), Total(m, f) + Total(m, e))
    BY <1>3
  <2>5. Total(m, f) + Total(m, e) \in Int /\ f[m + 1] + e[m + 1] \in Int
    BY <2>2
  <2>6. Like(Total(m, h) + h[m + 1], (Total(m, f) + Total(m, e)) + (f[m + 1] + e[m + 1]))
    BY <2>2, <2>3, <2>4, <2>5, LikeAdd
  <2>7. (Total(m, f) + Total(m, e)) + (f[m + 1] + e[m + 1]) = Total(m + 1, f) + Total(m + 1, e)
    BY ONLY <2>2
  <2> QED BY <2>1, <2>2, <2>6, <2>7
<1> HIDE DEF P
<1>4. 0 .. n \subseteq P
  BY <1>2, <1>3, Induction
<1> QED BY <1>4 DEF P

\* Halving after the product has wrapped loses a multiple of Mod at most.
LEMMA CorrectionIsTriangle ==
  ASSUME NEW p \in Nat
  PROVE  Correction(p) \in Int /\ Like(Correction(p), Triangle(p) * CharOffset)
<1>0. Mod \in Nat \ {0} /\ CharOffset \in Nat /\ Word \in Nat \ {0} /\ Word % Mod = 0
  BY ModAssumption, CharOffsetAssumption, WordIsLarge
<1>1. PICK t \in Nat : Word = 2 * (t * Mod)
  BY WordIsLarge
<1>2. Triangle(p) \in Nat /\ 2 * Triangle(p) = p * (p + 1)
  BY TriangleDouble
<1> DEFINE x == p * (p + 1)
           u == x \div Word
           r == x % Word
           h == r \div 2
<1>3. x \in Nat /\ u \in Int /\ r \in Nat /\ x = (u * Word) + r
  <2>1. x \in Nat
    OBVIOUS
  <2> HIDE DEF x
  <2> QED BY <1>0, <2>1
<1> HIDE DEF x, u, r
<1>4. r = 2 * (Triangle(p) - ((u * t) * Mod)) /\ (u * t) * Mod \in Int /\ u * t \in Int
  <2> DEFINE y == (u * t) * Mod
             z == Triangle(p)
  <2>1. u * (2 * (t * Mod)) = 2 * ((u * t) * Mod) /\ (u * t) * Mod \in Int /\ u * t \in Int
    BY <1>0, <1>3
  <2>2. x = (2 * y) + r
    BY <1>1, <1>3, <2>1
  <2>3. x = 2 * z
    BY <1>2 DEF x
  <2>4. y \in Int /\ z \in Int /\ r \in Nat
    BY <1>2, <1>3, <2>1
  <2> HIDE DEF y, z
  <2>5. r = 2 * (z - y)
    BY ONLY <2>2, <2>3, <2>4
  <2> QED BY <2>1, <2>5 DEF y, z
<1>5. h = Triangle(p) - ((u * t) * Mod)
  <2> DEFINE y == Triangle(p) - ((u * t) * Mod)
  <2>1. y \in Int
    BY <1>2, <1>4
  <2>2. r = 2 * y
    BY <1>4
  <2> HIDE DEF y
  <2>3. (2 * y) \div 2 = y
    BY <2>1
  <2> QED BY <2>2, <2>3 DEF y
<1>6. h \in Int /\ Like(Triangle(p), h)
  <2>1. Triangle(p) = h + ((u * t) * Mod) /\ h \in Int
    BY <1>2, <1>4, <1>5
  <2> HIDE DEF h
  <2> QED BY <1>2, <1>4, <2>1, LikeIff
<1>7. Correction(p) = (h * CharOffset) % Word
  BY DEF Correction, x, r
<1> HIDE DEF h
<1>8. Like(CharOffset * Triangle(p), CharOffset * h)
  BY <1>0, <1>2, <1>6, LikeScale
<1>9. CharOffset * Triangle(p) = Triangle(p) * CharOffset /\ CharOffset * h = h * CharOffset
  BY <1>0, <1>2, <1>6
<1>10. h * CharOffset \in Int
  BY <1>0, <1>6
<1>11. Like((h * CharOffset) % Word, h * CharOffset) /\ (h * CharOffset) % Word \in Int
  BY <1>0, <1>10, LikeWrap
<1> QED BY <1>7, <1>8, <1>9, <1>11 DEF Like

-----------------------------------------------------------------------------
(* Lanes *)

LEMMA KernelFacts ==
  ASSUME kernel \in Kernels
  PROVE  /\ kernel.block \in Nat \ {0} /\ kernel.unit \in Nat \ {0} /\ kernel.limit \in Nat
         /\ kernel.width \in Nat \ {0} /\ kernel.width % Mod = 0
         /\ kernel.plain \in Shape /\ kernel.weighted \in Shape
         /\ MostPlain(kernel) <= kernel.limit /\ MostWeighed(kernel) <= kernel.limit
         /\ \A shape \in {kernel.plain, kernel.weighted} : kernel.block % (shape.group * shape.lanes) = 0
BY KernelAssumption DEF Kernel

LEMMA ShapeFacts ==
  ASSUME kernel \in Kernels, NEW shape \in {kernel.plain, kernel.weighted}
  PROVE  /\ shape.lanes \in Nat \ {0} /\ shape.group \in Nat \ {0}
         /\ Registers(shape) \in Nat /\ Registers(shape) * shape.lanes \in Nat
         /\ (Registers(shape) * shape.lanes) * shape.group = kernel.block
<1> DEFINE g == shape.group
           n == shape.lanes
           R == Registers(shape)
<1>1. g \in Nat \ {0} /\ n \in Nat \ {0} /\ kernel.block \in Nat \ {0} /\ kernel.block % (g * n) = 0
  BY KernelFacts DEF Shape
<1>2. R = kernel.block \div (g * n)
  BY DEF Registers
<1> HIDE DEF g, n, R
<1>3. g * n \in Nat \ {0}
  BY <1>1
<1>4. R \in Nat /\ kernel.block = R * (g * n)
  BY <1>1, <1>2, <1>3, Multiple
<1>5. R * (g * n) = (R * n) * g /\ R * n \in Nat
  BY <1>1, <1>4
<1> QED BY <1>1, <1>4, <1>5 DEF g, n, R

LEMMA PartIndex ==
  ASSUME NEW N \in Nat, NEW m \in Nat, NEW n \in 1 .. N, NEW k \in 1 .. m
  PROVE  ((n - 1) * m) + k \in 1 .. N * m
<1>1. (n - 1) * m \in Nat /\ (n - 1) * m + m = n * m
  OBVIOUS
<1>2. n * m <= N * m /\ N * m \in Nat
  BY ScaleMonotone
<1> DEFINE u == (n - 1) * m
           v == N * m
<1>3. u \in Nat /\ v \in Nat /\ u + m <= v
  BY <1>1, <1>2
<1> HIDE DEF u, v
<1>4. u + k \in 1 .. v
  BY <1>3
<1> QED BY <1>4 DEF u, v

\* However the groups go to the lanes of an accumulator, none is lost or
\* counted twice; if the limit cuts none, the lanes hold the sum of a block.
LEMMA LanesHoldAll ==
  ASSUME kernel \in Kernels, NEW shape \in {kernel.plain, kernel.weighted},
         NEW f, Adds(f, kernel.block),
         \A n \in 1 .. Registers(shape) * shape.lanes :
           Total(shape.group, [k \in 1 .. shape.group |-> f[((n - 1) * shape.group) + k]])
             <= kernel.limit
  PROVE  /\ Adds(InLanes(shape, f), shape.lanes)
         /\ Total(shape.lanes, InLanes(shape, f)) = Total(kernel.block, f)
<1> DEFINE g == shape.group
           L == shape.lanes
           R == Registers(shape)
           part(n) == [k \in 1 .. g |-> f[((n - 1) * g) + k]]
           G == [n \in 1 .. R * L |-> GroupOf(shape, f, n)]
           h == [l \in 1 .. L |-> [r \in 1 .. R |-> G[((r - 1) * L) + l]]]
<1>1. /\ L \in Nat \ {0} /\ g \in Nat \ {0} /\ R \in Nat /\ R * L \in Nat
      /\ (R * L) * g = kernel.block /\ kernel.limit \in Nat
  BY ShapeFacts, KernelFacts
<1>2. \A n \in 1 .. R * L : Total(g, part(n)) <= kernel.limit
  OBVIOUS
<1>3. \A n \in 1 .. R * L : GroupOf(shape, f, n) = Cut(Total(g, part(n)))
  BY DEF GroupOf
<1>4. \A l \in 1 .. L : InLanes(shape, f)[l] = Total(R, [r \in 1 .. R |-> GroupOf(shape, f, ((r - 1) * L) + l)])
  BY DEF InLanes
<1>5. \A n \in 1 .. R * L : G[n] = GroupOf(shape, f, n)
  OBVIOUS
<1>6. \A l \in 1 .. L, r \in 1 .. R : h[l][r] = G[((r - 1) * L) + l]
  OBVIOUS
<1>7. \A n \in 1 .. R * L, k \in 1 .. g : part(n)[k] = f[((n - 1) * g) + k]
  OBVIOUS
<1>8. InLanes(shape, f) = [l \in 1 .. L |-> Total(R, [r \in 1 .. R |-> GroupOf(shape, f, ((r - 1) * L) + l)])]
  BY DEF InLanes
<1>9. \A l \in 1 .. L : h[l] = [r \in 1 .. R |-> G[((r - 1) * L) + l]]
  OBVIOUS
<1> HIDE DEF g, L, R, G, h
<1>10. ASSUME NEW n \in 1 .. R * L
       PROVE  G[n] = Total(g, part(n)) /\ G[n] \in Int
  <2>1. \A k \in 1 .. g : ((n - 1) * g) + k \in 1 .. (R * L) * g
    BY <1>1, PartIndex
  <2>2. Adds(part(n), g)
    BY <1>1, <1>7, <2>1 DEF Adds
  <2> HIDE DEF part
  <2>3. Total(g, part(n)) \in Int
    BY <1>1, <2>2, TotalType
  <2>4. Cut(Total(g, part(n))) = Total(g, part(n))
    BY <1>1, <1>2, <2>3 DEF Cut
  <2> QED BY <1>3, <1>5, <2>3, <2>4
<1>11. Adds(G, R * L)
  BY <1>10 DEF Adds
<1>12. Total(R * L, G) = Total(kernel.block, f)
  <2>1. IsParts(R * L, g, f, G)
    BY <1>10 DEF IsParts
  <2>2. Adds(f, (R * L) * g)
    BY <1>1
  <2>3. Total(R * L, G) = Total((R * L) * g, f)
    BY ONLY <1>1, <2>1, <2>2, TotalParts
  <2> QED BY <1>1, <2>3
<1> HIDE DEF part
<1>13. \A l \in 1 .. L, r \in 1 .. R : ((r - 1) * L) + l \in 1 .. R * L
  BY <1>1, PartIndex
<1>14. \A l \in 1 .. L : Adds(h[l], R)
  BY <1>6, <1>11, <1>13 DEF Adds
<1>15. InLanes(shape, f) = Rows(L, R, h)
  <2>1. ASSUME NEW l \in 1 .. L
        PROVE  [r \in 1 .. R |-> GroupOf(shape, f, ((r - 1) * L) + l)] = h[l]
    <3>1. \A r \in 1 .. R : GroupOf(shape, f, ((r - 1) * L) + l) = G[((r - 1) * L) + l]
      BY <1>5, <1>13
    <3> QED BY <1>9, <3>1
  <2> QED BY <1>8, <2>1 DEF Rows
<1>16. Adds(InLanes(shape, f), L)
  BY <1>1, <1>14, <1>15, TotalType DEF Adds, Rows
<1>17. Total(L, Rows(L, R, h)) = Total(R, Columns(L, R, h))
  BY ONLY <1>1, <1>14, TotalSwap
<1>18. IsParts(R, L, G, Columns(L, R, h))
  <2>1. ASSUME NEW r \in 1 .. R
        PROVE  [l \in 1 .. L |-> h[l][r]] = [l \in 1 .. L |-> G[((r - 1) * L) + l]]
    BY <1>6
  <2>2. \A r \in 1 .. R : Columns(L, R, h)[r] = Total(L, [l \in 1 .. L |-> h[l][r]])
    BY DEF Columns
  <2> QED BY <2>1, <2>2 DEF IsParts
<1>19. Total(R, Columns(L, R, h)) = Total(R * L, G)
  BY ONLY <1>1, <1>11, <1>18, TotalParts
<1>20. Total(L, InLanes(shape, f)) = Total(kernel.block, f)
  BY <1>12, <1>15, <1>17, <1>19
<1> QED BY <1>16, <1>20 DEF L

LEMMA ProductsMonotone ==
  ASSUME NEW a \in Nat, NEW b \in Nat, NEW c \in Nat, NEW d \in Nat, a <= c, b <= d
  PROVE  a * b <= c * d
<1>1. a * b <= c * b
  OBVIOUS
<1>2. c * b <= c * d
  OBVIOUS
<1>3. a * b \in Nat /\ c * b \in Nat /\ c * d \in Nat
  OBVIOUS
<1> QED BY <1>1, <1>2, <1>3

Bytes == data \in Seq(0 .. MaxByte)

LEMMA BytesAdd ==
  ASSUME Bytes
  PROVE  /\ Len(data) \in Nat /\ Adds(data, Len(data)) /\ MaxByte \in Nat
         /\ \A k \in 1 .. Len(data) : data[k] \in 0 .. MaxByte
<1>1. Len(data) \in Nat /\ MaxByte \in Nat /\ \A k \in 1 .. Len(data) : data[k] \in 0 .. MaxByte
  BY LenProperties, ElementOfSeq, KernelAssumption DEF Bytes
<1> QED BY <1>1 DEF Adds

\* What a group gives is never cut: its bytes cannot be larger than MaxByte,
\* nor weigh more than those of the first group.
LEMMA GroupsBelowLimit ==
  ASSUME kernel \in Kernels, Bytes, i \in Nat, i + kernel.block <= Len(data)
  PROVE  /\ \A n \in 1 .. Registers(kernel.plain) * kernel.plain.lanes :
              Total(kernel.plain.group,
                    [k \in 1 .. kernel.plain.group |-> Unweighed[((n - 1) * kernel.plain.group) + k]])
                <= kernel.limit
         /\ \A n \in 1 .. Registers(kernel.weighted) * kernel.weighted.lanes :
              Total(kernel.weighted.group,
                    [k \in 1 .. kernel.weighted.group |-> Weighed[((n - 1) * kernel.weighted.group) + k]])
                <= kernel.limit
<1>0. /\ kernel.block \in Nat \ {0} /\ kernel.limit \in Nat /\ MaxByte \in Nat
      /\ MostPlain(kernel) <= kernel.limit /\ MostWeighed(kernel) <= kernel.limit
  BY KernelFacts, BytesAdd
<1>1. ASSUME NEW x \in 1 .. kernel.block
      PROVE  /\ data[i + x] \in 0 .. MaxByte
             /\ Unweighed[x] = data[i + x] /\ Weighed[x] = (kernel.block - x + 1) * data[i + x]
  <2>1. i + x \in 1 .. Len(data)
    BY <1>0, BytesAdd
  <2> QED BY <2>1, BytesAdd DEF Unweighed, Weighed
<1>2. ASSUME NEW n \in 1 .. Registers(kernel.plain) * kernel.plain.lanes
      PROVE  Total(kernel.plain.group,
                   [k \in 1 .. kernel.plain.group |-> Unweighed[((n - 1) * kernel.plain.group) + k]])
               <= kernel.limit
  <2> DEFINE g == kernel.plain.group
             N == Registers(kernel.plain) * kernel.plain.lanes
             group == [k \in 1 .. g |-> Unweighed[((n - 1) * g) + k]]
             most == [k \in 1 .. g |-> MaxByte]
  <2>1. g \in Nat /\ N \in Nat /\ N * g = kernel.block
    BY ShapeFacts
  <2>2. MostPlain(kernel) = g * MaxByte
    BY DEF MostPlain
  <2>3. \A k \in 1 .. g : group[k] = Unweighed[((n - 1) * g) + k] /\ most[k] = MaxByte
    OBVIOUS
  <2>4. n \in 1 .. N
    OBVIOUS
  <2> HIDE DEF g, N, group, most
  <2>5. ASSUME NEW k \in 1 .. g
        PROVE  group[k] \in Int /\ group[k] <= most[k]
    <3>1. ((n - 1) * g) + k \in 1 .. kernel.block
      BY <2>1, <2>4, PartIndex
    <3>2. group[k] \in 0 .. MaxByte
      BY <1>1, <2>3, <3>1
    <3> QED BY <1>0, <2>3, <3>2
  <2>6. Adds(group, g) /\ Adds(most, g)
    BY <1>0, <2>3, <2>5 DEF Adds
  <2>7. Total(g, group) <= Total(g, most)
    BY <2>1, <2>5, <2>6, TotalLess
  <2>8. Total(g, most) = g * MaxByte
    <3>1. MaxByte \in Int /\ \A k \in 1 .. g : most[k] = MaxByte
      BY <1>0, <2>3
    <3> QED BY ONLY <2>1, <3>1, TotalConstant
  <2>9. Total(g, group) \in Int /\ g * MaxByte \in Int
    BY <1>0, <2>1, <2>6, TotalType
  <2>10. Total(g, group) <= kernel.limit
    BY <1>0, <2>2, <2>7, <2>8, <2>9
  <2> QED BY <2>10 DEF g, group
<1>3. ASSUME NEW n \in 1 .. Registers(kernel.weighted) * kernel.weighted.lanes
      PROVE  Total(kernel.weighted.group,
                   [k \in 1 .. kernel.weighted.group |-> Weighed[((n - 1) * kernel.weighted.group) + k]])
               <= kernel.limit
  <2> DEFINE g == kernel.weighted.group
             N == Registers(kernel.weighted) * kernel.weighted.lanes
             group == [k \in 1 .. g |-> Weighed[((n - 1) * g) + k]]
             most == [k \in 1 .. g |-> (kernel.block - k + 1) * MaxByte]
  <2>1. g \in Nat /\ N \in Nat /\ N * g = kernel.block
    BY ShapeFacts
  <2>2. MostWeighed(kernel) = Total(g, most)
    BY DEF MostWeighed
  <2>3. \A k \in 1 .. g : group[k] = Weighed[((n - 1) * g) + k] /\ most[k] = (kernel.block - k + 1) * MaxByte
    OBVIOUS
  <2>4. n \in 1 .. N
    OBVIOUS
  <2> HIDE DEF g, N, group, most
  <2>5. ASSUME NEW k \in 1 .. g
        PROVE  group[k] \in Int /\ most[k] \in Int /\ group[k] <= most[k]
    <3> DEFINE x == ((n - 1) * g) + k
    <3>1. x \in 1 .. kernel.block
      BY <2>1, <2>4, PartIndex
    <3>2. k <= x
      <4>1. (n - 1) * g \in Nat
        BY <2>1, <2>4
      <4> QED BY <4>1
    <3>3. group[k] = Weighed[x]
      BY <2>3
    <3> HIDE DEF x
    <3>4. PICK b \in 0 .. MaxByte : group[k] = (kernel.block - x + 1) * b
      BY <1>1, <3>1, <3>3
    <3>5. /\ kernel.block - x + 1 \in Nat /\ kernel.block - k + 1 \in Nat /\ b \in Nat
          /\ kernel.block - x + 1 <= kernel.block - k + 1 /\ b <= MaxByte
      <4> DEFINE size == kernel.block
      <4>1. size \in Nat /\ MaxByte \in Nat /\ x \in 1 .. size /\ k \in Int
        BY <1>0, <3>1
      <4> HIDE DEF size
      <4>2. /\ size - x + 1 \in Nat /\ size - k + 1 \in Nat /\ b \in Nat
            /\ size - x + 1 <= size - k + 1 /\ b <= MaxByte
        BY ONLY <3>2, <4>1, b \in 0 .. MaxByte
      <4> QED BY <4>2 DEF size
    <3> DEFINE u == kernel.block - x + 1
               v == kernel.block - k + 1
    <3>6. u \in Nat /\ v \in Nat /\ u <= v
      BY <3>5
    <3> HIDE DEF u, v
    <3>7. u * b <= v * MaxByte
      BY ONLY <1>0, <3>5, <3>6, ProductsMonotone
    <3>8. u * b \in Int /\ v * MaxByte \in Int
      BY ONLY <1>0, <3>5, <3>6
    <3> QED BY <2>3, <3>4, <3>7, <3>8 DEF u, v
  <2>6. Adds(group, g) /\ Adds(most, g)
    BY <2>5 DEF Adds
  <2>7. Total(g, group) <= Total(g, most)
    BY <2>1, <2>5, <2>6, TotalLess
  <2>8. Total(g, group) \in Int /\ Total(g, most) \in Int
    BY <2>1, <2>6, TotalType
  <2>9. Total(g, group) <= kernel.limit
    BY <1>0, <2>2, <2>7, <2>8
  <2> QED BY <2>9 DEF g, group
<1> QED BY <1>2, <1>3

LEMMA AddedTotal ==
  ASSUME kernel \in Kernels, NEW n \in Nat, NEW a, NEW b,
         DOMAIN a = 1 .. n, Adds(a, n), Adds(b, n)
  PROVE  /\ DOMAIN Added(a, b) = 1 .. n /\ Adds(Added(a, b), n)
         /\ Like(Total(n, Added(a, b)), Total(n, a) + Total(n, b))
<1>1. kernel.width \in Nat \ {0} /\ kernel.width % Mod = 0
  BY KernelFacts
<1>2. DOMAIN Added(a, b) = 1 .. n /\ \A l \in 1 .. n : Added(a, b)[l] = (a[l] + b[l]) % kernel.width
  BY DEF Added
<1>3. ASSUME NEW l \in 1 .. n
      PROVE  Added(a, b)[l] \in Int /\ Like(Added(a, b)[l], a[l] + b[l])
  <2>1. a[l] + b[l] \in Int
    BY DEF Adds
  <2> QED BY <1>1, <1>2, <2>1, LikeWrap
<1>4. Adds(Added(a, b), n)
  BY <1>3 DEF Adds
<1> QED BY <1>2, <1>3, <1>4, LikeTotal

\* The three running sums before and after a block of n bytes, whose plain sum
\* is u and weighted v; f and s are the sums of all bytes before it.
OneBlock(n, p, b, w, p1, b1, w1, u, v, f, s) ==
  /\ {n, p, b, w, p1, b1, w1, u, v, f, s} \subseteq Int
  /\ Like(p1, p + u) /\ Like(b1, b + p) /\ Like(w1, w + v)
  /\ Like(p, f) /\ Like((n * b) + w, s)

LEMMA BlockAdvances ==
  ASSUME NEW n, NEW p, NEW b, NEW w, NEW p1, NEW b1, NEW w1, NEW u, NEW v, NEW f, NEW s,
         OneBlock(n, p, b, w, p1, b1, w1, u, v, f, s)
  PROVE  Like(p1, f + u) /\ Like((n * b1) + w1, s + (n * f) + v)
<1>0. /\ n \in Int /\ p \in Int /\ b \in Int /\ w \in Int /\ p1 \in Int /\ b1 \in Int /\ w1 \in Int
      /\ u \in Int /\ v \in Int /\ f \in Int /\ s \in Int
      /\ Like(p1, p + u) /\ Like(b1, b + p) /\ Like(w1, w + v)
      /\ Like(p, f) /\ Like((n * b) + w, s)
      /\ Like(u, u) /\ Like(v, v)
  BY DEF OneBlock, Like
<1>1. Like(p1, f + u)
  <2>1. Like(p + u, f + u)
    BY <1>0, LikeAdd
  <2> QED BY <1>0, <2>1 DEF Like
<1>2. Like(n * b1, n * (b + p)) /\ n * b1 \in Int /\ n * (b + p) \in Int
  <2>1. b + p \in Int
    BY <1>0
  <2>2. Like(n * b1, n * (b + p))
    BY ONLY <1>0, <2>1, LikeScale, Zenon
  <2>3. n * b1 \in Int /\ n * (b + p) \in Int
    BY <1>0, <2>1
  <2> QED BY <2>2, <2>3
<1>3. Like((n * b1) + w1, (n * (b + p)) + (w + v))
  <2>1. w + v \in Int
    BY <1>0
  <2> QED BY <1>0, <1>2, <2>1, LikeAdd
<1>4. (n * (b + p)) + (w + v) = ((n * b) + w) + ((n * p) + v)
  <2>1. n * (b + p) = (n * b) + (n * p) /\ n * b \in Int /\ n * p \in Int
    BY <1>0
  <2> QED BY <1>0, <2>1
<1>5. Like((n * p) + v, (n * f) + v) /\ (n * p) + v \in Int /\ (n * f) + v \in Int
  <2>1. Like(n * p, n * f) /\ n * p \in Int /\ n * f \in Int
    BY <1>0, LikeScale
  <2> QED BY <1>0, <2>1, LikeAdd
<1>6. Like(((n * b) + w) + ((n * p) + v), s + ((n * f) + v))
  <2>1. (n * b) + w \in Int
    BY <1>0
  <2> QED BY <1>0, <1>5, <2>1, LikeAdd
<1>7. s + ((n * f) + v) = s + (n * f) + v
  <2>1. n * f \in Int
    BY <1>0
  <2> QED BY <1>0, <2>1
<1> QED BY <1>1, <1>3, <1>4, <1>6, <1>7 DEF Like

-----------------------------------------------------------------------------
(* One turn of each loop *)

\* The accumulators a of kernel k hold the sums of the first n bytes of d: the
\* plain lanes the first, those of the sums before each block and the weighted
\* lanes together the second.
AccHolds(k, d, a, n) ==
  /\ DOMAIN a.plain = 1 .. k.plain.lanes /\ Adds(a.plain, k.plain.lanes)
  /\ DOMAIN a.before = 1 .. k.plain.lanes /\ Adds(a.before, k.plain.lanes)
  /\ DOMAIN a.weighted = 1 .. k.weighted.lanes /\ Adds(a.weighted, k.weighted.lanes)
  /\ Like(Total(k.plain.lanes, a.plain), First(d, n))
  /\ Like((k.block * Total(k.plain.lanes, a.before)) + Total(k.weighted.lanes, a.weighted),
          Second(d, n))

\* x and y are the sums of the first n bytes of d, without CHAR_OFFSET and with it.
PlainHolds(d, x, y, n) ==
  /\ x \in Int /\ y \in Int
  /\ Like(x, First(d, n)) /\ Like(y, Second(d, n))

SumsHold(d, x, y, n) ==
  /\ x \in Int /\ y \in Int
  /\ Like(x, SumsBut(d, n).s1) /\ Like(y, SumsBut(d, n).s2)

LEMMA SumsButType ==
  ASSUME NEW n \in Nat, NEW d, Adds(d, n)
  PROVE  /\ SumsBut(d, n).s1 = First(d, n) + (n * CharOffset)
         /\ SumsBut(d, n).s2 = Second(d, n) + (Triangle(n) * CharOffset)
         /\ First(d, n) \in Int /\ Second(d, n) \in Int
         /\ n * CharOffset \in Int /\ Triangle(n) * CharOffset \in Int
         /\ SumsBut(d, n).s1 \in Int /\ SumsBut(d, n).s2 \in Int
<1>1. First(d, n) \in Int /\ Second(d, n) \in Int
  BY SumsType
<1>2. n * CharOffset \in Int /\ Triangle(n) * CharOffset \in Int
  BY TriangleDouble, CharOffsetAssumption
<1> QED BY <1>1, <1>2 DEF SumsBut

ZeroSums(k) ==
  [plain |-> Zeros(k.plain), before |-> Zeros(k.plain), weighted |-> Zeros(k.weighted)]

LEMMA ZerosHold ==
  ASSUME NEW k \in Kernels, NEW d
  PROVE  AccHolds(k, d, ZeroSums(k), 0)
<1> DEFINE p == k.plain.lanes
           w == k.weighted.lanes
           a == ZeroSums(k)
<1>1. p \in Nat /\ w \in Nat /\ k.block \in Nat
  BY KernelAssumption DEF Kernel, Shape
<1>2. /\ DOMAIN a.plain = 1 .. p /\ DOMAIN a.before = 1 .. p /\ DOMAIN a.weighted = 1 .. w
      /\ \A l \in 1 .. p : a.plain[l] = 0 /\ a.before[l] = 0
      /\ \A l \in 1 .. w : a.weighted[l] = 0
  BY DEF Zeros, ZeroSums
<1> HIDE DEF p, w, a
<1>3. Adds(a.plain, p) /\ Adds(a.before, p) /\ Adds(a.weighted, w)
  BY <1>2 DEF Adds
<1>4. Total(p, a.plain) = p * 0 /\ Total(p, a.before) = p * 0 /\ Total(w, a.weighted) = w * 0
  <2>1. /\ \A l \in 1 .. p : a.plain[l] = 0
        /\ \A l \in 1 .. p : a.before[l] = 0
        /\ \A l \in 1 .. w : a.weighted[l] = 0
        /\ 0 \in Int
    BY <1>2
  <2> QED BY ONLY <1>1, <2>1, TotalConstant, Zenon
<1>5. p * 0 = 0 /\ w * 0 = 0 /\ (k.block * 0) + 0 = 0
  BY <1>1
<1>6. Like(0, First(d, 0)) /\ Like(0, Second(d, 0))
  BY NoSums DEF Like
<1>7. AccHolds(k, d, a, 0)
  BY <1>2, <1>3, <1>4, <1>5, <1>6 DEF AccHolds, p, w
<1> QED BY <1>7 DEF a

\* A block more in the lanes.
LEMMA TurnHolds ==
  ASSUME kernel \in Kernels, Bytes, i \in Nat, i + kernel.block <= Len(data),
         AccHolds(kernel, data, acc, i)
  PROVE  AccHolds(kernel, data, Turn, i + kernel.block)
<1> DEFINE p == kernel.plain.lanes
           w == kernel.weighted.lanes
           n == kernel.block
           u == InLanes(kernel.plain, Unweighed)
           v == InLanes(kernel.weighted, Weighed)
<1>1. p \in Nat /\ w \in Nat /\ n \in Nat \ {0}
  BY ShapeFacts, KernelFacts
<1>2. Adds(data, i + n)
  BY <1>1, BytesAdd, AddsLess
<1>3. /\ First(data, i) \in Int /\ Second(data, i) \in Int
      /\ Adds(Unweighed, n) /\ Adds(Weighed, n)
      /\ First(data, i + n) = First(data, i) + Total(n, Unweighed)
      /\ Second(data, i + n) = Second(data, i) + (n * First(data, i)) + Total(n, Weighed)
  <2>1. Unweighed = Following(data, i, n) /\ Weighed = Weighing(data, i, n)
    BY DEF Unweighed, Weighed, Following, Weighing
  <2> HIDE DEF n
  <2> QED BY <1>1, <1>2, <2>1, SumsAdvance
<1>4. /\ Adds(u, p) /\ Total(p, u) = Total(n, Unweighed)
      /\ Adds(v, w) /\ Total(w, v) = Total(n, Weighed)
  BY <1>3, GroupsBelowLimit, LanesHoldAll
<1>5. /\ Turn.plain = Added(acc.plain, u) /\ Turn.before = Added(acc.before, acc.plain)
      /\ Turn.weighted = Added(acc.weighted, v)
  BY DEF Turn
<1> HIDE DEF u, v
<1>6. /\ DOMAIN acc.plain = 1 .. p /\ Adds(acc.plain, p)
      /\ DOMAIN acc.before = 1 .. p /\ Adds(acc.before, p)
      /\ DOMAIN acc.weighted = 1 .. w /\ Adds(acc.weighted, w)
      /\ Like(Total(p, acc.plain), First(data, i))
      /\ Like((n * Total(p, acc.before)) + Total(w, acc.weighted), Second(data, i))
  BY DEF AccHolds
<1> HIDE DEF p, w, n
<1>7. /\ DOMAIN Turn.plain = 1 .. p /\ Adds(Turn.plain, p)
      /\ Like(Total(p, Turn.plain), Total(p, acc.plain) + Total(p, u))
  BY <1>1, <1>4, <1>5, <1>6, AddedTotal
<1>8. /\ DOMAIN Turn.before = 1 .. p /\ Adds(Turn.before, p)
      /\ Like(Total(p, Turn.before), Total(p, acc.before) + Total(p, acc.plain))
  BY <1>1, <1>5, <1>6, AddedTotal
<1>9. /\ DOMAIN Turn.weighted = 1 .. w /\ Adds(Turn.weighted, w)
      /\ Like(Total(w, Turn.weighted), Total(w, acc.weighted) + Total(w, v))
  BY <1>1, <1>4, <1>5, <1>6, AddedTotal
<1>10. /\ Total(p, acc.plain) \in Int /\ Total(p, acc.before) \in Int /\ Total(w, acc.weighted) \in Int
       /\ Total(p, Turn.plain) \in Int /\ Total(p, Turn.before) \in Int /\ Total(w, Turn.weighted) \in Int
       /\ Total(p, u) \in Int /\ Total(w, v) \in Int
  BY <1>1, <1>4, <1>6, <1>7, <1>8, <1>9, TotalType
<1>11. /\ Like(Total(p, Turn.plain), First(data, i) + Total(p, u))
       /\ Like((n * Total(p, Turn.before)) + Total(w, Turn.weighted),
               Second(data, i) + (n * First(data, i)) + Total(w, v))
  <2>1. n \in Int
    BY <1>1
  <2> DEFINE p0 == Total(p, acc.plain)
             b0 == Total(p, acc.before)
             w0 == Total(w, acc.weighted)
             p1 == Total(p, Turn.plain)
             b1 == Total(p, Turn.before)
             w1 == Total(w, Turn.weighted)
             u0 == Total(p, u)
             v0 == Total(w, v)
             f == First(data, i)
             s == Second(data, i)
  <2>2. /\ p0 \in Int /\ b0 \in Int /\ w0 \in Int /\ p1 \in Int /\ b1 \in Int /\ w1 \in Int
        /\ u0 \in Int /\ v0 \in Int /\ f \in Int /\ s \in Int
    BY <1>3, <1>10
  <2>3. /\ Like(p1, p0 + u0) /\ Like(b1, b0 + p0) /\ Like(w1, w0 + v0)
        /\ Like(p0, f) /\ Like((n * b0) + w0, s)
    BY <1>6, <1>7, <1>8, <1>9
  <2> HIDE DEF p0, b0, w0, p1, b1, w1, u0, v0, f, s
  <2>4. OneBlock(n, p0, b0, w0, p1, b1, w1, u0, v0, f, s)
    BY <2>1, <2>2, <2>3 DEF OneBlock
  <2>5. Like(p1, f + u0) /\ Like((n * b1) + w1, s + (n * f) + v0)
    BY ONLY <2>4, BlockAdvances
  <2> QED BY <2>5 DEF p1, b1, w1, u0, v0, f, s
<1>12. /\ Like(Total(p, Turn.plain), First(data, i + n))
       /\ Like((n * Total(p, Turn.before)) + Total(w, Turn.weighted), Second(data, i + n))
  BY <1>3, <1>4, <1>11
<1> QED BY <1>7, <1>8, <1>9, <1>12 DEF AccHolds, p, w, n

\* The lanes together, at the end of the assembly's loop.
LEMMA JoinedHolds ==
  ASSUME kernel \in Kernels, AccHolds(kernel, data, acc, i), i \in Nat, Adds(data, i)
  PROVE  PlainHolds(data, Joined[1], Joined[2], i)
<1> DEFINE b == Total(kernel.plain.lanes, acc.before)
           w == Total(kernel.weighted.lanes, acc.weighted)
           p == Total(kernel.plain.lanes, acc.plain)
           n == kernel.block
           m == kernel.width
<1>1. p \in Int /\ b \in Int /\ w \in Int
  BY ShapeFacts, TotalType DEF AccHolds
<1>2. /\ n \in Int /\ m \in Nat \ {0} /\ m % Mod = 0
      /\ Word \in Nat \ {0} /\ Word % Mod = 0
      /\ First(data, i) \in Int /\ Second(data, i) \in Int
  BY KernelFacts, WordIsLarge, SumsType
<1>3. Like(p, First(data, i)) /\ Like((n * b) + w, Second(data, i))
  BY DEF AccHolds
<1>4. Joined[1] = p % m /\ Joined[2] = ((n * (b % m)) + (w % m)) % Word
  BY DEF Joined, Reduced
<1> HIDE DEF p, b, w, n, m
<1>5. /\ Like(p % m, p) /\ p % m \in Int
      /\ Like(b % m, b) /\ b % m \in Int
      /\ Like(w % m, w) /\ w % m \in Int
  BY <1>1, <1>2, LikeWrap
<1>6. Like(n * (b % m), n * b) /\ n * (b % m) \in Int /\ n * b \in Int
  BY <1>1, <1>2, <1>5, LikeScale
<1>7. Like((n * (b % m)) + (w % m), (n * b) + w) /\ (n * (b % m)) + (w % m) \in Int
  <2>1. Like((n * (b % m)) + (w % m), (n * b) + w)
    BY ONLY <1>1, <1>5, <1>6, LikeAdd, Zenon
  <2>2. (n * (b % m)) + (w % m) \in Int
    BY ONLY <1>5, <1>6
  <2> QED BY <2>1, <2>2
<1>8. Like(Joined[2], (n * (b % m)) + (w % m)) /\ Joined[2] \in Int
  BY <1>2, <1>4, <1>7, LikeWrap
<1> QED BY <1>3, <1>4, <1>5, <1>7, <1>8 DEF PlainHolds, Like

\* CHAR_OFFSET added afterwards.
LEMMA CorrectedHolds ==
  ASSUME NEW n \in Nat, NEW d, NEW x, NEW y, Adds(d, n), PlainHolds(d, x, y, n)
  PROVE  SumsHold(d, Corrected(<< x, y >>, n)[1], Corrected(<< x, y >>, n)[2], n)
<1> DEFINE c == Corrected(<< x, y >>, n)
<1>1. /\ SumsBut(d, n).s1 = First(d, n) + (n * CharOffset)
      /\ SumsBut(d, n).s2 = Second(d, n) + (Triangle(n) * CharOffset)
      /\ First(d, n) \in Int /\ Second(d, n) \in Int
      /\ n * CharOffset \in Int /\ Triangle(n) * CharOffset \in Int
  BY SumsButType
<1>2. x \in Int /\ y \in Int /\ Like(x, First(d, n)) /\ Like(y, Second(d, n))
  BY DEF PlainHolds
<1>3. Correction(n) \in Int /\ Like(Correction(n), Triangle(n) * CharOffset)
  BY CorrectionIsTriangle
<1>4. Word \in Nat \ {0} /\ Word % Mod = 0
  BY WordIsLarge
<1>5. c[1] = (x + (n * CharOffset)) % Word /\ c[2] = (y + Correction(n)) % Word
  BY DEF Corrected
<1> HIDE DEF c
<1>6. Like(n * CharOffset, n * CharOffset)
  BY DEF Like
<1>7. /\ Like(x + (n * CharOffset), First(d, n) + (n * CharOffset))
      /\ Like(y + Correction(n), Second(d, n) + (Triangle(n) * CharOffset))
  BY <1>1, <1>2, <1>3, <1>6, LikeAdd
<1>8. x + (n * CharOffset) \in Int /\ y + Correction(n) \in Int
  BY <1>1, <1>2, <1>3
<1>9. /\ Like(c[1], x + (n * CharOffset)) /\ c[1] \in Int
      /\ Like(c[2], y + Correction(n)) /\ c[2] \in Int
  BY <1>4, <1>5, <1>8, LikeWrap
<1>10. SumsHold(d, c[1], c[2], n)
  BY <1>1, <1>7, <1>9 DEF SumsHold, Like
<1> QED BY <1>10 DEF c

\* A byte more, at the width of a word.
LEMMA PlainByte ==
  ASSUME NEW n \in Nat, NEW d, NEW x, NEW y, Adds(d, n + 1), PlainHolds(d, x, y, n)
  PROVE  PlainHolds(d, (x + d[n + 1]) % Word, (y + ((x + d[n + 1]) % Word)) % Word, n + 1)
<1> DEFINE z == (x + d[n + 1]) % Word
<1>1. /\ First(d, n) \in Int /\ d[n + 1] \in Int /\ Second(d, n) \in Int
      /\ First(d, n + 1) = First(d, n) + d[n + 1] /\ First(d, n + 1) \in Int
      /\ Second(d, n + 1) = Second(d, n) + First(d, n + 1)
  BY FirstNext, SecondNext
<1>2. x \in Int /\ y \in Int /\ Like(x, First(d, n)) /\ Like(y, Second(d, n))
  BY DEF PlainHolds
<1>3. Word \in Nat \ {0} /\ Word % Mod = 0
  BY WordIsLarge
<1>4. Like(d[n + 1], d[n + 1])
  BY DEF Like
<1>5. Like(x + d[n + 1], First(d, n + 1)) /\ x + d[n + 1] \in Int
  <2>1. Like(x + d[n + 1], First(d, n) + d[n + 1])
    BY ONLY <1>1, <1>2, <1>4, LikeAdd, Zenon
  <2>2. x + d[n + 1] \in Int
    BY ONLY <1>1, <1>2
  <2> QED BY <1>1, <2>1, <2>2
<1>6. Like(z, x + d[n + 1]) /\ z \in Int
  BY <1>3, <1>5, LikeWrap
<1> HIDE DEF z
<1>7. Like(z, First(d, n + 1))
  BY <1>5, <1>6 DEF Like
<1>8. Like(y + z, Second(d, n + 1)) /\ y + z \in Int
  BY <1>1, <1>2, <1>6, <1>7, LikeAdd
<1>9. Like((y + z) % Word, y + z) /\ (y + z) % Word \in Int
  BY <1>3, <1>8, LikeWrap
<1>10. PlainHolds(d, z, (y + z) % Word, n + 1)
  BY <1>6, <1>7, <1>8, <1>9 DEF PlainHolds, Like
<1> QED BY <1>10 DEF z

LEMMA SumsByte ==
  ASSUME NEW n \in Nat, NEW d, NEW x, NEW y, Adds(d, n + 1), SumsHold(d, x, y, n)
  PROVE  SumsHold(d, (x + d[n + 1] + CharOffset) % Word,
                  (y + ((x + d[n + 1] + CharOffset) % Word)) % Word, n + 1)
<1> DEFINE a == SumsBut(d, n).s1
           b == SumsBut(d, n).s2
           t == d[n + 1]
           c == CharOffset
           z == (x + t + c) % Word
<1>1. a \in Int /\ b \in Int /\ t \in Int /\ c \in Int
  BY AddsLess, SumsButType, FirstNext, CharOffsetAssumption
<1>2. SumsBut(d, n + 1).s1 = a + t + c /\ SumsBut(d, n + 1).s2 = b + (a + t + c)
  <2>1. /\ First(d, n + 1) = First(d, n) + t
        /\ Second(d, n + 1) = Second(d, n) + (First(d, n) + t)
        /\ Triangle(n + 1) = Triangle(n) + n + 1
        /\ First(d, n) \in Int /\ Second(d, n) \in Int /\ Triangle(n) \in Int
    <3>1. /\ First(d, n + 1) = First(d, n) + t
          /\ Second(d, n + 1) = Second(d, n) + First(d, n + 1)
          /\ First(d, n) \in Int /\ Second(d, n) \in Int
      BY FirstNext, SecondNext
    <3>2. Triangle(n + 1) = Triangle(n) + n + 1 /\ Triangle(n) \in Nat
      BY TriangleNext, TriangleDouble
    <3> QED BY <3>1, <3>2
  <2>2. /\ a = First(d, n) + (n * c) /\ b = Second(d, n) + (Triangle(n) * c)
        /\ SumsBut(d, n + 1).s1 = First(d, n + 1) + ((n + 1) * c)
        /\ SumsBut(d, n + 1).s2 = Second(d, n + 1) + (Triangle(n + 1) * c)
    BY DEF SumsBut
  <2> HIDE DEF a, b, t, c
  <2> DEFINE f == First(d, n)
             s == Second(d, n)
             u == Triangle(n)
  <2>3. f \in Int /\ s \in Int /\ u \in Int
    BY <2>1
  <2> HIDE DEF f, s, u
  <2>4. /\ (f + (n * c)) + t + c = (f + t) + ((n + 1) * c)
        /\ (s + (u * c)) + ((f + t) + ((n + 1) * c)) = (s + (f + t)) + ((u + n + 1) * c)
    BY <1>1, <2>3, OneByteOn
  <2> QED BY <2>1, <2>2, <2>4, Zenon DEF f, s, u
<1>3. x \in Int /\ y \in Int /\ Like(x, a) /\ Like(y, b)
  BY DEF SumsHold
<1>4. Word \in Nat \ {0} /\ Word % Mod = 0
  BY WordIsLarge
<1> HIDE DEF a, b, t, c
<1>5. Like(t, t) /\ Like(c, c)
  BY DEF Like
<1>6. Like(x + t, a + t) /\ x + t \in Int /\ a + t \in Int
  BY <1>1, <1>3, <1>5, LikeAdd
<1>7. Like(x + t + c, a + t + c) /\ x + t + c \in Int /\ a + t + c \in Int
  <2>1. Like(x + t + c, a + t + c)
    BY ONLY <1>1, <1>5, <1>6, LikeAdd, Zenon
  <2>2. x + t + c \in Int /\ a + t + c \in Int
    BY ONLY <1>1, <1>6
  <2> QED BY <2>1, <2>2
<1>8. Like(z, x + t + c) /\ z \in Int
  BY <1>4, <1>7, LikeWrap
<1> HIDE DEF z
<1>9. Like(z, a + t + c)
  BY <1>7, <1>8 DEF Like
<1>10. Like(y + z, b + (a + t + c)) /\ y + z \in Int
  BY <1>1, <1>3, <1>7, <1>8, <1>9, LikeAdd
<1>11. Like((y + z) % Word, y + z) /\ (y + z) % Word \in Int
  BY <1>4, <1>10, LikeWrap
<1>12. SumsHold(d, z, (y + z) % Word, n + 1)
  BY <1>2, <1>8, <1>9, <1>10, <1>11 DEF SumsHold, Like
<1> QED BY <1>12 DEF z, t, c

-----------------------------------------------------------------------------
(* Batches *)

\* What the weights and the groups behind add up to: every byte of a batch once
\* for itself and once for each byte behind it.
LEMMA BatchTotals ==
  ASSUME NEW lo \in Nat, Adds(data, lo + Batch)
  PROVE  /\ Total(Groups, [g \in 1 .. Groups |-> GroupSum(lo, g)])
              = Total(Batch, Following(data, lo, Batch))
         /\ Total(Groups, [g \in 1 .. Groups |-> Weighted(lo, g) + Behind(lo, g)])
              = Total(Batch, Weighing(data, lo, Batch))
<1> DEFINE m == Group
           N == Groups
           f == Following(data, lo, Batch)
           w == Weighing(data, lo, Batch)
           plain == [g \in 1 .. N |-> GroupSum(lo, g)]
           weighted == [g \in 1 .. N |-> Weighted(lo, g) + Behind(lo, g)]
<1>1. m \in Nat \ {0} /\ N \in Nat \ {0} /\ Batch = N * m /\ Batch \in Nat
  <2>1. Group * Groups = Groups * Group /\ Group * Groups \in Nat
    BY BatchAssumption
  <2> QED BY <2>1, BatchAssumption DEF Batch
<1>2. Adds(f, N * m) /\ Adds(w, N * m)
  <2> HIDE DEF m, N
  <2> QED BY <1>1, SumsAdvance
<1>3. \A x \in 1 .. N * m : /\ f[x] = data[lo + x] /\ w[x] = (Batch - x + 1) * data[lo + x]
                            /\ data[lo + x] \in Int
  <2>1. \A x \in 1 .. Batch : f[x] = data[lo + x] /\ w[x] = (Batch - x + 1) * data[lo + x]
    BY DEF Following, Weighing
  <2> QED BY <1>1, <1>2, <2>1 DEF Adds
<1>4. /\ \A g \in 1 .. N : plain[g] = GroupSum(lo, g)
      /\ \A g \in 1 .. N : weighted[g] = Weighted(lo, g) + Behind(lo, g)
  OBVIOUS
<1>5. \A g, k : ByteOf(lo, g, k) = data[lo + (g - 1) * m + k]
  BY DEF ByteOf
<1>6. \A g : /\ GroupSum(lo, g) = Total(m, [k \in 1 .. m |-> ByteOf(lo, g, k)])
             /\ Weighted(lo, g) = Total(m, [k \in 1 .. m |-> Weight(k) * ByteOf(lo, g, k)])
             /\ Behind(lo, g) = (Batch - (m * g)) * GroupSum(lo, g)
  BY DEF GroupSum, Weighted, Behind
<1>7. \A k : Weight(k) = m - k + 1
  BY DEF Weight
<1> HIDE DEF m, N, f, w, plain, weighted
<1>8. ASSUME NEW g \in 1 .. N
      PROVE  /\ GroupSum(lo, g) = Total(m, [k \in 1 .. m |-> f[((g - 1) * m) + k]])
             /\ Weighted(lo, g) + Behind(lo, g) = Total(m, [k \in 1 .. m |-> w[((g - 1) * m) + k]])
  <2> DEFINE byte == [k \in 1 .. m |-> ByteOf(lo, g, k)]
             within == [k \in 1 .. m |-> Weight(k) * ByteOf(lo, g, k)]
             behind == [k \in 1 .. m |-> (Batch - (m * g)) * byte[k]]
             fs == [k \in 1 .. m |-> f[((g - 1) * m) + k]]
             ws == [k \in 1 .. m |-> w[((g - 1) * m) + k]]
             rest == Batch - (m * g)
  <2>1. ASSUME NEW k \in 1 .. m
        PROVE  /\ byte[k] \in Int /\ byte[k] = fs[k]
               /\ within[k] = (m - k + 1) * byte[k]
               /\ ws[k] = (Batch - (((g - 1) * m) + k) + 1) * byte[k]
    <3> DEFINE x == ((g - 1) * m) + k
    <3>1. x \in 1 .. N * m
      BY <1>1, PartIndex
    <3>2. lo + (g - 1) * m + k = lo + x
      <4>1. (g - 1) * m \in Int
        BY <1>1
      <4> QED BY <4>1
    <3>3. byte[k] = ByteOf(lo, g, k) /\ within[k] = Weight(k) * byte[k] /\ fs[k] = f[x] /\ ws[k] = w[x]
      OBVIOUS
    <3>4. byte[k] = data[lo + x]
      BY <1>5, <3>2, <3>3
    <3> HIDE DEF x, byte, within, fs, ws
    <3>5. f[x] = data[lo + x] /\ w[x] = (Batch - x + 1) * data[lo + x] /\ data[lo + x] \in Int
      BY <1>3, <3>1
    <3> QED BY <1>7, <3>3, <3>4, <3>5 DEF x
  <2>2. \A k \in 1 .. m : behind[k] = rest * byte[k]
    OBVIOUS
  <2>3. rest \in Int /\ Batch - (((g - 1) * m)) = rest + m
    <3>1. (g - 1) * m = (m * g) - m /\ m * g \in Int
      BY <1>1
    <3> QED BY <1>1, <3>1
  <2>4. /\ GroupSum(lo, g) = Total(m, byte) /\ Weighted(lo, g) = Total(m, within)
        /\ Behind(lo, g) = rest * GroupSum(lo, g)
    BY <1>6
  <2> HIDE DEF byte, within, behind, fs, ws, rest
  <2>5. ASSUME NEW k \in 1 .. m
        PROVE  within[k] \in Int /\ behind[k] \in Int /\ ws[k] = within[k] + behind[k]
    <3>1. PICK b \in Int : byte[k] = b
      BY <2>1
    <3>2. within[k] = (m - k + 1) * b /\ behind[k] = rest * b
      BY <2>1, <2>2, <3>1
    <3>3. ws[k] = (Batch - (((g - 1) * m) + k) + 1) * b
      BY <2>1, <3>1
    <3>4. Batch - (((g - 1) * m) + k) + 1 = (m - k + 1) + rest
      <4>1. (g - 1) * m \in Int
        BY <1>1
      <4> QED BY <1>1, <2>3, <4>1
    <3>5. ((m - k + 1) + rest) * b = ((m - k + 1) * b) + (rest * b)
      BY <1>1, <2>3
    <3>6. (m - k + 1) * b \in Int /\ rest * b \in Int
      BY <1>1, <2>3
    <3> QED BY <3>2, <3>3, <3>4, <3>5, <3>6
  <2>6. Adds(byte, m) /\ Adds(within, m) /\ Adds(behind, m)
    BY <2>1, <2>5 DEF Adds
  <2>7. Total(m, ws) = Total(m, within) + Total(m, behind)
    BY <1>1, <2>5, <2>6, TotalAdd
  <2>8. Total(m, behind) = rest * Total(m, byte)
    BY <1>1, <2>2, <2>3, <2>6, TotalScale
  <2>9. Total(m, byte) = Total(m, fs)
    BY <1>1, <2>1, <2>6, TotalSame
  <2> QED BY <2>4, <2>7, <2>8, <2>9 DEF fs, ws
<1>9. IsParts(N, m, f, plain) /\ IsParts(N, m, w, weighted)
  BY <1>4, <1>8 DEF IsParts
<1>10. Total(N, plain) = Total(N * m, f) /\ Total(N, weighted) = Total(N * m, w)
  BY <1>1, <1>2, <1>9, TotalParts
<1> QED BY <1>1, <1>10 DEF N, plain, weighted, f, w

\* n bytes more, whose plain sum is u and weighted v, behind the m bytes whose
\* sums are f and s, with c for each byte.
WithOffsets(f, s, u, v, m, n, c) ==
  /\ (f + (m * c)) + (u + (n * c)) = (f + u) + ((m + n) * c)
  /\ (s + (Triangle(m) * c)) + ((n * (f + (m * c))) + (v + (Triangle(n) * c)))
       = (s + (n * f) + v) + (Triangle(m + n) * c)

LEMMA OffsetsAdvance ==
  ASSUME NEW f \in Int, NEW s \in Int, NEW u \in Int, NEW v \in Int, NEW m \in Nat, NEW n \in Nat,
         NEW c \in Int
  PROVE  WithOffsets(f, s, u, v, m, n, c)
<1>1. (m + n) * c = (m * c) + (n * c) /\ m * c \in Int /\ n * c \in Int
  OBVIOUS
<1>2. /\ Triangle(m) \in Nat /\ Triangle(n) \in Nat
      /\ Triangle(m + n) = Triangle(m) + (m * n) + Triangle(n)
  BY TriangleDouble, TriangleAdd
<1> DEFINE p == Triangle(m)
           q == Triangle(n)
           r == Triangle(m + n)
<1>3. p \in Int /\ q \in Int /\ r = p + (m * n) + q
  BY <1>2
<1> HIDE DEF p, q, r
<1>4. r * c = (p * c) + ((m * n) * c) + (q * c)
  <2>1. m * n \in Int
    OBVIOUS
  <2> QED BY <1>3, <2>1
<1>5. n * (f + (m * c)) = (n * f) + ((m * n) * c)
  <2>1. n * (f + (m * c)) = (n * f) + (n * (m * c))
    BY <1>1
  <2>2. n * (m * c) = (m * n) * c
    OBVIOUS
  <2> QED BY <2>1, <2>2
<1>6. p * c \in Int /\ q * c \in Int /\ (m * n) * c \in Int /\ n * f \in Int
  BY <1>3
<1>7. (s + (p * c)) + ((n * (f + (m * c))) + (v + (q * c))) = (s + (n * f) + v) + (r * c)
  BY ONLY <1>4, <1>5, <1>6, s \in Int, v \in Int
<1>8. (f + (m * c)) + (u + (n * c)) = (f + u) + ((m + n) * c)
  BY <1>1
<1> QED BY <1>7, <1>8 DEF WithOffsets, p, q, r

\* The sums x and y stay like a and b with a batch of n bytes, of which u and v
\* come from the data, p and q from CHAR_OFFSET.
StaysLike(x, y, a, b, n, u, p, v, q) ==
  /\ x + u + p \in Int /\ Like(x + u + p, a + (u + p))
  /\ y + (n * x) + v + q \in Int
  /\ Like(y + (n * x) + v + q, b + ((n * a) + (v + q)))

LEMMA BatchLike ==
  ASSUME NEW x \in Int, NEW y \in Int, NEW a \in Int, NEW b \in Int, NEW n \in Int,
         NEW u \in Int, NEW p \in Int, NEW v \in Int, NEW q \in Int, Like(x, a), Like(y, b)
  PROVE  StaysLike(x, y, a, b, n, u, p, v, q)
<1>1. Like(u + p, u + p) /\ Like(v + q, v + q)
  BY DEF Like
<1>2. u + p \in Int /\ v + q \in Int /\ n * x \in Int /\ n * a \in Int
  OBVIOUS
<1>3. Like(x + (u + p), a + (u + p))
  BY ONLY <1>1, <1>2, LikeAdd, Zenon, x \in Int, a \in Int, Like(x, a)
<1>4. Like(n * x, n * a)
  BY LikeScale, Zenon
<1>5. Like((n * x) + (v + q), (n * a) + (v + q))
  BY ONLY <1>1, <1>2, <1>4, LikeAdd, Zenon
<1>6. (n * x) + (v + q) \in Int /\ (n * a) + (v + q) \in Int
  BY ONLY <1>2
<1>7. Like(y + ((n * x) + (v + q)), b + ((n * a) + (v + q)))
  BY ONLY <1>5, <1>6, LikeAdd, Zenon, y \in Int, b \in Int, Like(y, b)
<1>8. x + (u + p) = x + u + p /\ x + u + p \in Int
  OBVIOUS
<1>9. y + ((n * x) + (v + q)) = y + (n * x) + v + q /\ y + (n * x) + v + q \in Int
  BY ONLY <1>2, y \in Int, v \in Int, q \in Int
<1> QED BY <1>3, <1>7, <1>8, <1>9 DEF StaysLike

LEMMA BatchHolds ==
  ASSUME NEW lo \in Nat, Adds(data, lo + Batch), NEW pair, SumsHold(data, pair[1], pair[2], lo)
  PROVE  SumsHold(data, AfterBatch(pair, lo)[1], AfterBatch(pair, lo)[2], lo + Batch)
<1> DEFINE n == Batch
           x == pair[1]
           y == pair[2]
           c == CharOffset
           f == First(data, lo)
           s == Second(data, lo)
           a == SumsBut(data, lo).s1
           b == SumsBut(data, lo).s2
           u == Total(n, Following(data, lo, n))
           v == Total(n, Weighing(data, lo, n))
           z == AfterBatch(pair, lo)
           t == Triangle(n)
<1>1. n \in Nat /\ c \in Nat /\ Word \in Nat \ {0} /\ Word % Mod = 0 /\ Group * Groups \in Nat
  BY BatchAssumption, CharOffsetAssumption, WordIsLarge DEF Batch
<1>2. t \in Nat
  BY <1>1, TriangleDouble
<1>3. /\ z[1] = (x + u + (n * c)) % Word
      /\ z[2] = (y + (n * x) + v + (t * c)) % Word
  <2>1. /\ Total(Groups, [g \in 1 .. Groups |-> GroupSum(lo, g)]) = u
        /\ Total(Groups, [g \in 1 .. Groups |-> Weighted(lo, g) + Behind(lo, g)]) = v
    BY BatchTotals
  <2>2. z[1] = (x + Total(Groups, [g \in 1 .. Groups |-> GroupSum(lo, g)]) + (n * c)) % Word
    BY DEF AfterBatch
  <2>3. z[2] = (y + (n * x) + Total(Groups, [g \in 1 .. Groups |-> Weighted(lo, g) + Behind(lo, g)])
                  + (t * c)) % Word
    BY DEF AfterBatch, Triangle
  <2> QED BY <2>1, <2>2, <2>3
<1>4. /\ f \in Int /\ s \in Int
      /\ First(data, lo + n) = f + u /\ Second(data, lo + n) = s + (n * f) + v
      /\ Adds(Following(data, lo, n), n) /\ Adds(Weighing(data, lo, n), n)
  <2>1. Adds(data, lo + n)
    OBVIOUS
  <2> HIDE DEF n
  <2> QED BY ONLY <1>1, <2>1, SumsAdvance
<1>5. u \in Int /\ v \in Int
  BY <1>1, <1>4, TotalType
<1>6. x \in Int /\ y \in Int /\ Like(x, a) /\ Like(y, b)
  BY DEF SumsHold
<1>7. a = f + (lo * c) /\ b = s + (Triangle(lo) * c)
  BY DEF SumsBut
<1>8. /\ SumsBut(data, lo + n).s1 = First(data, lo + n) + ((lo + n) * c)
      /\ SumsBut(data, lo + n).s2 = Second(data, lo + n) + (Triangle(lo + n) * c)
  BY DEF SumsBut
<1> HIDE DEF n, x, y, c, f, s, a, b, u, v, z, t
<1>9. a \in Int /\ b \in Int /\ n * c \in Int /\ t * c \in Int /\ n \in Int
  <2>1. lo * c \in Int /\ Triangle(lo) \in Int
    BY <1>1, TriangleDouble
  <2>2. Triangle(lo) * c \in Int
    BY <1>1, <2>1
  <2> QED BY <1>1, <1>2, <1>4, <1>7, <2>1, <2>2
<1>10. /\ x + u + (n * c) \in Int /\ Like(x + u + (n * c), a + (u + (n * c)))
       /\ y + (n * x) + v + (t * c) \in Int
       /\ Like(y + (n * x) + v + (t * c), b + ((n * a) + (v + (t * c))))
  <2>1. StaysLike(x, y, a, b, n, u, n * c, v, t * c)
    BY ONLY <1>5, <1>6, <1>9, BatchLike, Zenon
  <2> QED BY <2>1 DEF StaysLike
<1>11. /\ a + (u + (n * c)) = SumsBut(data, lo + n).s1
       /\ b + ((n * a) + (v + (t * c))) = SumsBut(data, lo + n).s2
  <2>1. c \in Int
    BY <1>1
  <2>2. WithOffsets(f, s, u, v, lo, n, c)
    BY ONLY <1>1, <1>4, <1>5, <2>1, lo \in Nat, OffsetsAdvance
  <2> QED BY <1>4, <1>7, <1>8, <2>2, Zenon DEF WithOffsets, t
<1>12. /\ Like(z[1], x + u + (n * c)) /\ z[1] \in Int
       /\ Like(z[2], y + (n * x) + v + (t * c)) /\ z[2] \in Int
  BY <1>1, <1>3, <1>10, LikeWrap
<1>13. SumsHold(data, z[1], z[2], lo + n)
  BY <1>10, <1>11, <1>12, Zenon DEF SumsHold, Like
<1> QED BY <1>13 DEF z, n

\* g holds the sums after each of N batches from lo, of which x and y are those
\* before.
IsAfter(N, lo, x, y, g) ==
  g = [k \in 0 .. N |-> IF k = 0 THEN << x, y >> ELSE AfterBatch(g[k - 1], lo + ((k - 1) * Batch))]

LEMMA AfterExists ==
  ASSUME NEW N \in Nat, NEW lo, NEW x, NEW y
  PROVE  \E g : IsAfter(N, lo, x, y, g)
<1> DEFINE P == {m \in 0 .. N : \E g : IsAfter(m, lo, x, y, g)}
<1>1. 0 \in P
  <2>1. IsAfter(0, lo, x, y, [k \in 0 .. 0 |-> << x, y >>])
    BY DEF IsAfter
  <2> QED BY <2>1
<1>2. ASSUME NEW m \in 0 .. N - 1, m \in P
      PROVE  m + 1 \in P
  <2>1. PICK g : IsAfter(m, lo, x, y, g)
    BY <1>2
  <2> DEFINE h == [k \in 0 .. m + 1 |-> IF k <= m THEN g[k] ELSE AfterBatch(g[m], lo + (m * Batch))]
             next(k) == IF k = 0 THEN << x, y >> ELSE AfterBatch(h[k - 1], lo + ((k - 1) * Batch))
  <2>2. ASSUME NEW k \in 0 .. m + 1
        PROVE  h[k] = next(k)
    <3>1. CASE k = 0
      <4>1. g[0] = << x, y >>
        BY <2>1 DEF IsAfter
      <4> QED BY <3>1, <4>1
    <3>2. CASE k \in 1 .. m
      <4>1. g[k] = AfterBatch(g[k - 1], lo + ((k - 1) * Batch))
        <5>1. k \in 0 .. m /\ k # 0
          BY <3>2
        <5> QED BY <2>1, <5>1 DEF IsAfter
      <4>2. h[k] = g[k] /\ h[k - 1] = g[k - 1] /\ k # 0
        BY <3>2
      <4> HIDE DEF h
      <4> QED BY <4>1, <4>2
    <3>3. CASE k = m + 1
      <4>1. h[k] = AfterBatch(g[m], lo + (m * Batch)) /\ h[m] = g[m] /\ k - 1 = m /\ k # 0
        BY <3>3
      <4> HIDE DEF h
      <4> QED BY <4>1
    <3> QED BY <3>1, <3>2, <3>3
  <2>3. h = [k \in 0 .. m + 1 |-> h[k]]
    OBVIOUS
  <2> HIDE DEF h
  <2>4. IsAfter(m + 1, lo, x, y, h)
    BY <2>2, <2>3 DEF IsAfter
  <2> QED BY <2>4
<1> HIDE DEF P
<1>3. 0 .. N \subseteq P
  BY <1>1, <1>2, Induction
<1> QED BY <1>3 DEF P

LEMMA BatchesHold ==
  ASSUME NEW N \in Nat, NEW lo \in Nat, Adds(data, lo + (N * Batch)), NEW x, NEW y,
         SumsHold(data, x, y, lo), NEW after, IsAfter(N, lo, x, y, after)
  PROVE  SumsHold(data, after[N][1], after[N][2], lo + (N * Batch))
<1> DEFINE P == {k \in 0 .. N : SumsHold(data, after[k][1], after[k][2], lo + (k * Batch))}
<1>1. Batch \in Nat
  BY BatchAssumption DEF Batch
<1>2. 0 \in P
  <2>1. after[0] = << x, y >>
    BY DEF IsAfter
  <2>2. lo + (0 * Batch) = lo
    BY <1>1
  <2> QED BY <2>1, <2>2
<1>3. ASSUME NEW k \in 0 .. N - 1, k \in P
      PROVE  k + 1 \in P
  <2>1. after[k + 1] = AfterBatch(after[k], lo + (k * Batch))
    <3>1. k + 1 \in 0 .. N /\ k + 1 # 0 /\ (k + 1) - 1 = k
      OBVIOUS
    <3>2. after[k + 1] = AfterBatch(after[(k + 1) - 1], lo + (((k + 1) - 1) * Batch))
      BY <3>1 DEF IsAfter
    <3> QED BY <3>1, <3>2
  <2>2. /\ lo + (k * Batch) \in Nat
        /\ (lo + (k * Batch)) + Batch = lo + ((k + 1) * Batch)
        /\ lo + ((k + 1) * Batch) \in 0 .. lo + (N * Batch)
    <3>1. (k + 1) * Batch <= N * Batch
      BY <1>1, ScaleMonotone
    <3>2. k * Batch \in Nat /\ (k + 1) * Batch = (k * Batch) + Batch /\ N * Batch \in Nat
      BY ONLY <1>1, N \in Nat, k \in 0 .. N - 1
    <3> DEFINE u == k * Batch
               v == N * Batch
               w == (k + 1) * Batch
    <3>3. u \in Nat /\ v \in Nat /\ w = u + Batch /\ w <= v /\ lo \in Nat
      BY <3>1, <3>2
    <3> HIDE DEF u, v, w
    <3>4. lo + u \in Nat /\ (lo + u) + Batch = lo + w /\ lo + w \in 0 .. lo + v
      BY ONLY <1>1, <3>3
    <3> QED BY <3>4 DEF u, v, w
  <2>3. Adds(data, (lo + (k * Batch)) + Batch)
    <3>1. lo + (N * Batch) \in Nat
      BY ONLY <1>1, N \in Nat, lo \in Nat
    <3> QED BY <2>2, <3>1, AddsLess
  <2>4. SumsHold(data, after[k][1], after[k][2], lo + (k * Batch))
    BY <1>3
  <2>5. SumsHold(data, after[k + 1][1], after[k + 1][2], (lo + (k * Batch)) + Batch)
    BY <2>1, <2>2, <2>3, <2>4, BatchHolds
  <2> QED BY <2>2, <2>5
<1> HIDE DEF P
<1>4. 0 .. N \subseteq P
  BY <1>2, <1>3, Induction
<1> QED BY <1>4 DEF P

-----------------------------------------------------------------------------
(* The checksum of every path *)

\* Between the steps the accumulators, or s1 and s2, hold the sums of the bytes
\* taken, with CHAR_OFFSET where it has been added.
ChecksumInv ==
  /\ pc \in {"idle", "called", "lanes", "rest", "batches", "bytes", "returned"}
  /\ Bytes /\ i \in 0 .. Len(data) /\ s1 \in Int /\ s2 \in Int
  /\ pc \in {"lanes", "rest"} => kernel \in Kernels
  /\ pc = "called" => i = 0 /\ s1 = 0 /\ s2 = 0
  /\ pc = "lanes" => AccHolds(kernel, data, acc, i)
  /\ pc = "rest" => PlainHolds(data, s1, s2, i)
  /\ pc \in {"batches", "bytes", "returned"} => SumsHold(data, s1, s2, i)
  /\ pc = "returned" => i = Len(data)

LEMMA TakenAdds ==
  ASSUME ChecksumInv
  PROVE  /\ Len(data) \in Nat /\ i \in Nat /\ i <= Len(data) /\ Adds(data, i)
         /\ \A n \in Nat : i + n <= Len(data) => Adds(data, i + n) /\ i + n \in 0 .. Len(data)
<1>1. Len(data) \in Nat /\ Adds(data, Len(data)) /\ i \in 0 .. Len(data)
  BY BytesAdd DEF ChecksumInv
<1>2. \A m \in 0 .. Len(data) : Adds(data, m)
  BY <1>1, AddsLess
<1>3. \A n \in Nat : i + n <= Len(data) => i + n \in 0 .. Len(data)
  BY <1>1
<1> QED BY <1>1, <1>2, <1>3

LEMMA CallStep ==
  ASSUME NEW d \in Seq(0 .. MaxByte), Call(d)
  PROVE  ChecksumInv'
<1>1. Bytes' /\ 0 \in 0 .. Len(d)
  BY LenProperties DEF Call, Bytes
<1> QED BY <1>1 DEF Call, ChecksumInv

LEMMA KernelStep ==
  ASSUME ChecksumInv, NEW k \in Kernels, CallKernel(k)
  PROVE  ChecksumInv'
<1>1. /\ pc' = "lanes" /\ kernel' = k /\ UNCHANGED << data, i, s1, s2 >> /\ i = 0
      /\ acc' = ZeroSums(k)
  BY DEF CallKernel, ChecksumInv, ZeroSums
<1>2. AccHolds(k, data, acc', 0)
  BY <1>1, ZerosHold
<1>3. Bytes'
  BY <1>1 DEF Bytes, ChecksumInv
<1> QED BY <1>1, <1>2, <1>3 DEF ChecksumInv

LEMMA TakeBlockStep ==
  ASSUME ChecksumInv, TakeBlock
  PROVE  ChecksumInv'
<1>1. /\ pc = "lanes" /\ UNCHANGED << pc, data, kernel, s1, s2 >> /\ kernel \in Kernels
      /\ acc' = Turn /\ i' = i + kernel.block /\ i + kernel.block <= Whole
      /\ AccHolds(kernel, data, acc, i)
  BY DEF TakeBlock, ChecksumInv
<1>2. kernel.block \in Nat /\ kernel.unit \in Nat \ {0}
  BY <1>1, KernelFacts
<1>3. i + kernel.block <= Len(data) /\ i \in Nat
  <2>1. Len(data) % kernel.unit \in Nat /\ Len(data) \in Nat /\ i \in Nat
    BY <1>2, TakenAdds
  <2>2. Whole = Len(data) - (Len(data) % kernel.unit)
    BY DEF Whole
  <2> QED BY <1>1, <1>2, <2>1, <2>2
<1>4. Bytes /\ Bytes'
  BY <1>1 DEF ChecksumInv, Bytes
<1>5. AccHolds(kernel, data, Turn, i + kernel.block)
  BY <1>1, <1>3, <1>4, TurnHolds
<1>6. i + kernel.block \in 0 .. Len(data)
  BY <1>2, <1>3, TakenAdds
<1> QED BY <1>1, <1>4, <1>5, <1>6 DEF ChecksumInv

LEMMA LanesEndStep ==
  ASSUME ChecksumInv, LanesEnd
  PROVE  ChecksumInv'
<1>1. /\ pc = "lanes" /\ pc' = "rest" /\ UNCHANGED << data, kernel, i >> /\ kernel \in Kernels
      /\ s1' = Joined[1] /\ s2' = Joined[2] /\ AccHolds(kernel, data, acc, i)
  BY DEF LanesEnd, ChecksumInv
<1>2. PlainHolds(data, Joined[1], Joined[2], i)
  BY <1>1, TakenAdds, JoinedHolds
<1>3. Bytes'
  BY <1>1 DEF ChecksumInv, Bytes
<1>4. Joined[1] \in Int /\ Joined[2] \in Int
  BY <1>2 DEF PlainHolds
<1> QED BY <1>1, <1>2, <1>3, <1>4 DEF ChecksumInv

LEMMA TakeRestStep ==
  ASSUME ChecksumInv, TakeRest
  PROVE  ChecksumInv'
<1>1. /\ pc = "rest" /\ UNCHANGED << pc, data, kernel >> /\ kernel \in Kernels
      /\ s1' = (s1 + data[i + 1]) % Word /\ s2' = (s2 + ((s1 + data[i + 1]) % Word)) % Word
      /\ i' = i + 1 /\ i < Len(data) /\ PlainHolds(data, s1, s2, i)
  BY DEF TakeRest, ChecksumInv
<1>2. i \in Nat /\ i + 1 \in 0 .. Len(data) /\ Adds(data, i + 1)
  BY <1>1, TakenAdds
<1>3. PlainHolds(data, s1', s2', i + 1)
  BY <1>1, <1>2, PlainByte
<1>4. Bytes'
  BY <1>1 DEF ChecksumInv, Bytes
<1>5. s1' \in Int /\ s2' \in Int
  BY <1>3 DEF PlainHolds
<1> QED BY <1>1, <1>2, <1>3, <1>4, <1>5 DEF ChecksumInv

LEMMA KernelReturnsStep ==
  ASSUME ChecksumInv, KernelReturns
  PROVE  ChecksumInv'
<1> DEFINE x == s1 % kernel.width
           y == s2 % kernel.width
<1>1. /\ pc = "rest" /\ pc' = "bytes" /\ UNCHANGED << data, i >> /\ kernel \in Kernels
      /\ s1' = Corrected(<< x, y >>, i)[1] /\ s2' = Corrected(<< x, y >>, i)[2]
      /\ PlainHolds(data, s1, s2, i)
  BY DEF KernelReturns, ChecksumInv
<1>2. kernel.width \in Nat \ {0} /\ kernel.width % Mod = 0
  BY <1>1, KernelFacts
<1>3. Like(x, s1) /\ x \in Int /\ Like(y, s2) /\ y \in Int
  BY <1>1, <1>2, LikeWrap DEF PlainHolds
<1> HIDE DEF x, y
<1>4. PlainHolds(data, x, y, i)
  BY <1>1, <1>3 DEF PlainHolds, Like
<1>5. SumsHold(data, s1', s2', i)
  BY <1>1, <1>4, TakenAdds, CorrectedHolds
<1>6. Bytes'
  BY <1>1 DEF ChecksumInv, Bytes
<1>7. s1' \in Int /\ s2' \in Int
  BY <1>5 DEF SumsHold
<1> QED BY <1>1, <1>5, <1>6, <1>7 DEF ChecksumInv

LEMMA CallBatchesStep ==
  ASSUME ChecksumInv, CallBatches
  PROVE  ChecksumInv'
<1>1. /\ pc' = "batches" /\ UNCHANGED << data, i, s1, s2 >> /\ i = 0 /\ s1 = 0 /\ s2 = 0
  BY DEF CallBatches, ChecksumInv
<1>2. SumsHold(data, 0, 0, 0)
  <2>1. 0 * CharOffset = 0 /\ Triangle(0) * CharOffset = 0
    BY TriangleNext, CharOffsetAssumption
  <2>2. SumsBut(data, 0).s1 = 0 /\ SumsBut(data, 0).s2 = 0
    BY <2>1, NoSums DEF SumsBut
  <2> QED BY <2>2 DEF SumsHold, Like
<1>3. Bytes'
  BY <1>1 DEF ChecksumInv, Bytes
<1> QED BY <1>1, <1>2, <1>3 DEF ChecksumInv

LEMMA BatchesStep ==
  ASSUME ChecksumInv, pc = "batches", pc' = pc, NEW n \in Nat,
         TakeBatches(n), i + (n * Batch) <= Len(data)
  PROVE  ChecksumInv'
<1> DEFINE F(h) == [k \in 0 .. n |-> IF k = 0 THEN << s1, s2 >>
                                     ELSE AfterBatch(h[k - 1], i + ((k - 1) * Batch))]
           after == CHOOSE h : h = F(h)
<1>1. /\ UNCHANGED << data, kernel >> /\ i' = i + (n * Batch)
      /\ s1' = after[n][1] /\ s2' = after[n][2]
  BY Zenon DEF TakeBatches
<1>2. \A h : IsAfter(n, i, s1, s2, h) <=> h = F(h)
  BY DEF IsAfter
<1> HIDE DEF F
<1>3. IsAfter(n, i, s1, s2, after)
  <2>1. \E g : g = F(g)
    BY <1>2, AfterExists
  <2>2. after = F(after)
    BY <2>1
  <2> QED BY <1>2, <2>2
<1> HIDE DEF after
<1>4. SumsHold(data, s1, s2, i)
  BY DEF ChecksumInv
<1>5. n * Batch \in Nat
  BY BatchAssumption DEF Batch
<1>6. i \in Nat /\ i + (n * Batch) \in 0 .. Len(data) /\ Adds(data, i + (n * Batch))
  BY <1>5, TakenAdds
<1>7. SumsHold(data, after[n][1], after[n][2], i + (n * Batch))
  BY <1>3, <1>4, <1>6, BatchesHold
<1>8. SumsHold(data, s1', s2', i')
  BY <1>1, <1>7
<1>9. Bytes' /\ i' \in 0 .. Len(data')
  BY <1>1, <1>6 DEF ChecksumInv, Bytes
<1>10. s1' \in Int /\ s2' \in Int
  BY <1>8 DEF SumsHold
<1> QED BY <1>1, <1>8, <1>9, <1>10 DEF ChecksumInv

LEMMA LoopsStep ==
  ASSUME ChecksumInv, LargeLoop \/ SmallLoop \/ BatchesEnd
  PROVE  ChecksumInv'
<1>0. Batch \in Nat /\ Unroll \in Nat
  BY BatchAssumption DEF Batch
<1>1. CASE LargeLoop
  <2>1. pc = "batches" /\ pc' = pc /\ TakeBatches(Unroll) /\ i + (Unroll * Batch) <= Len(data)
    BY <1>1 DEF LargeLoop, TakeBatches
  <2> QED BY <1>0, <2>1, BatchesStep
<1>2. CASE SmallLoop
  <2>1. pc = "batches" /\ pc' = pc /\ TakeBatches(1) /\ i + Batch <= Len(data)
    BY <1>2 DEF SmallLoop, TakeBatches
  <2>2. 1 * Batch = Batch /\ 1 \in Nat
    BY <1>0
  <2> QED BY <2>1, <2>2, BatchesStep
<1>3. CASE BatchesEnd
  <2>1. /\ pc = "batches" /\ pc' = "bytes" /\ UNCHANGED << data, i, s1, s2 >>
        /\ SumsHold(data, s1, s2, i)
    BY <1>3 DEF BatchesEnd, ChecksumInv
  <2>2. Bytes'
    BY <2>1 DEF ChecksumInv, Bytes
  <2> QED BY <2>1, <2>2 DEF ChecksumInv
<1> QED BY <1>1, <1>2, <1>3

LEMMA TakeByteStep ==
  ASSUME ChecksumInv, TakeByte
  PROVE  ChecksumInv'
<1>1. /\ pc = "bytes" /\ UNCHANGED << pc, data >>
      /\ s1' = (s1 + data[i + 1] + CharOffset) % Word
      /\ s2' = (s2 + ((s1 + data[i + 1] + CharOffset) % Word)) % Word
      /\ i' = i + 1 /\ i < Len(data) /\ SumsHold(data, s1, s2, i)
  BY DEF TakeByte, ChecksumInv
<1>2. i \in Nat /\ i + 1 \in 0 .. Len(data) /\ Adds(data, i + 1)
  BY <1>1, TakenAdds
<1>3. SumsHold(data, s1', s2', i + 1)
  BY <1>1, <1>2, SumsByte
<1>4. Bytes'
  BY <1>1 DEF ChecksumInv, Bytes
<1>5. s1' \in Int /\ s2' \in Int
  BY <1>3 DEF SumsHold
<1> QED BY <1>1, <1>2, <1>3, <1>4, <1>5 DEF ChecksumInv

LEMMA ReturnStep ==
  ASSUME ChecksumInv, Return
  PROVE  ChecksumInv'
<1>1. /\ pc = "bytes" /\ pc' = "returned" /\ UNCHANGED << data, i, s1, s2 >>
      /\ i >= Len(data) /\ SumsHold(data, s1, s2, i)
  BY DEF Return, ChecksumInv
<1>2. i = Len(data)
  BY <1>1, TakenAdds
<1>3. Bytes'
  BY <1>1 DEF ChecksumInv, Bytes
<1> QED BY <1>1, <1>2, <1>3 DEF ChecksumInv

LEMMA SumsStep ==
  ASSUME ChecksumInv, Sums
  PROVE  ChecksumInv'
<1>1. ASSUME NEW k \in Kernels, CallKernel(k)
      PROVE  ChecksumInv'
  BY <1>1, KernelStep
<1>2. CASE TakeBlock
  BY <1>2, TakeBlockStep
<1>3. CASE LanesEnd
  BY <1>3, LanesEndStep
<1>4. CASE TakeRest
  BY <1>4, TakeRestStep
<1>5. CASE KernelReturns
  BY <1>5, KernelReturnsStep
<1>6. CASE CallBatches
  BY <1>6, CallBatchesStep
<1>7. CASE LargeLoop \/ SmallLoop \/ BatchesEnd
  BY <1>7, LoopsStep
<1>8. CASE TakeByte
  BY <1>8, TakeByteStep
<1>9. CASE Return
  BY <1>9, ReturnStep
<1> QED BY <1>1, <1>2, <1>3, <1>4, <1>5, <1>6, <1>7, <1>8, <1>9 DEF Sums

\* What is packed is the checksum of the bytes taken so far.
LEMMA PackedAgrees ==
  ASSUME ChecksumInv
  PROVE  ChecksumAgrees
<1>1. /\ Len(data) \in Nat /\ i \in Nat /\ i <= Len(data) /\ Adds(data, i)
  BY TakenAdds
<1>2. Bytes
  BY DEF ChecksumInv
<1>3. ASSUME pc \notin {"idle", "called"}
      PROVE  SumsHold(data, SoFar[1], SoFar[2], i)
  <2>1. CASE pc = "lanes"
    <3>1. kernel \in Kernels /\ AccHolds(kernel, data, acc, i)
      BY <2>1 DEF ChecksumInv
    <3>2. PlainHolds(data, Joined[1], Joined[2], i)
      BY <1>1, <3>1, JoinedHolds
    <3>3. Joined = << Joined[1], Joined[2] >>
      BY DEF Joined
    <3>4. SoFar = Corrected(<< Joined[1], Joined[2] >>, i)
      <4>1. SoFar = Corrected(Joined, i)
        BY <2>1 DEF SoFar
      <4> QED BY <3>3, <4>1
    <3> QED BY <1>1, <3>2, <3>4, CorrectedHolds
  <2>2. CASE pc = "rest"
    <3>1. PlainHolds(data, s1, s2, i)
      BY <2>2 DEF ChecksumInv
    <3>2. SoFar = Corrected(<< s1, s2 >>, i)
      BY <2>2 DEF SoFar
    <3> QED BY <1>1, <3>1, <3>2, CorrectedHolds
  <2>3. CASE pc \in {"batches", "bytes", "returned"}
    <3>1. SumsHold(data, s1, s2, i)
      BY <2>3 DEF ChecksumInv
    <3>2. SoFar = << s1, s2 >>
      BY <2>3 DEF SoFar
    <3> QED BY <3>1, <3>2
  <2> QED BY <1>3, <2>1, <2>2, <2>3 DEF ChecksumInv
<1>4. ASSUME pc \notin {"idle", "called"}
      PROVE  Packed = Checksum1(SubSeq(data, 1, i))
  <2> DEFINE w == SubSeq(data, 1, i)
  <2>1. IsStart(w, data, i)
    <3>1. data \in Seq(Nat)
      <4>1. 0 .. MaxByte \subseteq Nat
        OBVIOUS
      <4>2. data \in [1 .. Len(data) -> 0 .. MaxByte]
        BY <1>2, LenProperties DEF Bytes
      <4>3. data \in [1 .. Len(data) -> Nat]
        BY <4>1, <4>2
      <4> QED BY <1>1, <4>3, SeqDef
    <3>2. w \in Seq(Nat) /\ Len(w) = i
      BY <1>1, <3>1
    <3>3. \A k \in 1 .. i : w[k] = data[k]
      BY <1>1, <3>1
    <3> QED BY <3>2, <3>3 DEF IsStart
  <2> HIDE DEF w
  <2>2. Checksum1(w) = Value([s1 |-> SumsBut(data, i).s1 % Mod, s2 |-> SumsBut(data, i).s2 % Mod])
    BY ONLY <1>1, <2>1, ChecksumOfFirst
  <2>3. SoFar[1] % Mod = SumsBut(data, i).s1 % Mod /\ SoFar[2] % Mod = SumsBut(data, i).s2 % Mod
    BY <1>3, <1>4 DEF SumsHold, Like
  <2> QED BY <2>2, <2>3 DEF Packed, w
<1> QED BY <1>4 DEF ChecksumAgrees, ChecksumInv

\* The arguments of a call of the hash, of which the batch's blocks are, and the
\* checksums kept.
CallInv ==
  /\ phase # "idle" => call \in HashCalls
  /\ sums \in Seq(Int)

\* A block of a batch is made of its bytes.
LEMMA BlockIsOfBytes ==
  ASSUME phase # "idle", CallInv, IsBatch, Len(sums) < Cardinality(Lanes)
  PROVE  BlockOf(Len(sums) + 1) \in Seq(0 .. MaxByte)
<1> DEFINE b == Len(sums) + 1
           size == call.lengths[1]
           n == Len(call.data)
<1>1. Len(sums) \in Nat /\ Cardinality(Lanes) \in Nat /\ Lanes = 1 .. Cardinality(Lanes)
  BY LanesAssumption, FS_CardinalityType, LenProperties DEF CallInv
<1>2. b \in Lanes /\ b \in Nat \ {0}
  BY <1>1
<1>3. /\ call \in HashArguments /\ call.data \in Seq(0 .. MaxByte)
      /\ \A l \in Lanes : call.offsets[l] + call.lengths[l] <= Len(call.data)
  BY CallsAssumption DEF CallInv
<1>4. 1 \in Lanes
  BY <1>1, LanesAssumption
<1>5. size \in Nat /\ n \in Nat
  BY <1>3, <1>4, LenProperties DEF HashArguments
<1>6. call.offsets[b] = (b - 1) * size /\ call.lengths[b] = size
  BY <1>2 DEF IsBatch
<1>7. ((b - 1) * size) + size <= n
  BY <1>2, <1>3, <1>6
<1> HIDE DEF b, size, n
<1>8. b * size = ((b - 1) * size) + size /\ (b - 1) * size \in Nat
  BY <1>2, <1>5
<1> DEFINE lo == (b - 1) * size
           hi == b * size
<1>9. lo + 1 \in Nat /\ hi \in Nat /\ 1 <= lo + 1 /\ hi <= n
  BY <1>5, <1>7, <1>8
<1> HIDE DEF lo, hi
<1>10. SubSeq(call.data, lo + 1, hi) \in Seq(0 .. MaxByte)
  <2>1. \A k \in (lo + 1) .. hi : call.data[k] \in 0 .. MaxByte
    <3>1. \A k \in (lo + 1) .. hi : k \in 1 .. n
      BY <1>5, <1>9
    <3> QED BY <1>3, <3>1, ElementOfSeq DEF n
  <2>2. lo + 1 \in Int /\ hi \in Int
    BY <1>9
  <2> QED BY <1>3, <1>9, <2>1, <2>2, SubSeqProperties DEF n
<1> QED BY <1>10 DEF BlockOf, lo, hi, b, size

LEMMA PackedIsNumber ==
  ASSUME ChecksumInv, pc = "returned"
  PROVE  Packed \in Int
<1>1. SoFar = << s1, s2 >>
  BY DEF SoFar
<1>2. s1 \in Int /\ s2 \in Int /\ Mod \in Nat \ {0}
  BY ModAssumption DEF ChecksumInv
<1>3. Packed = (s1 % Mod) + ((s2 % Mod) * Mod)
  BY <1>1 DEF Packed, Value
<1>4. s1 % Mod \in Int /\ s2 % Mod \in Int
  BY <1>2
<1>5. (s2 % Mod) * Mod \in Int
  BY <1>2, <1>4
<1> QED BY <1>3, <1>4, <1>5

LEMMA CallInvStep ==
  ASSUME ChecksumInv, CallInv, BlockSumsNext
  PROVE  CallInv'
<1>1. CASE AskSum \/ SumBlock \/ (Sums /\ UNCHANGED << hashVars, sums >>) \/ Done
  <2>1. UNCHANGED << hashVars, sums >>
    BY <1>1 DEF AskSum, SumBlock, Done, allVars
  <2> QED BY <2>1 DEF CallInv, hashVars
<1>2. CASE AskHash
  <2>1. PICK c \in HashCalls : CallHash(c) /\ UNCHANGED << vars, sums >>
    BY <1>2 DEF AskHash
  <2> QED BY <2>1 DEF CallHash, CallInv
<1>3. CASE Hash /\ UNCHANGED << vars, sums >>
  <2>1. phase # "idle" /\ call' = call
    BY <1>3 DEF Hash, FoldCommon, FinishInStep, FinishLanes, FoldOwn, FinishLane, LanesFinished
  <2> QED BY <1>3, <2>1 DEF CallInv
<1>4. CASE KeepSum
  <2>1. UNCHANGED hashVars /\ sums' = Append(sums, Packed) /\ pc = "returned"
    BY <1>4 DEF KeepSum, hashVars
  <2>2. Packed \in Int
    BY <2>1, PackedIsNumber
  <2> QED BY <2>1, <2>2, AppendProperties DEF CallInv, hashVars
<1> QED BY <1>1, <1>2, <1>3, <1>4 DEF BlockSumsNext

LEMMA ChecksumStep ==
  ASSUME ChecksumInv, CallInv, [BlockSumsNext]_allVars
  PROVE  ChecksumInv' /\ CallInv'
<1>1. ASSUME UNCHANGED vars
      PROVE  ChecksumInv'
  <2>1. UNCHANGED << pc, data, kernel, acc, i, s1, s2 >>
    BY <1>1 DEF vars
  <2> QED BY <2>1 DEF ChecksumInv, Bytes
<1>2. CASE BlockSumsNext
  <2>1. CASE AskSum
    <3>1. PICK d \in Inputs : Call(d)
      BY <2>1 DEF AskSum
    <3> QED BY <3>1, <1>2, CallsAssumption, CallStep, CallInvStep
  <2>2. CASE AskHash \/ (Hash /\ UNCHANGED << vars, sums >>) \/ Done
    <3>1. UNCHANGED vars
      BY <2>2 DEF AskHash, Done, allVars
    <3> QED BY <1>1, <1>2, <3>1, CallInvStep
  <2>3. CASE Sums /\ UNCHANGED << hashVars, sums >>
    BY <1>2, <2>3, SumsStep, CallInvStep
  <2>4. CASE SumBlock
    <3>1. phase # "idle" /\ IsBatch /\ Len(sums) < Cardinality(Lanes) /\ Call(BlockOf(Len(sums) + 1))
      BY <2>4 DEF SumBlock
    <3>2. BlockOf(Len(sums) + 1) \in Seq(0 .. MaxByte)
      BY <3>1, BlockIsOfBytes
    <3> QED BY <1>2, <3>1, <3>2, CallStep, CallInvStep
  <2>5. CASE KeepSum
    <3>1. pc' = "idle" /\ UNCHANGED << data, kernel, acc, i, s1, s2 >>
      BY <2>5 DEF KeepSum
    <3>2. ChecksumInv'
      BY <3>1 DEF ChecksumInv, Bytes
    <3> QED BY <1>2, <3>2, CallInvStep
  <2> QED BY <1>2, <2>1, <2>2, <2>3, <2>4, <2>5 DEF BlockSumsNext
<1>3. CASE UNCHANGED allVars
  <2>1. UNCHANGED vars /\ UNCHANGED hashVars /\ UNCHANGED sums
    BY <1>3 DEF allVars
  <2> QED BY <1>1, <2>1 DEF CallInv, hashVars
<1> QED BY <1>2, <1>3

LEMMA ChecksumBegins == BlockSumsInit => ChecksumInv /\ CallInv
<1> SUFFICES ASSUME BlockSumsInit PROVE ChecksumInv /\ CallInv
  OBVIOUS
<1>1. /\ pc = "idle" /\ data = << >> /\ i = 0 /\ s1 = 0 /\ s2 = 0
      /\ phase = "idle" /\ sums = << >>
  BY DEF BlockSumsInit, Init, HashInit
<1>2. << >> \in Seq(0 .. MaxByte) /\ Len(<< >>) = 0 /\ << >> \in Seq(Int)
  OBVIOUS
<1> QED BY <1>1, <1>2 DEF ChecksumInv, CallInv, Bytes

\* The weak checksum is that of the byte-by-byte loop whichever way a machine
\* computes it, in lanes of any kernel, in batches or byte by byte, and is so
\* after every turn of every loop: for every modulus, offset, width of words and
\* lanes, shape of accumulators and batches, and all data.
THEOREM EveryPathAgrees == BlockSumsSpec => []ChecksumAgrees
<1>1. ChecksumInv /\ CallInv /\ [BlockSumsNext]_allVars => ChecksumInv' /\ CallInv'
  BY ChecksumStep
<1>2. ChecksumInv => ChecksumAgrees
  BY PackedAgrees
<1> QED BY <1>1, <1>2, ChecksumBegins, PTL DEF BlockSumsSpec

-----------------------------------------------------------------------------
(* Texts in chunks *)

\* The first k chunks of the text s.
Chunked(s, k) == [c \in 1 .. k |-> SubSeq(s, (c - 1) * Chunk + 1, c * Chunk)]

\* s is k chunks long.
IsChunks(s, k) == s \in Seq(Int) /\ k \in Nat /\ Len(s) = k * Chunk

LEMMA ChunkPlaces ==
  ASSUME NEW k \in Nat, NEW c \in 1 .. k
  PROVE  /\ (c - 1) * Chunk \in Nat /\ c * Chunk \in Nat /\ k * Chunk \in Nat
         /\ c * Chunk = ((c - 1) * Chunk) + Chunk /\ c * Chunk <= k * Chunk
<1>1. Chunk \in Nat /\ c - 1 \in Nat /\ k - c \in Nat
  BY ChunkAssumption
<1>2. /\ (c - 1) * Chunk \in Nat /\ c * Chunk \in Nat /\ k * Chunk \in Nat
      /\ (k - c) * Chunk \in Nat
  BY <1>1
<1>3. c * Chunk = ((c - 1) * Chunk) + Chunk
  BY <1>1
<1>4. k * Chunk = (c * Chunk) + ((k - c) * Chunk)
  BY <1>1
<1> QED BY <1>2, <1>3, <1>4

LEMMA ChunkedType ==
  ASSUME NEW s, NEW k, IsChunks(s, k)
  PROVE  /\ Chunked(s, k) \in Seq(Seq(Int)) /\ Len(Chunked(s, k)) = k
         /\ \A c \in 1 .. k : Chunked(s, k)[c] = SubSeq(s, (c - 1) * Chunk + 1, c * Chunk)
<1>1. k \in Nat /\ s \in Seq(Int) /\ Len(s) = k * Chunk
  BY DEF IsChunks
<1>2. ASSUME NEW c \in 1 .. k
      PROVE  SubSeq(s, (c - 1) * Chunk + 1, c * Chunk) \in Seq(Int)
  <2> DEFINE lo == (c - 1) * Chunk
             hi == c * Chunk
  <2>1. lo \in Nat /\ hi \in Nat /\ hi <= Len(s)
    BY <1>1, ChunkPlaces
  <2> HIDE DEF lo, hi
  <2>2. \A j \in (lo + 1) .. hi : s[j] \in Int
    BY <1>1, <2>1, ElementOfSeq
  <2>3. SubSeq(s, lo + 1, hi) \in Seq(Int)
    BY <2>1, <2>2, SubSeqProperties
  <2> QED BY <2>3 DEF lo, hi
<1> DEFINE f == Chunked(s, k)
<1>3. f \in [1 .. k -> Seq(Int)]
  BY <1>2 DEF Chunked
<1>4. \A c \in 1 .. k : f[c] = SubSeq(s, (c - 1) * Chunk + 1, c * Chunk)
  BY DEF Chunked
<1> HIDE DEF f
<1>5. f \in Seq(Seq(Int)) /\ Len(f) = k
  BY <1>1, <1>3
<1> QED BY <1>4, <1>5 DEF f

\* The chunks of s and t, k and l of them, are those of both, one after the other.
JoinChunks(s, t, k, l) ==
  /\ IsChunks(s \o t, k + l)
  /\ Chunked(s \o t, k + l) = Chunked(s, k) \o Chunked(t, l)

LEMMA ChunkedJoin ==
  ASSUME NEW s, NEW t, NEW k, NEW l, IsChunks(s, k), IsChunks(t, l)
  PROVE  JoinChunks(s, t, k, l)
<1>1. /\ s \in Seq(Int) /\ t \in Seq(Int) /\ k \in Nat /\ l \in Nat
      /\ Len(s) = k * Chunk /\ Len(t) = l * Chunk /\ Chunk \in Nat /\ Chunk >= 1
  BY ChunkAssumption DEF IsChunks
<1>2. s \o t \in Seq(Int) /\ Len(s \o t) = Len(s) + Len(t)
  BY <1>1, ConcatProperties
<1>3. IsChunks(s \o t, k + l)
  <2>1. (k + l) * Chunk = (k * Chunk) + (l * Chunk)
    BY <1>1
  <2> QED BY <1>1, <1>2, <2>1 DEF IsChunks
<1> DEFINE a == Chunked(s, k)
           b == Chunked(t, l)
           w == Chunked(s \o t, k + l)
<1>4. /\ a \in Seq(Seq(Int)) /\ Len(a) = k /\ b \in Seq(Seq(Int)) /\ Len(b) = l
      /\ w \in Seq(Seq(Int)) /\ Len(w) = k + l
      /\ \A c \in 1 .. k : a[c] = SubSeq(s, (c - 1) * Chunk + 1, c * Chunk)
      /\ \A c \in 1 .. l : b[c] = SubSeq(t, (c - 1) * Chunk + 1, c * Chunk)
      /\ \A c \in 1 .. k + l : w[c] = SubSeq(s \o t, (c - 1) * Chunk + 1, c * Chunk)
  BY <1>3, ChunkedType
<1> HIDE DEF a, b, w
<1>5. /\ a \o b \in Seq(Seq(Int)) /\ Len(a \o b) = k + l
      /\ \A c \in 1 .. k + l : (a \o b)[c] = IF c <= k THEN a[c] ELSE b[c - k]
  BY <1>4, ConcatProperties
<1>6. ASSUME NEW c \in 1 .. k + l
      PROVE  w[c] = (a \o b)[c]
  <2> DEFINE lo == (c - 1) * Chunk
             hi == c * Chunk
  <2>0. lo \in Nat /\ hi \in Nat /\ hi = lo + Chunk /\ hi <= (k + l) * Chunk
    BY <1>1, ChunkPlaces
  <2>1. CASE c <= k
    <3>1. hi <= Len(s)
      BY <1>1, <2>1, ChunkPlaces
    <3>2. lo + 1 \in 1 .. Len(s) /\ hi \in 1 .. Len(s)
      <4> HIDE DEF lo, hi
      <4> QED BY <1>1, <2>0, <3>1
    <3>3. SubSeq(s \o t, lo + 1, hi) = SubSeq(s, lo + 1, hi)
      <4> HIDE DEF lo, hi
      <4> QED BY <1>1, <3>2, SubSeqOfConcat1
    <3>4. c \in 1 .. k
      BY <1>1, <2>1
    <3>5. w[c] = SubSeq(s \o t, lo + 1, hi) /\ a[c] = SubSeq(s, lo + 1, hi)
      BY ONLY <1>4, <3>4, Zenon DEF lo, hi
    <3>6. (a \o b)[c] = a[c]
      BY <1>5, <2>1
    <3> QED BY <3>3, <3>5, <3>6
  <2>2. CASE c > k
    <3> DEFINE e == c - k
    <3>1. e \in 1 .. l /\ c = k + e
      BY <1>1, <2>2
    <3>2. lo = (k * Chunk) + ((e - 1) * Chunk) /\ hi = (k * Chunk) + (e * Chunk)
      <4>1. e - 1 \in Int /\ e \in Int /\ c - 1 = k + (e - 1)
        BY <1>1, <3>1
      <4> DEFINE d == e - 1
      <4>2. (k + d) * Chunk = (k * Chunk) + (d * Chunk) /\ (k + e) * Chunk = (k * Chunk) + (e * Chunk)
        <5> HIDE DEF d, e
        <5> QED BY <1>1, <4>1 DEF d
      <4> QED BY <3>1, <4>1, <4>2
    <3> DEFINE from == (e - 1) * Chunk
               to == e * Chunk
    <3>3. /\ from \in Nat /\ to \in Nat /\ to = from + Chunk /\ to <= Len(t)
          /\ lo = Len(s) + from /\ hi = Len(s) + to
      <4> HIDE DEF e, lo, hi
      <4> QED BY <1>1, <3>1, <3>2, ChunkPlaces
    <3> HIDE DEF lo, hi, from, to
    <3>4. Len(s) \in Nat /\ Len(t) \in Nat
      BY <1>1, LenProperties
    <3>5. /\ lo + 1 \in (Len(s) + 1) .. (Len(s) + Len(t)) /\ hi \in (Len(s) + 1) .. (Len(s) + Len(t))
          /\ (lo + 1) - Len(s) = from + 1 /\ hi - Len(s) = to
      BY <1>1, <3>3, <3>4
    <3>6. SubSeq(s \o t, lo + 1, hi) = SubSeq(t, from + 1, to)
      <4>1. SubSeq(s \o t, lo + 1, hi) = SubSeq(t, (lo + 1) - Len(s), hi - Len(s))
        BY ONLY <1>1, <3>5, SubSeqOfConcat2, Zenon
      <4> QED BY ONLY <3>5, <4>1, Zenon
    <3>7. w[c] = SubSeq(s \o t, lo + 1, hi) /\ b[e] = SubSeq(t, from + 1, to)
      BY ONLY <1>4, <3>1, c \in 1 .. k + l, Zenon DEF lo, hi, from, to
    <3>8. (a \o b)[c] = b[e]
      <4>1. (a \o b)[c] = IF c <= k THEN a[c] ELSE b[c - k]
        BY ONLY <1>5, c \in 1 .. k + l, Zenon
      <4>2. ~ (c <= k)
        BY ONLY <1>1, <2>2, c \in 1 .. k + l
      <4> QED BY ONLY <4>1, <4>2, Zenon DEF e
    <3> QED BY <3>6, <3>7, <3>8
  <2>3. c <= k \/ c > k
    BY <1>1
  <2> QED BY ONLY <2>1, <2>2, <2>3
<1>7. w = a \o b
  BY <1>4, <1>5, <1>6, SeqEqual
<1> QED BY <1>3, <1>7 DEF JoinChunks, a, b, w

LEMMA OneChunk ==
  ASSUME NEW s \in Seq(Int), Len(s) = Chunk
  PROVE  IsChunks(s, 1) /\ Chunked(s, 1) = << s >>
<1>1. Chunk \in Nat
  BY ChunkAssumption
<1>2. IsChunks(s, 1)
  BY <1>1 DEF IsChunks
<1>3. SubSeq(s, 1, Chunk) = s
  BY SubSeqFull
<1>4. /\ Chunked(s, 1) \in Seq(Seq(Int)) /\ Len(Chunked(s, 1)) = 1
      /\ Chunked(s, 1)[1] = SubSeq(s, (1 - 1) * Chunk + 1, 1 * Chunk)
  <2>1. 1 \in 1 .. 1
    OBVIOUS
  <2> QED BY ONLY <1>2, <2>1, ChunkedType, Zenon
<1>5. Chunked(s, 1)[1] = s
  <2>1. (1 - 1) * Chunk + 1 = 1 /\ 1 * Chunk = Chunk
    BY <1>1
  <2> QED BY <1>3, <1>4, <2>1
<1> QED BY <1>2, <1>4, <1>5

LEMMA ChunkedAppend ==
  ASSUME NEW s, NEW k, IsChunks(s, k), NEW t \in Seq(Int), Len(t) = Chunk
  PROVE  IsChunks(s \o t, k + 1) /\ Chunked(s \o t, k + 1) = Append(Chunked(s, k), t)
<1>1. IsChunks(t, 1) /\ Chunked(t, 1) = << t >>
  BY OneChunk
<1>2. Chunked(s, k) \in Seq(Seq(Int))
  BY ChunkedType
<1>3. Append(Chunked(s, k), t) = Chunked(s, k) \o << t >>
  BY <1>2, AppendIsConcat
<1>4. JoinChunks(s, t, k, 1)
  BY ONLY <1>1, IsChunks(s, k), ChunkedJoin, Zenon
<1> QED BY <1>1, <1>3, <1>4 DEF JoinChunks

-----------------------------------------------------------------------------
(* How a text ends *)

\* The chunks that end a text with a tail of t bytes, and the zeros in them.
EndChunks(t) == IF Fits(t) THEN 1 ELSE 2
EndZeros(t) == (IF Fits(t) THEN LengthAt ELSE Chunk + LengthAt) - t - 1

\* m with 0x80, z zeros and the length n.
Ended(m, z, n) == m \o << Mark >> \o ZeroBytes(z) \o LengthWords(n)

LEMMA EndFits ==
  ASSUME NEW t \in 0 .. Chunk - 1
  PROVE  /\ EndZeros(t) \in 0 .. Chunk - 1 /\ EndZeros(t) \in Nat
         /\ EndChunks(t) \in {1, 2} /\ EndChunks(t) \in Nat
         /\ t + 1 + EndZeros(t) + 2 = EndChunks(t) * Chunk
<1>1. Chunk \in Nat /\ Chunk > 2 /\ t \in Nat /\ t < Chunk
  BY ChunkAssumption
<1>2. CASE Fits(t)
  <2>1. t < Chunk - 2 /\ EndChunks(t) = 1 /\ EndZeros(t) = (Chunk - 2) - t - 1
    BY <1>2 DEF Fits, LengthAt, EndChunks, EndZeros
  <2> QED BY <1>1, <2>1
<1>3. CASE ~ Fits(t)
  <2>1. ~ (t < Chunk - 2) /\ EndChunks(t) = 2 /\ EndZeros(t) = (Chunk + (Chunk - 2)) - t - 1
    BY <1>3 DEF Fits, LengthAt, EndChunks, EndZeros
  <2> QED BY <1>1, <2>1
<1> QED BY <1>2, <1>3

\* A multiple of m that is less than m away from 0 is 0.
LEMMA NearMultiple ==
  ASSUME NEW m \in Nat \ {0}, NEW q \in Int, q * m < m, -m < q * m
  PROVE  q = 0
<1>1. CASE q >= 1
  <2>1. q * m = m + ((q - 1) * m) /\ (q - 1) * m >= 0
    <3>1. q - 1 \in Nat
      BY <1>1
    <3> QED BY <3>1
  <2>2. q * m \in Int
    OBVIOUS
  <2> QED BY <2>1, <2>2
<1>2. CASE q <= -1
  <2>1. q * m = (-m) - (((-q) - 1) * m) /\ ((-q) - 1) * m >= 0
    <3>1. (-q) - 1 \in Nat
      BY <1>2
    <3> QED BY <3>1
  <2>2. q * m \in Int
    OBVIOUS
  <2> QED BY <2>1, <2>2
<1> QED BY <1>1, <1>2

\* The zeros in the MD5 of n bytes: they are those of the padding.
FewZeros(n) == CHOOSE z \in 0 .. Chunk - 1 : (n + 1 + z + 2) % Chunk = 0

LEMMA FewestZeros ==
  ASSUME NEW k \in Nat, NEW t \in 0 .. Chunk - 1, NEW n, n = (k * Chunk) + t
  PROVE  FewZeros(n) = EndZeros(t)
<1> DEFINE z == EndZeros(t)
           l == EndChunks(t)
<1>1. Chunk \in Nat \ {0} /\ t \in Nat /\ k * Chunk \in Nat /\ n \in Nat
  BY ChunkAssumption
<1>2. z \in 0 .. Chunk - 1 /\ l \in Nat /\ t + 1 + z + 2 = l * Chunk
  BY EndFits
<1> HIDE DEF z, l
<1>3. n + 1 + z + 2 = (k + l) * Chunk
  <2>1. (k + l) * Chunk = (k * Chunk) + (l * Chunk) /\ l * Chunk \in Int
    BY <1>1, <1>2
  <2> QED BY <1>1, <1>2, <2>1
<1>4. (n + 1 + z + 2) % Chunk = 0
  <2>1. (((k + l) * Chunk) + 0) % Chunk = 0 /\ (k + l) * Chunk \in Int
    <3>1. k + l \in Int /\ 0 \in 0 .. Chunk - 1
      BY <1>1, <1>2
    <3>2. (k + l) * Chunk \in Int
      BY <1>1, <3>1
    <3> QED BY ONLY <1>1, <3>1, <3>2, ModUnique, Zenon
  <2>2. ((k + l) * Chunk) + 0 = (k + l) * Chunk
    BY <2>1
  <2> QED BY <1>3, <2>1, <2>2
<1>5. ASSUME NEW y \in 0 .. Chunk - 1, (n + 1 + y + 2) % Chunk = 0
      PROVE  y = z
  <2> DEFINE w == n + 1 + y + 2
             q == w \div Chunk
  <2>1. w \in Nat /\ y \in Int
    BY <1>1
  <2>2. q \in Nat /\ w = q * Chunk
    <3> HIDE DEF w
    <3> QED BY <1>1, <1>5, <2>1, Multiple DEF w
  <2> DEFINE d == q - (k + l)
  <2>3. d \in Int /\ d * Chunk = (q * Chunk) - ((k + l) * Chunk)
    <3> HIDE DEF q
    <3> QED BY <1>1, <1>2, <2>2
  <2>4. (q * Chunk) - ((k + l) * Chunk) = y - z
    <3> HIDE DEF q
    <3> QED BY <1>1, <1>2, <1>3, <2>1, <2>2
  <2> HIDE DEF w, q, d
  <2>5. d * Chunk = y - z /\ y - z < Chunk /\ -Chunk < y - z
    BY <1>1, <1>2, <2>3, <2>4
  <2>6. d = 0
    BY <1>1, <2>3, <2>5, NearMultiple
  <2> QED BY <1>1, <1>2, <2>1, <2>5, <2>6
<1>6. \A y \in 0 .. Chunk - 1 : (n + 1 + y + 2) % Chunk = 0 <=> y = z
  BY <1>2, <1>4, <1>5
<1> QED BY <1>2, <1>6 DEF FewZeros, z

LEMMA ZerosType ==
  ASSUME NEW n \in Nat
  PROVE  ZeroBytes(n) \in Seq(Int) /\ Len(ZeroBytes(n)) = n /\ \A k \in 1 .. n : ZeroBytes(n)[k] = 0
<1> DEFINE f == ZeroBytes(n)
<1>1. f \in [1 .. n -> Int] /\ \A k \in 1 .. n : f[k] = 0
  BY DEF ZeroBytes
<1> HIDE DEF f
<1>2. f \in Seq(Int) /\ Len(f) = n
  BY <1>1
<1> QED BY <1>1, <1>2 DEF f

LEMMA ZerosJoin ==
  ASSUME NEW m \in Nat, NEW n \in Nat, NEW l, l = m + n
  PROVE  ZeroBytes(l) = ZeroBytes(m) \o ZeroBytes(n)
<1> DEFINE a == ZeroBytes(m)
           b == ZeroBytes(n)
           c == ZeroBytes(l)
<1>1. /\ a \in Seq(Int) /\ Len(a) = m /\ \A k \in 1 .. m : a[k] = 0
      /\ b \in Seq(Int) /\ Len(b) = n /\ \A k \in 1 .. n : b[k] = 0
      /\ c \in Seq(Int) /\ Len(c) = l /\ \A k \in 1 .. l : c[k] = 0
  <2>1. l \in Nat
    OBVIOUS
  <2> QED BY <2>1, ZerosType
<1> HIDE DEF a, b, c
<1>2. /\ a \o b \in Seq(Int) /\ Len(a \o b) = l
      /\ \A k \in 1 .. l : (a \o b)[k] = IF k <= m THEN a[k] ELSE b[k - m]
  BY <1>1, ConcatProperties
<1>3. \A k \in 1 .. l : c[k] = (a \o b)[k]
  BY <1>1, <1>2
<1>4. c = a \o b
  BY <1>1, <1>2, <1>3, SeqEqual
<1> QED BY <1>4 DEF a, b, c

LEMMA LengthType ==
  ASSUME NEW n \in Nat
  PROVE  /\ LengthWords(n) \in Seq(Int) /\ Len(LengthWords(n)) = 2 /\ LengthWords(n)[1] \in Int
         /\ n * BitsOf < Half => LengthWords(n) = << LengthWords(n)[1], 0 >>
<1> DEFINE w == n * BitsOf
<1>1. w \in Nat /\ Half \in Nat \ {0}
  BY ChunkAssumption
<1> HIDE DEF w
<1>2. w % Half \in Int /\ w \div Half \in Int /\ (w \div Half) % Half \in Int
  BY <1>1
<1>3. w < Half => (w \div Half) % Half = 0
  <2>1. w < Half => w \div Half = 0
    BY <1>1
  <2> QED BY <1>1, <2>1
<1>4. LengthWords(n) = << w % Half, (w \div Half) % Half >>
  BY DEF LengthWords, w
<1> QED BY <1>2, <1>3, <1>4 DEF w

LEMMA MarkType == << Mark >> \in Seq(Int) /\ Len(<< Mark >>) = 1
BY DEF Mark

LEMMA TextsJoin ==
  ASSUME NEW a \in Seq(Int), NEW b \in Seq(Int)
  PROVE  a \o b \in Seq(Int) /\ Len(a \o b) = Len(a) + Len(b)
BY ConcatProperties

LEMMA EndedType ==
  ASSUME NEW m \in Seq(Int), NEW z \in Nat, NEW n \in Nat
  PROVE  Ended(m, z, n) \in Seq(Int) /\ Len(Ended(m, z, n)) = Len(m) + 1 + z + 2
<1>1. m \o << Mark >> \in Seq(Int) /\ Len(m \o << Mark >>) = Len(m) + 1
  <2>1. /\ m \o << Mark >> \in Seq(Int)
        /\ Len(m \o << Mark >>) = Len(m) + Len(<< Mark >>)
    BY ONLY MarkType, TextsJoin, m \in Seq(Int), Zenon
  <2> QED BY <2>1, MarkType
<1>2. /\ (m \o << Mark >>) \o ZeroBytes(z) \in Seq(Int)
      /\ Len((m \o << Mark >>) \o ZeroBytes(z)) = Len(m) + 1 + z
  <2>1. ZeroBytes(z) \in Seq(Int) /\ Len(ZeroBytes(z)) = z
    BY ZerosType
  <2>2. /\ (m \o << Mark >>) \o ZeroBytes(z) \in Seq(Int)
        /\ Len((m \o << Mark >>) \o ZeroBytes(z)) = Len(m \o << Mark >>) + Len(ZeroBytes(z))
    BY ONLY <1>1, <2>1, TextsJoin, Zenon
  <2> QED BY <1>1, <2>1, <2>2
<1> DEFINE a == (m \o << Mark >>) \o ZeroBytes(z)
           w == LengthWords(n)
<1>3. w \in Seq(Int) /\ Len(w) = 2
  BY LengthType
<1>4. Ended(m, z, n) = a \o w
  BY DEF Ended
<1> HIDE DEF a, w
<1>5. a \o w \in Seq(Int) /\ Len(a \o w) = Len(a) + Len(w)
  BY <1>2, <1>3, TextsJoin DEF a
<1> QED BY <1>2, <1>3, <1>4, <1>5 DEF a

\* a, b and c, one after the other.
Regroups(a, b, c) == (a \o b) \o c = a \o (b \o c)

LEMMA TextsRegroup ==
  ASSUME NEW a \in Seq(Int), NEW b \in Seq(Int), NEW c \in Seq(Int)
  PROVE  Regroups(a, b, c)
BY ConcatAssociative DEF Regroups

\* What ends a and b, ends b.
EndsTogether(a, b, z, n) == Ended(a \o b, z, n) = a \o Ended(b, z, n)

LEMMA EndedJoin ==
  ASSUME NEW a \in Seq(Int), NEW b \in Seq(Int), NEW z \in Nat, NEW n \in Nat
  PROVE  EndsTogether(a, b, z, n)
<1> DEFINE e == << Mark >>
           o == ZeroBytes(z)
           w == LengthWords(n)
<1>1. e \in Seq(Int) /\ o \in Seq(Int) /\ w \in Seq(Int)
  BY MarkType, ZerosType, LengthType
<1>2. Ended(a \o b, z, n) = (((a \o b) \o e) \o o) \o w /\ Ended(b, z, n) = ((b \o e) \o o) \o w
  BY DEF Ended
<1> HIDE DEF e, o, w
<1>3. b \o e \in Seq(Int) /\ (b \o e) \o o \in Seq(Int)
  BY <1>1, ConcatProperties
<1>4. /\ Regroups(a, b, e) /\ Regroups(a, b \o e, o)
      /\ Regroups(a, (b \o e) \o o, w)
  BY ONLY <1>1, <1>3, a \in Seq(Int), b \in Seq(Int), TextsRegroup, Zenon
<1> QED BY <1>2, <1>4 DEF Regroups, EndsTogether

\* Cutting a text of whole chunks gives all of them.
LEMMA WholeChunks ==
  ASSUME NEW s, NEW k, IsChunks(s, k)
  PROVE  Len(s) \div Chunk = k /\ Chunked(s, Len(s) \div Chunk) = Chunked(s, k)
<1>1. k \in Nat /\ Len(s) = k * Chunk /\ Chunk \in Nat \ {0}
  BY ChunkAssumption DEF IsChunks
<1>2. (k * Chunk) \div Chunk = k
  BY <1>1
<1> QED BY <1>1, <1>2

\* md5FinalLane's buffer.
LEMMA PaddedIs ==
  ASSUME NEW tail \in Seq(Int), NEW t \in 0 .. Chunk - 1, Len(tail) = t, NEW n \in Nat
  PROVE  /\ IsChunks(Ended(tail, EndZeros(t), n), EndChunks(t))
         /\ Padded(tail, n) = Chunked(Ended(tail, EndZeros(t), n), EndChunks(t))
<1> DEFINE buf == Ended(tail, EndZeros(t), n)
<1>1. /\ EndZeros(t) \in Nat /\ EndChunks(t) \in Nat
      /\ t + 1 + EndZeros(t) + 2 = EndChunks(t) * Chunk
  BY EndFits
<1>2. buf \in Seq(Int) /\ Len(buf) = t + 1 + EndZeros(t) + 2
  BY <1>1, EndedType
<1>3. IsChunks(buf, EndChunks(t))
  BY <1>1, <1>2 DEF IsChunks
<1>4. Padded(tail, n) = Chunked(buf, Len(buf) \div Chunk)
  BY DEF Padded, Ended, Chunked, EndZeros
<1> QED BY <1>3, <1>4, WholeChunks

\* A digest is that of the chunks of a text followed by those of its padded tail.
EndsAsPadded(head, k, tail, n) == MD5(head \o tail) = Chunked(head, k) \o Padded(tail, n)

LEMMA DigestIs ==
  ASSUME NEW head, NEW k, IsChunks(head, k),
         NEW tail \in Seq(Int), NEW t \in 0 .. Chunk - 1, Len(tail) = t,
         NEW n, n = (k * Chunk) + t
  PROVE  EndsAsPadded(head, k, tail, n)
<1> DEFINE buf == Ended(tail, EndZeros(t), n)
           m == head \o tail
<1>1. /\ head \in Seq(Int) /\ k \in Nat /\ Len(head) = k * Chunk
      /\ Chunk \in Nat /\ k * Chunk \in Nat /\ t \in Nat /\ n \in Nat
  BY ChunkAssumption DEF IsChunks
<1>2. EndZeros(t) \in Nat /\ EndChunks(t) \in Nat
  BY EndFits
<1>3. m \in Seq(Int) /\ Len(m) = n
  BY <1>1, ConcatProperties
<1>4. IsChunks(buf, EndChunks(t)) /\ Padded(tail, n) = Chunked(buf, EndChunks(t))
  BY <1>1, PaddedIs
<1>5. JoinChunks(head, buf, k, EndChunks(t))
  BY <1>4, ChunkedJoin
<1>6. Ended(m, EndZeros(t), n) = head \o buf
  <2>1. EndsTogether(head, tail, EndZeros(t), n)
    BY ONLY <1>1, <1>2, tail \in Seq(Int), EndedJoin, Zenon
  <2> QED BY <2>1 DEF EndsTogether
<1>7. MD5(m) = Chunked(Ended(m, EndZeros(t), n), Len(Ended(m, EndZeros(t), n)) \div Chunk)
  <2>1. FewZeros(n) = EndZeros(t)
    BY <1>1, FewestZeros
  <2>2. MD5(m) = Chunked(Ended(m, FewZeros(Len(m)), Len(m)),
                         Len(Ended(m, FewZeros(Len(m)), Len(m))) \div Chunk)
    BY DEF MD5, Ended, Chunked, FewZeros
  <2> QED BY <1>3, <2>1, <2>2
<1>8. Chunked(head \o buf, Len(head \o buf) \div Chunk) = Chunked(head, k) \o Chunked(buf, EndChunks(t))
  <2>1. IsChunks(head \o buf, k + EndChunks(t))
    BY <1>5 DEF JoinChunks
  <2>2. Chunked(head \o buf, Len(head \o buf) \div Chunk) = Chunked(head \o buf, k + EndChunks(t))
    BY ONLY <2>1, WholeChunks, Zenon
  <2> QED BY <1>5, <2>2 DEF JoinChunks
<1> QED BY <1>4, <1>6, <1>7, <1>8 DEF EndsAsPadded

LEMMA PairJoins ==
  ASSUME NEW S, NEW a \in S, NEW b \in S
  PROVE  << a >> \o << b >> = << a, b >>
<1> DEFINE s == << a >> \o << b >>
           t == << a, b >>
<1>1. << a >> \in Seq(S) /\ << b >> \in Seq(S) /\ Len(<< a >>) = 1 /\ Len(<< b >>) = 1
  OBVIOUS
<1>2. s \in Seq(S) /\ Len(s) = 2 /\ s[1] = a /\ s[2] = b
  BY <1>1, ConcatProperties
<1>3. t \in Seq(S) /\ Len(t) = 2 /\ t[1] = a /\ t[2] = b
  OBVIOUS
<1> HIDE DEF s, t
<1>4. \A k \in 1 .. Len(s) : s[k] = t[k]
  BY <1>2, <1>3
<1>5. s = t
  BY <1>2, <1>3, <1>4, SeqEqual
<1> QED BY <1>5 DEF s, t

\* The two chunks md5Finalize8way makes are those of the padding, if the length
\* in bits fits its low half.
LEMMA InStepPads ==
  ASSUME NEW tail \in Seq(Int), NEW t \in 0 .. Chunk - 1, Len(tail) = t, ~ Fits(t),
         NEW n \in Nat, n * BitsOf < Half
  PROVE  Padded(tail, n) = << tail \o << Mark >> \o ZeroBytes(Chunk - t - 1),
                              ZeroBytes(LengthAt) \o << LengthWords(n)[1], 0 >> >>
<1> DEFINE o == ZeroBytes(Chunk - t - 1)
           z == ZeroBytes(LengthAt)
           w == LengthWords(n)
           a == (tail \o << Mark >>) \o o
           b == z \o w
<1>1. /\ Chunk \in Nat /\ t \in Nat /\ LengthAt \in Nat /\ (Chunk - t) - 1 \in Nat
      /\ LengthAt + 2 = Chunk
      /\ EndZeros(t) = ((Chunk - t) - 1) + LengthAt /\ EndChunks(t) = 2
  BY ChunkAssumption DEF EndZeros, EndChunks, LengthAt
<1>2. /\ o \in Seq(Int) /\ Len(o) = (Chunk - t) - 1 /\ z \in Seq(Int) /\ Len(z) = LengthAt
      /\ w \in Seq(Int) /\ Len(w) = 2 /\ w = << w[1], 0 >>
      /\ ZeroBytes(EndZeros(t)) = o \o z
  BY <1>1, ZerosType, ZerosJoin, LengthType
<1>3. tail \o << Mark >> \in Seq(Int) /\ Len(tail \o << Mark >>) = t + 1
  BY MarkType, ConcatProperties
<1>4. Ended(tail, EndZeros(t), n) = ((tail \o << Mark >>) \o (o \o z)) \o w
  BY <1>2 DEF Ended
<1> HIDE DEF o, z, w
<1>5. a \in Seq(Int) /\ Len(a) = Chunk
  <2>1. a \in Seq(Int) /\ Len(a) = Len(tail \o << Mark >>) + Len(o)
    BY ONLY <1>2, <1>3, TextsJoin, Zenon
  <2>2. (t + 1) + ((Chunk - t) - 1) = Chunk
    BY ONLY <1>1
  <2> HIDE DEF a
  <2> QED BY ONLY <1>2, <1>3, <2>1, <2>2
<1>6. b \in Seq(Int) /\ Len(b) = Chunk
  <2>1. b \in Seq(Int) /\ Len(b) = Len(z) + Len(w)
    BY ONLY <1>2, TextsJoin, Zenon
  <2> HIDE DEF b
  <2> QED BY <1>1, <1>2, <2>1
<1>7. ((tail \o << Mark >>) \o (o \o z)) \o w = a \o b
  <2>1. Regroups(tail \o << Mark >>, o, z) /\ Regroups(a, z, w)
    BY ONLY <1>2, <1>3, <1>5, TextsRegroup, Zenon
  <2> QED BY <2>1 DEF Regroups
<1>8. /\ IsChunks(a, 1) /\ Chunked(a, 1) = << a >>
      /\ IsChunks(b, 1) /\ Chunked(b, 1) = << b >>
  <2> HIDE DEF a, b
  <2> QED BY <1>5, <1>6, OneChunk
<1>9. Padded(tail, n) = Chunked(a \o b, 2)
  <2>1. Padded(tail, n) = Chunked(Ended(tail, EndZeros(t), n), EndChunks(t))
    BY PaddedIs
  <2> QED BY <1>1, <1>4, <1>7, <2>1
<1>10. Chunked(a \o b, 1 + 1) = << a >> \o << b >>
  <2>1. JoinChunks(a, b, 1, 1)
    BY ONLY <1>8, ChunkedJoin, Zenon
  <2> QED BY <1>8, <2>1 DEF JoinChunks
<1>11. << a >> \o << b >> = << a, b >> /\ 1 + 1 = 2
  <2> HIDE DEF a, b
  <2>1. << a >> \o << b >> = << a, b >>
    BY ONLY <1>5, <1>6, PairJoins
  <2> QED BY <2>1
<1> QED BY <1>2, <1>9, <1>10, <1>11 DEF o, z, w

-----------------------------------------------------------------------------
(* Blocks in chunks *)

\* The blocks of a call lie in its data.
Sound(c) ==
  /\ c.data \in Seq(Int) /\ c.offsets \in [Lanes -> Nat] /\ c.lengths \in [Lanes -> Nat]
  /\ \A b \in Lanes : c.offsets[b] + c.lengths[b] <= Len(c.data)

LEMMA CallsAreSound ==
  ASSUME NEW c \in HashCalls
  PROVE  Sound(c)
<1>1. /\ c \in HashArguments /\ c.data \in Seq(0 .. MaxByte)
      /\ \A b \in Lanes : c.offsets[b] + c.lengths[b] <= Len(c.data)
  BY CallsAssumption
<1>2. c.data \in Seq(Nat)
  BY <1>1 DEF HashArguments
<1>3. c.data \in Seq(Int)
  BY <1>2
<1> QED BY <1>1, <1>3 DEF HashArguments, Sound

LEMMA CallSound ==
  ASSUME phase # "idle", CallInv
  PROVE  Sound(call)
BY CallsAreSound DEF CallInv

OfBytes(b, p, n) == BytesOf(b, p, n) \in Seq(Int) /\ Len(BytesOf(b, p, n)) = n

\* The bytes of block b up to p, and those up to n.
BytesJoin(b, p, n) == BytesOf(b, 0, p) \o BytesOf(b, p, n - p) = BytesOf(b, 0, n)

LEMMA BytesOfBlock ==
  ASSUME Sound(call), NEW b \in Lanes, NEW p \in Nat, NEW n \in Nat, p + n <= call.lengths[b]
  PROVE  OfBytes(b, p, n)
<1> DEFINE d == call.data
           lo == call.offsets[b] + p
<1>1. d \in Seq(Int) /\ Len(d) \in Nat /\ lo \in Nat /\ lo + n <= Len(d)
  BY LenProperties DEF Sound
<1> HIDE DEF d, lo
<1>2. \A k \in (lo + 1) .. (lo + n) : d[k] \in Int
  BY <1>1, ElementOfSeq
<1>3. lo + 1 \in Int /\ lo + n \in Int /\ (lo + 1 <= lo + n <=> n # 0) /\ ((lo + n) - (lo + 1)) + 1 = n
  BY <1>1
<1>4. /\ SubSeq(d, lo + 1, lo + n) \in Seq(Int)
      /\ Len(SubSeq(d, lo + 1, lo + n)) =
           IF lo + 1 <= lo + n THEN ((lo + n) - (lo + 1)) + 1 ELSE 0
  BY ONLY <1>2, <1>3, SubSeqProperties, Zenon
<1>5. Len(SubSeq(d, lo + 1, lo + n)) = n
  BY <1>3, <1>4
<1> QED BY <1>4, <1>5 DEF OfBytes, BytesOf, d, lo

LEMMA BytesOfJoin ==
  ASSUME Sound(call), NEW b \in Lanes, NEW p \in Nat, NEW n \in Nat, p <= n, n <= call.lengths[b]
  PROVE  BytesJoin(b, p, n)
<1> DEFINE d == call.data
           from == call.offsets[b]
           lo == from + p
           hi == from + n
<1>1. d \in Seq(Int) /\ Len(d) \in Nat /\ from \in Nat /\ from + call.lengths[b] <= Len(d)
      /\ call.lengths[b] \in Nat
  BY LenProperties DEF Sound
<1>2. from + 1 \in 1 .. Len(d) + 1 /\ lo \in (from + 1) - 1 .. Len(d) /\ hi \in lo .. Len(d)
  <2> HIDE DEF d, from
  <2> QED BY <1>1
<1>3. /\ from + 0 + 1 = from + 1 /\ from + 0 + p = lo /\ from + 0 + n = hi
      /\ from + p + 1 = lo + 1 /\ from + p + (n - p) = hi
  <2> HIDE DEF from
  <2> QED BY <1>1
<1>4. SubSeq(d, from + 1, lo) \o SubSeq(d, lo + 1, hi) = SubSeq(d, from + 1, hi)
  <2> HIDE DEF d, from, lo, hi
  <2> QED BY ONLY <1>1, <1>2, ConcatAdjacentSubSeq, SMTT(30)
<1>5. /\ BytesOf(b, 0, p) = SubSeq(d, from + 1, lo) /\ BytesOf(b, p, n - p) = SubSeq(d, lo + 1, hi)
      /\ BytesOf(b, 0, n) = SubSeq(d, from + 1, hi)
  BY <1>3, Zenon DEF BytesOf
<1> QED BY <1>4, <1>5 DEF BytesJoin

\* The first k chunks of the block of lane b.
FirstChunks(b, k) == Chunked(BytesOf(b, 0, k * Chunk), k)

LEMMA FirstChunksType ==
  ASSUME Sound(call), NEW b \in Lanes, NEW k \in Nat, k * Chunk <= call.lengths[b]
  PROVE  IsChunks(BytesOf(b, 0, k * Chunk), k) /\ k * Chunk \in Nat
<1> DEFINE p == k * Chunk
<1>1. p \in Nat
  BY ChunkAssumption
<1> HIDE DEF p
<1>2. OfBytes(b, 0, p)
  <2>1. 0 + p <= call.lengths[b] /\ 0 \in Nat
    BY <1>1 DEF p
  <2> QED BY ONLY <1>1, <2>1, Sound(call), b \in Lanes, BytesOfBlock, Zenon
<1> QED BY <1>1, <1>2 DEF OfBytes, IsChunks, p

LEMMA NoChunks ==
  ASSUME NEW b
  PROVE  FirstChunks(b, 0) = << >>
BY DEF FirstChunks, Chunked

LEMMA FirstChunksNext ==
  ASSUME Sound(call), NEW b \in Lanes, NEW k \in Nat, (k * Chunk) + Chunk <= call.lengths[b]
  PROVE  /\ Append(FirstChunks(b, k), BytesOf(b, k * Chunk, Chunk)) = FirstChunks(b, k + 1)
         /\ (k + 1) * Chunk <= call.lengths[b]
<1> DEFINE p == k * Chunk
           n == p + Chunk
           head == BytesOf(b, 0, p)
           next == BytesOf(b, p, Chunk)
<1>1. p \in Nat /\ Chunk \in Nat /\ call.lengths[b] \in Nat /\ (k + 1) * Chunk = n
  BY ChunkAssumption DEF Sound
<1> HIDE DEF p
<1>2. n <= call.lengths[b] /\ p <= n /\ n \in Nat /\ n - p = Chunk /\ p <= call.lengths[b]
  BY <1>1 DEF p
<1> HIDE DEF n
<1>3. IsChunks(head, k)
  BY <1>2, FirstChunksType DEF p
<1>4. OfBytes(b, p, Chunk)
  BY <1>1, <1>2, BytesOfBlock DEF n
<1>5. BytesJoin(b, p, n)
  BY <1>1, <1>2, BytesOfJoin
<1>6. head \o next = BytesOf(b, 0, n)
  BY <1>2, <1>5 DEF BytesJoin
<1>7. next \in Seq(Int) /\ Len(next) = Chunk
  BY <1>4 DEF OfBytes
<1> HIDE DEF head, next
<1>8. Chunked(head \o next, k + 1) = Append(Chunked(head, k), next)
  BY ONLY <1>3, <1>7, ChunkedAppend, Zenon
<1>9. FirstChunks(b, k) = Chunked(head, k) /\ FirstChunks(b, k + 1) = Chunked(head \o next, k + 1)
  BY <1>1, <1>6 DEF FirstChunks, head, p
<1> QED BY <1>1, <1>2, <1>8, <1>9 DEF next, p

\* A block's chunks and its padded tail are its digest.
LEMMA FirstChunksEnd ==
  ASSUME Sound(call), NEW b \in Lanes, NEW k \in Nat, NEW n, n = call.lengths[b],
         k * Chunk <= n, (k * Chunk) + Chunk > n
  PROVE  /\ BytesOf(b, k * Chunk, n - k * Chunk) \in Seq(Int)
         /\ Len(BytesOf(b, k * Chunk, n - k * Chunk)) = n - k * Chunk
         /\ n - k * Chunk \in 0 .. Chunk - 1
         /\ FirstChunks(b, k) \o Padded(BytesOf(b, k * Chunk, n - k * Chunk), n)
              = MD5(BytesOf(b, 0, n))
<1> DEFINE p == k * Chunk
           t == n - p
           head == BytesOf(b, 0, p)
           tail == BytesOf(b, p, t)
<1>1. p \in Nat /\ Chunk \in Nat /\ n \in Nat
  BY ChunkAssumption DEF Sound
<1>2. p <= n /\ p + Chunk > n
  OBVIOUS
<1>3. IsChunks(head, k)
  BY FirstChunksType
<1> HIDE DEF p
<1>4. t \in 0 .. Chunk - 1 /\ t \in Nat /\ p + t <= call.lengths[b] /\ n = p + t
  BY <1>1, <1>2
<1> HIDE DEF t
<1>5. OfBytes(b, p, t)
  BY ONLY <1>1, <1>4, Sound(call), b \in Lanes, BytesOfBlock, Zenon
<1>6. BytesJoin(b, p, n)
  BY <1>1, <1>2, BytesOfJoin
<1>7. head \o tail = BytesOf(b, 0, n)
  BY <1>6 DEF BytesJoin, t
<1>8. tail \in Seq(Int) /\ Len(tail) = t
  BY <1>5 DEF OfBytes
<1> HIDE DEF head, tail
<1>9. MD5(head \o tail) = Chunked(head, k) \o Padded(tail, n)
  <2>1. n = (k * Chunk) + t
    BY <1>4 DEF p
  <2>2. EndsAsPadded(head, k, tail, n)
    BY ONLY <1>3, <1>4, <1>8, <2>1, DigestIs, Zenon
  <2> QED BY <2>2 DEF EndsAsPadded
<1>10. FirstChunks(b, k) = Chunked(head, k)
  BY DEF FirstChunks, head, p
<1> QED BY <1>4, <1>7, <1>8, <1>9, <1>10 DEF tail, t, p

-----------------------------------------------------------------------------
(* A call of the hash *)

\* Of the call c: the fewest whole chunks a block has, the first k chunks of the
\* block of lane b, its digest, whether this loses half of its length, and its
\* weak checksum.
LeastOf(c) == Min({c.lengths[b] \div Chunk : b \in Lanes})

Held(c, b, k) ==
  Chunked(SubSeq(c.data, c.offsets[b] + 0 + 1, c.offsets[b] + 0 + k * Chunk), k)

DigestOf(c, b) == MD5(SubSeq(c.data, c.offsets[b] + 0 + 1, c.offsets[b] + 0 + c.lengths[b]))

Cuts(c, b) ==
  /\ c.inStep
  /\ \A a \in Lanes : /\ c.lengths[a] - LeastOf(c) * Chunk = c.lengths[1] - LeastOf(c) * Chunk
                      /\ c.lengths[a] - LeastOf(c) * Chunk \in 1 .. Chunk - 1
  /\ ~ Fits(c.lengths[b] - LeastOf(c) * Chunk)
  /\ c.lengths[b] * BitsOf >= Half

WeakOf(c, b) ==
  Checksum1(SubSeq(c.data, c.offsets[b] + 0 + 1, c.offsets[b] + 0 + c.lengths[b]))

\* The states st hold the first k chunks of every block.
InCommon(c, st, k) == \A b \in Lanes : st[b] = Held(c, b, k)

\* With l lanes finished, o holds their digests, st the first chunks of the
\* others, of the next as many as p bytes make.
LanesHold(c, st, o, l, p) ==
  /\ \A b \in Lanes : b <= l => o[b] = DigestOf(c, b)
  /\ \A b \in Lanes : b > l + 1 => st[b] = Held(c, b, LeastOf(c))
  /\ l < Cardinality(Lanes) =>
       \E k \in Nat : /\ p = k * Chunk /\ p <= c.lengths[l + 1]
                      /\ st[l + 1] = Held(c, l + 1, k)

AllHashed(c, o) == \A b \in Lanes : Cuts(c, b) \/ o[b] = DigestOf(c, b)

HashInv ==
  /\ phase \in {"idle", "common", "lanes", "hashed"}
  /\ DOMAIN state = Lanes /\ DOMAIN out = Lanes
  /\ phase = "idle" => chunks = 0 /\ lane = 0 /\ state = NoDigests
  /\ phase = "common" => /\ chunks \in 0 .. LeastOf(call) /\ lane = 0
                         /\ InCommon(call, state, chunks)
  /\ phase = "lanes" => /\ lane \in 0 .. Cardinality(Lanes)
                        /\ LanesHold(call, state, out, lane, processed)
  /\ phase = "hashed" => AllHashed(call, out)

LEMMA OfThisCall ==
  /\ Common = LeastOf(call)
  /\ \A b \in Lanes : /\ DigestOf(call, b) = MD5(BytesOf(b, 0, call.lengths[b]))
                      /\ WeakOf(call, b) = Checksum1(BytesOf(b, 0, call.lengths[b]))
                      /\ LengthCut(b) <=> Cuts(call, b)
  /\ \A b, k : FirstChunks(b, k) = Held(call, b, k)
<1>1. Common = LeastOf(call)
  BY DEF Common, LeastOf
<1>2. ASSUME NEW b \in Lanes
      PROVE  LengthCut(b) <=> Cuts(call, b)
  BY <1>1 DEF LengthCut, Cuts, SameTail, Left
<1>3. ASSUME NEW b, NEW k
      PROVE  FirstChunks(b, k) = Held(call, b, k)
  BY DEF FirstChunks, BytesOf, Held
<1>4. ASSUME NEW b \in Lanes
      PROVE  /\ DigestOf(call, b) = MD5(BytesOf(b, 0, call.lengths[b]))
             /\ WeakOf(call, b) = Checksum1(BytesOf(b, 0, call.lengths[b]))
  BY DEF DigestOf, WeakOf, BytesOf
<1> QED BY <1>1, <1>2, <1>3, <1>4

LEMMA LanesAre ==
  /\ Cardinality(Lanes) \in Nat \ {0} /\ Lanes = 1 .. Cardinality(Lanes)
  /\ \A b \in Lanes : b \in Nat \ {0}
<1>1. Cardinality(Lanes) \in Nat /\ Lanes = 1 .. Cardinality(Lanes) /\ Lanes # {}
  BY LanesAssumption, FS_CardinalityType
<1> QED BY <1>1

\* Every block has the chunks in common.
LEMMA CommonFits ==
  ASSUME NEW c, Sound(c)
  PROVE  LeastOf(c) \in Nat /\ \A b \in Lanes : LeastOf(c) * Chunk <= c.lengths[b]
<1> DEFINE S == {c.lengths[b] \div Chunk : b \in Lanes}
<1>1. \A b \in Lanes : c.lengths[b] \in Nat
  BY DEF Sound
<1>2. Chunk \in Nat \ {0}
  BY ChunkAssumption
<1>3. \A b \in Lanes : /\ c.lengths[b] \div Chunk \in Nat
                       /\ Chunk * (c.lengths[b] \div Chunk) <= c.lengths[b]
  BY <1>1, <1>2, Division
<1>4. S \subseteq Nat /\ S # {}
  BY <1>3, LanesAre
<1>5. \E m \in S : \A n \in S : m <= n
  <2> HIDE DEF S
  <2> QED BY <1>4, LeastElement
<1>6. Min(S) \in S /\ \A n \in S : Min(S) <= n
  <2> HIDE DEF S
  <2> QED BY <1>5 DEF Min
<1>7. LeastOf(c) = Min(S)
  BY DEF LeastOf
<1>8. LeastOf(c) \in Nat /\ \A b \in Lanes : LeastOf(c) <= c.lengths[b] \div Chunk
  BY <1>4, <1>6, <1>7
<1>9. ASSUME NEW b \in Lanes
      PROVE  LeastOf(c) * Chunk <= c.lengths[b]
  <2> DEFINE m == LeastOf(c)
             q == c.lengths[b] \div Chunk
  <2>1. m \in Nat /\ q \in Nat /\ m <= q /\ Chunk * q <= c.lengths[b] /\ c.lengths[b] \in Nat
    BY <1>1, <1>3, <1>8
  <2> HIDE DEF m, q
  <2>2. m * Chunk <= q * Chunk /\ q * Chunk = Chunk * q /\ m * Chunk \in Nat
    BY <1>2, <2>1, ProductMonotone
  <2>3. m * Chunk <= c.lengths[b]
    BY <1>2, <2>1, <2>2
  <2> QED BY <2>3 DEF m
<1> QED BY <1>8, <1>9

-----------------------------------------------------------------------------
(* One step of the hash *)

LEMMA CallHashStep ==
  ASSUME HashInv, NEW c, CallHash(c), Sound(c)
  PROVE  HashInv'
<1>1. /\ phase = "idle" /\ phase' = "common" /\ call' = c
      /\ UNCHANGED << chunks, lane, processed, state, out >>
  BY DEF CallHash
<1>2. LeastOf(c) \in Nat
  BY CommonFits
<1>3. InCommon(c, NoDigests, 0)
  BY DEF InCommon, Held, Chunked, NoDigests
<1>4. /\ phase' = "common" /\ DOMAIN state' = Lanes /\ DOMAIN out' = Lanes
      /\ chunks' = 0 /\ lane' = 0 /\ state' = NoDigests /\ 0 \in 0 .. LeastOf(c)
  BY <1>1, <1>2 DEF HashInv
<1> QED BY <1>1, <1>3, <1>4 DEF HashInv

LEMMA FoldCommonStep ==
  ASSUME HashInv, Sound(call), FoldCommon
  PROVE  HashInv'
<1>1. /\ phase = "common" /\ chunks < Common /\ chunks' = chunks + 1
      /\ state' = [b \in Lanes |-> Append(state[b], Gathered[b])]
      /\ UNCHANGED << phase, call, lane, processed, out >>
  BY DEF FoldCommon
<1>2. /\ chunks \in Nat /\ chunks + 1 \in 0 .. LeastOf(call) /\ InCommon(call, state, chunks)
      /\ lane = 0 /\ DOMAIN out = Lanes
  <2>1. LeastOf(call) \in Nat
    BY CommonFits
  <2>2. chunks \in 0 .. LeastOf(call) /\ chunks < LeastOf(call)
    BY <1>1, OfThisCall DEF HashInv
  <2> QED BY <1>1, <2>1, <2>2 DEF HashInv
<1>3. ASSUME NEW b \in Lanes
      PROVE  state'[b] = Held(call, b, chunks + 1)
  <2>1. (chunks * Chunk) + Chunk <= call.lengths[b]
    <3> DEFINE m == LeastOf(call)
               n == chunks + 1
    <3>1. m * Chunk <= call.lengths[b] /\ m \in Nat /\ call.lengths[b] \in Nat /\ Chunk \in Nat
      BY CommonFits, ChunkAssumption DEF Sound
    <3>2. n \in Nat /\ n <= m
      BY <1>2, <3>1
    <3>3. n * Chunk = (chunks * Chunk) + Chunk /\ chunks * Chunk \in Nat
      BY <1>2, <3>1
    <3> HIDE DEF m, n
    <3>4. n * Chunk <= m * Chunk /\ m * Chunk \in Nat /\ n * Chunk \in Nat
      BY <3>1, <3>2, ProductMonotone
    <3> QED BY <3>1, <3>3, <3>4
  <2>2. Append(FirstChunks(b, chunks), BytesOf(b, chunks * Chunk, Chunk)) = FirstChunks(b, chunks + 1)
    BY <1>2, <2>1, FirstChunksNext
  <2>3. state'[b] = Append(state[b], BytesOf(b, chunks * Chunk, Chunk))
    BY <1>1 DEF Gathered
  <2>4. state[b] = FirstChunks(b, chunks) /\ FirstChunks(b, chunks + 1) = Held(call, b, chunks + 1)
    BY <1>2, OfThisCall DEF InCommon
  <2> QED BY <2>2, <2>3, <2>4
<1>4. InCommon(call, state', chunks + 1) /\ DOMAIN state' = Lanes
  BY <1>1, <1>3 DEF InCommon
<1> QED BY <1>1, <1>2, <1>4 DEF HashInv

LEMMA FinishInStepStep ==
  ASSUME HashInv, Sound(call), FinishInStep
  PROVE  HashInv'
<1>1. /\ phase = "common" /\ chunks = Common /\ call.inStep /\ SameTail
      /\ state' = [b \in Lanes |-> state[b] \o InStep(b)] /\ out' = state'
      /\ phase' = "hashed" /\ call' = call
  BY DEF FinishInStep
<1>2. InCommon(call, state, LeastOf(call)) /\ LeastOf(call) \in Nat /\ Common = LeastOf(call)
  BY <1>1, OfThisCall, CommonFits DEF HashInv
<1>3. ASSUME NEW b \in Lanes, ~ Cuts(call, b)
      PROVE  out'[b] = DigestOf(call, b)
  <2> DEFINE k == Common
             p == k * Chunk
             n == call.lengths[b]
             tail == BytesOf(b, p, n - p)
  <2>1. k \in Nat /\ p <= n /\ n \in Nat /\ p \in Nat /\ Chunk \in Nat
    <3>1. Chunk \in Nat /\ n \in Nat
      BY ChunkAssumption DEF Sound
    <3>2. k \in Nat /\ p <= n
      BY <1>2, CommonFits
    <3>3. p \in Nat
      BY <3>1, <3>2
    <3> QED BY <3>1, <3>2, <3>3
  <2>2. Left(b) = n - p /\ n - p \in 1 .. Chunk - 1
    BY <1>1 DEF Left, SameTail
  <2> HIDE DEF k, p, n
  <2>3. p + Chunk > n
    BY <2>1, <2>2
  <2>4. /\ tail \in Seq(Int) /\ Len(tail) = n - p /\ n - p \in 0 .. Chunk - 1
        /\ FirstChunks(b, k) \o Padded(tail, n) = MD5(BytesOf(b, 0, n))
    BY <2>1, <2>3, FirstChunksEnd DEF n, p
  <2>5. out'[b] = FirstChunks(b, k) \o InStep(b)
    BY <1>1, <1>2, OfThisCall DEF InCommon, k
  <2>6. InStep(b) = Padded(tail, n)
    <3>1. CASE Fits(n - p)
      BY <2>2, <3>1 DEF InStep, n, p, k
    <3>2. CASE ~ Fits(n - p)
      <4>1. ~ (n * BitsOf >= Half)
        BY <1>1, <1>3, <2>2, <3>2, OfThisCall DEF LengthCut, n
      <4>2. n * BitsOf < Half
        <5>1. n * BitsOf \in Nat /\ Half \in Nat
          BY <2>1, ChunkAssumption
        <5> QED BY <4>1, <5>1
      <4> DEFINE t == n - p
      <4>3. Padded(tail, n) = << tail \o << Mark >> \o ZeroBytes(Chunk - t - 1),
                                 ZeroBytes(LengthAt) \o << LengthWords(n)[1], 0 >> >>
        <5> HIDE DEF tail, t
        <5> QED BY <2>1, <2>4, <3>2, <4>2, InStepPads DEF t
      <4> QED BY <2>2, <3>2, <4>3 DEF InStep, n, p, k
    <3> QED BY <3>1, <3>2
  <2>7. DigestOf(call, b) = MD5(BytesOf(b, 0, n))
    BY OfThisCall DEF n
  <2> QED BY <2>4, <2>5, <2>6, <2>7
<1>4. AllHashed(call, out')
  BY <1>3 DEF AllHashed
<1> QED BY <1>1, <1>4 DEF HashInv

LEMMA FinishLanesStep ==
  ASSUME HashInv, Sound(call), FinishLanes
  PROVE  HashInv'
<1>1. /\ phase = "common" /\ chunks = Common /\ phase' = "lanes" /\ processed' = Common * Chunk
      /\ UNCHANGED << call, chunks, lane, state, out >>
  BY DEF FinishLanes
<1>2. /\ InCommon(call, state, LeastOf(call)) /\ LeastOf(call) \in Nat /\ Common = LeastOf(call)
      /\ \A b \in Lanes : LeastOf(call) * Chunk <= call.lengths[b]
      /\ lane = 0 /\ DOMAIN state = Lanes /\ DOMAIN out = Lanes
  BY <1>1, OfThisCall, CommonFits DEF HashInv
<1>3. 1 \in Lanes /\ 0 \in 0 .. Cardinality(Lanes)
  BY LanesAre
<1>4. LanesHold(call, state, out, 0, Common * Chunk)
  <2>1. \A b \in Lanes : ~ (b <= 0)
    BY LanesAre
  <2> QED BY <1>2, <1>3, <2>1 DEF LanesHold, InCommon
<1> QED BY <1>1, <1>2, <1>3, <1>4 DEF HashInv

LEMMA FoldOwnStep ==
  ASSUME HashInv, Sound(call), FoldOwn
  PROVE  HashInv'
<1> DEFINE b == lane + 1
<1>1. /\ phase = "lanes" /\ lane < Cardinality(Lanes) /\ processed + Chunk <= call.lengths[b]
      /\ state' = [state EXCEPT ![b] = Append(@, BytesOf(b, processed, Chunk))]
      /\ processed' = processed + Chunk
      /\ UNCHANGED << phase, call, chunks, lane, out >>
  BY DEF FoldOwn
<1>2. lane \in 0 .. Cardinality(Lanes) /\ LanesHold(call, state, out, lane, processed)
  BY <1>1 DEF HashInv
<1>3. b \in Lanes
  BY <1>1, <1>2, LanesAre
<1>4. PICK k \in Nat : /\ processed = k * Chunk /\ processed <= call.lengths[b]
                       /\ state[b] = Held(call, b, k)
  BY <1>1, <1>2 DEF LanesHold
<1>5. /\ Append(FirstChunks(b, k), BytesOf(b, k * Chunk, Chunk)) = FirstChunks(b, k + 1)
      /\ (k + 1) * Chunk <= call.lengths[b]
  <2> HIDE DEF b
  <2> QED BY <1>1, <1>3, <1>4, FirstChunksNext
<1>6. state'[b] = Held(call, b, k + 1)
  BY <1>1, <1>3, <1>4, <1>5, OfThisCall DEF HashInv
<1>7. processed + Chunk = (k + 1) * Chunk
  BY <1>4, ChunkAssumption
<1>8. \A a \in Lanes : a > lane + 1 => state'[a] = state[a]
  BY <1>1, <1>3 DEF HashInv
<1>9. LanesHold(call, state', out, lane, processed + Chunk)
  <2>1. k + 1 \in Nat
    OBVIOUS
  <2>2. \E m \in Nat : /\ processed + Chunk = m * Chunk /\ processed + Chunk <= call.lengths[lane + 1]
                       /\ state'[lane + 1] = Held(call, lane + 1, m)
    BY <1>5, <1>6, <1>7, <2>1
  <2> QED BY <1>2, <1>8, <2>2 DEF LanesHold
<1>10. DOMAIN state' = Lanes /\ DOMAIN out' = Lanes
  BY <1>1 DEF HashInv
<1> QED BY <1>1, <1>2, <1>9, <1>10 DEF HashInv

LEMMA FinishLaneStep ==
  ASSUME HashInv, Sound(call), FinishLane
  PROVE  HashInv'
<1> DEFINE b == lane + 1
           n == call.lengths[b]
<1>1. /\ phase = "lanes" /\ lane < Cardinality(Lanes) /\ processed + Chunk > n
      /\ out' = [out EXCEPT ![b] = state[b] \o Padded(BytesOf(b, processed, n - processed), n)]
      /\ lane' = b /\ processed' = Common * Chunk
      /\ UNCHANGED << phase, call, chunks, state >>
  BY DEF FinishLane
<1>2. lane \in 0 .. Cardinality(Lanes) /\ LanesHold(call, state, out, lane, processed)
  BY <1>1 DEF HashInv
<1>3. b \in Lanes /\ b \in 0 .. Cardinality(Lanes)
  BY <1>1, <1>2, LanesAre
<1>4. PICK k \in Nat : processed = k * Chunk /\ processed <= n /\ state[b] = Held(call, b, k)
  BY <1>1, <1>2 DEF LanesHold
<1>5. out'[b] = DigestOf(call, b)
  <2>1. FirstChunks(b, k) \o Padded(BytesOf(b, k * Chunk, n - k * Chunk), n) = MD5(BytesOf(b, 0, n))
    <3> HIDE DEF b, n
    <3> QED BY <1>1, <1>3, <1>4, FirstChunksEnd DEF n
  <2>2. out'[b] = state[b] \o Padded(BytesOf(b, processed, n - processed), n)
    BY <1>1, <1>3 DEF HashInv
  <2> QED BY <1>3, <1>4, <2>1, <2>2, OfThisCall
<1>6. \A a \in Lanes : a <= b => out'[a] = DigestOf(call, a)
  <2>1. ASSUME NEW a \in Lanes, a <= b, a # b
        PROVE  out'[a] = DigestOf(call, a)
    <3>1. a <= lane
      BY <1>2, <2>1, LanesAre
    <3>2. out'[a] = out[a]
      BY <1>1, <2>1 DEF HashInv
    <3> QED BY <1>2, <3>1, <3>2 DEF LanesHold
  <2> QED BY <1>5, <2>1
<1>7. ASSUME NEW a \in Lanes, a > b
      PROVE  state'[a] = Held(call, a, LeastOf(call))
  <2>1. a > lane + 1
    BY <1>7
  <2> QED BY <1>1, <1>2, <2>1 DEF LanesHold
<1>8. /\ Common = LeastOf(call) /\ LeastOf(call) \in Nat
      /\ \A a \in Lanes : LeastOf(call) * Chunk <= call.lengths[a]
  BY OfThisCall, CommonFits
<1>9. b < Cardinality(Lanes) => b + 1 \in Lanes /\ b + 1 > b
  BY <1>3, LanesAre
<1>10. \A a \in Lanes : a > b + 1 => a > b
  BY <1>3, LanesAre
<1> HIDE DEF b
<1>11. LanesHold(call, state', out', b, Common * Chunk)
  BY <1>6, <1>7, <1>8, <1>9, <1>10 DEF LanesHold
<1>12. DOMAIN state' = Lanes /\ DOMAIN out' = Lanes
  BY <1>1 DEF HashInv
<1> QED BY <1>1, <1>3, <1>11, <1>12 DEF HashInv

LEMMA LanesFinishedStep ==
  ASSUME HashInv, LanesFinished
  PROVE  HashInv'
<1>1. /\ phase = "lanes" /\ lane = Cardinality(Lanes) /\ phase' = "hashed"
      /\ UNCHANGED << call, chunks, lane, processed, state, out >>
  BY DEF LanesFinished
<1>2. AllHashed(call, out)
  <2>1. \A b \in Lanes : b <= lane
    BY <1>1, LanesAre
  <2> QED BY <1>1, <2>1 DEF HashInv, LanesHold, AllHashed
<1> QED BY <1>1, <1>2 DEF HashInv

LEMMA HashStep ==
  ASSUME HashInv, Sound(call), Hash
  PROVE  HashInv'
BY FoldCommonStep, FinishInStepStep, FinishLanesStep, FoldOwnStep, FinishLaneStep,
   LanesFinishedStep DEF Hash

-----------------------------------------------------------------------------
(* Digests and checksums of a batch *)

\* d is block b of the batch that c hashes.
InBatch(c, d, b) ==
  /\ b \in Lanes
  /\ c.lengths[b] = c.lengths[1] /\ c.offsets[b] = (b - 1) * c.lengths[1]
  /\ d = SubSeq(c.data, (b - 1) * c.lengths[1] + 1, b * c.lengths[1])

\* The checksums kept are those of the first blocks, the one at hand is of the next.
SumsInv ==
  /\ phase # "hashed" => sums = << >>
  /\ \A k \in 1 .. Len(sums) : sums[k] = WeakOf(call, k)
  /\ phase \notin {"idle", "hashed"} => pc = "idle"
  /\ phase = "hashed" /\ pc # "idle" => InBatch(call, data, Len(sums) + 1)

LEMMA WeakOfBatch ==
  ASSUME Sound(call), NEW d, NEW b, InBatch(call, d, b)
  PROVE  Checksum1(d) = WeakOf(call, b)
<1> DEFINE size == call.lengths[1]
           lo == (b - 1) * size
           hi == b * size
<1>1. b \in Lanes /\ b \in Nat \ {0} /\ 1 \in Lanes
  BY LanesAre DEF InBatch
<1>2. size \in Nat
  BY <1>1 DEF Sound
<1> HIDE DEF size
<1>3. lo \in Nat /\ hi = lo + size
  BY <1>1, <1>2
<1>4. call.offsets[b] = lo /\ call.lengths[b] = size /\ d = SubSeq(call.data, lo + 1, hi)
  BY DEF InBatch, size
<1> HIDE DEF lo, hi
<1>5. lo + 0 + 1 = lo + 1 /\ lo + 0 + size = hi
  BY <1>2, <1>3
<1> QED BY <1>4, <1>5 DEF WeakOf

LEMMA SumsTurn ==
  ASSUME Sums
  PROVE  data' = data /\ pc # "idle" /\ pc' # "idle"
BY DEF Sums, CallKernel, TakeBlock, LanesEnd, TakeRest, KernelReturns, CallBatches, LargeLoop,
       SmallLoop, TakeBatches, BatchesEnd, TakeByte, Return

LEMMA KeepSumStep ==
  ASSUME ChecksumInv, CallInv, SumsInv, KeepSum
  PROVE  SumsInv'
<1> DEFINE n == Len(sums)
<1>1. /\ phase = "hashed" /\ pc = "returned" /\ sums' = Append(sums, Packed) /\ pc' = "idle"
      /\ phase' = phase /\ call' = call
  BY DEF KeepSum, hashVars
<1>2. Sound(call)
  BY <1>1, CallSound
<1>3. Packed = WeakOf(call, n + 1)
  <2>1. Packed = Checksum1(SubSeq(data, 1, i)) /\ i = Len(data)
    BY <1>1, PackedAgrees DEF ChecksumAgrees
  <2>2. SubSeq(data, 1, Len(data)) = data
    BY SubSeqFull DEF ChecksumInv, Bytes
  <2>3. Checksum1(data) = WeakOf(call, n + 1)
    <3>1. InBatch(call, data, n + 1)
      BY <1>1 DEF SumsInv
    <3> QED BY ONLY <1>2, <3>1, WeakOfBatch, Zenon
  <2> QED BY <2>1, <2>2, <2>3
<1>4. sums \in Seq(Int) /\ n \in Nat
  BY LenProperties DEF CallInv
<1>5. Packed \in Int
  BY <1>1, PackedIsNumber
<1>6. /\ Len(sums') = n + 1 /\ \A k \in 1 .. n : sums'[k] = sums[k]
      /\ sums'[n + 1] = Packed
  BY <1>1, <1>4, <1>5, AppendProperties
<1>7. \A k \in 1 .. Len(sums') : sums'[k] = WeakOf(call', k)
  <2>1. ASSUME NEW k \in 1 .. n + 1
        PROVE  sums'[k] = WeakOf(call, k)
    <3>1. CASE k = n + 1
      BY <1>3, <1>6, <3>1
    <3>2. CASE k \in 1 .. n
      BY <1>6, <3>2 DEF SumsInv
    <3> QED BY <1>4, <3>1, <3>2
  <2> QED BY <1>1, <1>6, <2>1
<1> QED BY <1>1, <1>7 DEF SumsInv

LEMMA DigestsStep ==
  ASSUME ChecksumInv, CallInv, HashInv, SumsInv, [BlockSumsNext]_allVars
  PROVE  HashInv' /\ SumsInv'
<1>1. ASSUME UNCHANGED hashVars
      PROVE  HashInv'
  BY <1>1 DEF HashInv, hashVars
<1>2. CASE AskSum
  <2>1. phase = "idle" /\ UNCHANGED << hashVars, sums >>
    BY <1>2 DEF AskSum, Untouched
  <2>2. phase' = "idle" /\ sums' = sums /\ call' = call
    BY <2>1 DEF hashVars
  <2> QED BY <1>1, <2>1, <2>2 DEF SumsInv
<1>3. CASE AskHash
  <2>1. PICK c \in HashCalls : CallHash(c) /\ UNCHANGED << vars, sums >>
    BY <1>3 DEF AskHash
  <2>2. phase = "idle" /\ pc = "idle" /\ phase' = "common" /\ call' = c /\ pc' = pc /\ sums' = sums
    BY <1>3, <2>1 DEF AskHash, Untouched, CallHash, vars
  <2>3. Sound(c)
    BY <2>1, CallsAreSound
  <2>4. HashInv'
    BY <2>1, <2>3, CallHashStep
  <2> QED BY <2>2, <2>4 DEF SumsInv
<1>4. CASE Sums /\ UNCHANGED << hashVars, sums >>
  <2>1. data' = data /\ pc # "idle" /\ pc' # "idle"
    BY <1>4, SumsTurn
  <2>2. phase' = phase /\ sums' = sums /\ call' = call
    BY <1>4 DEF hashVars
  <2> QED BY <1>1, <1>4, <2>1, <2>2 DEF SumsInv
<1>5. CASE Hash /\ UNCHANGED << vars, sums >>
  <2>1. phase \in {"common", "lanes"} /\ phase' # "idle" /\ call' = call
    BY <1>5 DEF Hash, FoldCommon, FinishInStep, FinishLanes, FoldOwn, FinishLane, LanesFinished
  <2>2. pc' = pc /\ data' = data /\ sums' = sums
    BY <1>5 DEF vars
  <2>3. HashInv'
    BY <1>5, <2>1, CallSound, HashStep
  <2> QED BY <2>1, <2>2, <2>3 DEF SumsInv
<1>6. CASE SumBlock
  <2>1. /\ phase = "hashed" /\ IsBatch /\ Len(sums) < Cardinality(Lanes)
        /\ data' = BlockOf(Len(sums) + 1) /\ UNCHANGED << hashVars, sums >>
    BY <1>6 DEF SumBlock, Call
  <2>2. phase' = phase /\ sums' = sums /\ call' = call
    BY <2>1 DEF hashVars
  <2>3. Len(sums) + 1 \in Lanes
    <3>1. Len(sums) \in Nat
      BY LenProperties DEF CallInv
    <3> QED BY <2>1, <3>1, LanesAre
  <2>4. InBatch(call, data', Len(sums) + 1)
    BY <2>1, <2>3 DEF InBatch, IsBatch, BlockOf
  <2> QED BY <1>1, <2>1, <2>2, <2>4 DEF SumsInv
<1>7. CASE KeepSum
  <2>1. UNCHANGED hashVars
    BY <1>7 DEF KeepSum
  <2> QED BY <1>1, <1>7, <2>1, KeepSumStep
<1>8. CASE Done \/ UNCHANGED allVars
  <2>1. UNCHANGED allVars
    BY <1>8 DEF Done
  <2>2. UNCHANGED << pc, data, phase, call, sums >> /\ UNCHANGED hashVars
    BY <2>1 DEF allVars, vars, hashVars
  <2> QED BY <1>1, <2>2 DEF SumsInv
<1> QED BY <1>2, <1>3, <1>4, <1>5, <1>6, <1>7, <1>8 DEF BlockSumsNext

LEMMA DigestsBegin == BlockSumsInit => HashInv /\ SumsInv
<1> SUFFICES ASSUME BlockSumsInit PROVE HashInv /\ SumsInv
  OBVIOUS
<1>1. /\ phase = "idle" /\ chunks = 0 /\ lane = 0 /\ state = NoDigests /\ out = NoDigests
      /\ sums = << >>
  BY DEF BlockSumsInit, HashInit
<1>2. DOMAIN NoDigests = Lanes /\ Len(<< >>) = 0
  BY DEF NoDigests
<1>3. 1 .. Len(sums) = {}
  BY <1>1, <1>2
<1> QED BY <1>1, <1>2, <1>3 DEF HashInv, SumsInv

LEMMA DigestsAre ==
  ASSUME CallInv, HashInv, SumsInv
  PROVE  DigestsAgree
<1> SUFFICES ASSUME phase = "hashed", NEW b \in Lanes
             PROVE  /\ LengthCut(b) \/ out[b] = MD5(BytesOf(b, 0, call.lengths[b]))
                    /\ b <= Len(sums) => sums[b] = Checksum1(BytesOf(b, 0, call.lengths[b]))
  BY DEF DigestsAgree
<1>1. Cuts(call, b) \/ out[b] = DigestOf(call, b)
  BY DEF HashInv, AllHashed
<1>2. b <= Len(sums) => sums[b] = WeakOf(call, b)
  <2>1. b \in Nat \ {0} /\ Len(sums) \in Nat
    BY LanesAre, LenProperties DEF CallInv
  <2> QED BY <2>1 DEF SumsInv
<1> QED BY <1>1, <1>2, OfThisCall

\* Every lane gives its block the MD5 the block has by itself, padding and length
\* included, whether the tails are finished in step or lane by lane, and Sum1
\* beside it is of the same bytes: for any number of lanes, any lengths and
\* places of the blocks, and chunks of any size.
THEOREM LanesGiveDigests == BlockSumsSpec => []DigestsAgree
<1>1. ChecksumInv /\ CallInv /\ HashInv /\ SumsInv /\ [BlockSumsNext]_allVars
        => ChecksumInv' /\ CallInv' /\ HashInv' /\ SumsInv'
  BY ChecksumStep, DigestsStep
<1>2. CallInv /\ HashInv /\ SumsInv => DigestsAgree
  BY DigestsAre
<1> QED BY <1>1, <1>2, ChecksumBegins, DigestsBegin, PTL DEF BlockSumsSpec

-----------------------------------------------------------------------------
(* All parts together *)

LEMMA PartsStep ==
  ASSUME [PrimitivesNext]_primitiveVars
  PROVE  [BlockSumsNext]_allVars /\ [CoreNext]_coreVars /\ [Grow]_sizeVars
<1>1. CASE BlockSumsNext /\ UNCHANGED << coreVars, sizeVars >>
  BY <1>1
<1>2. CASE /\ \/ \E u \in Units, s \in Seeds : \E n \in 0 .. LanesOf(u) - 1 : BeginBlock(u, n, s)
              \/ \E buf \in Buffers : Enter(buf)
              \/ CoreStep
           /\ UNCHANGED << allVars, sizeVars >>
  <2>1. CoreNext
    BY <1>2, PrimitivesAssumption DEF CoreNext
  <2> QED BY <1>2, <2>1
<1>3. CASE Grow /\ UNCHANGED << allVars, coreVars >>
  BY <1>3
<1>4. CASE UNCHANGED primitiveVars
  BY <1>4 DEF primitiveVars
<1> QED BY <1>1, <1>2, <1>3, <1>4 DEF PrimitivesNext, Primitive, PrimitivesDone

\* A signature's parts are called without regard to each other: what is proved of
\* each by itself holds of all together.
THEOREM EachByItself == PrimitivesSpec => BlockSumsSpec /\ CoreSpec /\ SizesSpec
<1>1. PrimitivesInit => BlockSumsInit /\ CoreInit /\ SizesInit
  BY DEF PrimitivesInit
<1>2. [PrimitivesNext]_primitiveVars
        => [BlockSumsNext]_allVars /\ [CoreNext]_coreVars /\ [Grow]_sizeVars
  BY PartsStep
<1> QED BY <1>1, <1>2, PTL DEF PrimitivesSpec, BlockSumsSpec, CoreSpec, SizesSpec
=============================================================================
