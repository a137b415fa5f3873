----------------------------- MODULE SessionProofs -----------------------------
(***************************************************************************)
(* Theorems about Session: a signature that is accepted is the one that    *)
(* was sent, none that fits is rejected, what a receiver writes out is a   *)
(* prefix of the new file, and all of it when no error is returned,        *)
(* wherever either connection breaks, for every basis, source, chunk and   *)
(* block size, worker count and way to cut the instructions into batches.  *)
(*                                                                         *)
(* The invariants say what is still ahead on a connection: the rest of a   *)
(* field, the fields of what is left of the message, and the next message. *)
(***************************************************************************)
EXTENDS Session, BlocksProofs

-----------------------------------------------------------------------------
(* Reading a stream *)

Ahead(s, p) == Slice(s, p, Len(s))
Begins(w, s) == Len(w) <= Len(s) /\ \A k \in 1 .. Len(w) : w[k] = s[k]

LEMMA AheadOfAll ==
  ASSUME NEW S, NEW s \in Seq(S)
  PROVE  Ahead(s, 0) = s
BY SubSeqFull DEF Ahead, Slice

LEMMA AheadType ==
  ASSUME NEW S, NEW s \in Seq(S), NEW p \in Nat, p <= Len(s)
  PROVE  /\ Ahead(s, p) \in Seq(S) /\ Len(Ahead(s, p)) = Len(s) - p
         /\ \A k \in 1 .. Len(s) - p : Ahead(s, p)[k] = s[p + k]
<1> DEFINE n == Len(s)
<1>1. n \in Nat /\ s \in Seq(S) /\ p \in Nat /\ p <= n /\ n <= Len(s)
  BY LenProperties
<1> HIDE DEF n
<1>2. /\ Slice(s, p, n) \in Seq(S) /\ Len(Slice(s, p, n)) = n - p
      /\ \A k \in 1 .. n - p : Slice(s, p, n)[k] = s[p + k]
  BY ONLY <1>1, SliceType, ZenonT(60)
<1> QED BY <1>2 DEF Ahead, n

\* In s, the cells a lie ahead of p, and the cells r behind them.
Lies(S, s, p, a, r) ==
  /\ s \in Seq(S) /\ p \in Nat /\ p <= Len(s) /\ a \in Seq(S) /\ r \in Seq(S)
  /\ Ahead(s, p) = a \o r

\* Past the cells a of what is ahead is the rest of it.
LEMMA AheadPast ==
  ASSUME NEW S, NEW s, NEW p, NEW a, NEW r, Lies(S, s, p, a, r)
  PROVE  /\ p + Len(a) \in Nat /\ p + Len(a) <= Len(s) /\ Len(s) = p + Len(a) + Len(r)
         /\ Ahead(s, p + Len(a)) = r
         /\ \A k \in 1 .. Len(a) : s[p + k] = a[k]
<1> DEFINE t == Ahead(s, p)
           n == Len(a)
           m == Len(r)
           N == Len(s)
           u == Ahead(s, p + n)
<1> s \in Seq(S) /\ p \in Nat /\ p <= Len(s) /\ a \in Seq(S) /\ r \in Seq(S) /\ Ahead(s, p) = a \o r
  BY DEF Lies
<1>0. n \in Nat /\ m \in Nat /\ N \in Nat
  BY LenProperties
<1>1. /\ t \in Seq(S) /\ Len(t) = N - p
      /\ \A k \in 1 .. N - p : t[k] = s[p + k]
  BY AheadType
<1>2. /\ Len(t) = n + m
      /\ \A k \in 1 .. n + m : t[k] = IF k <= n THEN a[k] ELSE r[k - n]
  BY ConcatProperties
<1>3. p + n <= N /\ p + n \in Nat /\ N - (p + n) = m
  BY <1>0, <1>1, <1>2
<1>4. /\ u \in Seq(S) /\ Len(u) = m
      /\ \A k \in 1 .. m : u[k] = s[p + n + k]
  <2> DEFINE q == p + n
  <2>1. q \in Nat /\ q <= Len(s) /\ Len(s) \in Nat
    BY <1>0, <1>3
  <2> HIDE DEF q
  <2>2. /\ Ahead(s, q) \in Seq(S) /\ Len(Ahead(s, q)) = Len(s) - q
        /\ \A k \in 1 .. Len(s) - q : Ahead(s, q)[k] = s[q + k]
    BY <2>1, AheadType
  <2> QED BY <1>3, <2>2 DEF q
<1> HIDE DEF t, n, m, N, u
<1>5. ASSUME NEW k \in 1 .. m
      PROVE  u[k] = r[k]
  <2> DEFINE j == n + k
  <2>1. /\ j \in 1 .. N - p /\ j \in 1 .. n + m /\ ~ (j <= n) /\ j - n = k
        /\ p + j = p + n + k
    BY <1>0, <1>3
  <2> HIDE DEF j
  <2>2. t[j] = s[p + j]
    BY <1>1, <2>1
  <2>3. t[j] = r[j - n]
    BY <1>2, <2>1
  <2> QED BY <1>4, <2>1, <2>2, <2>3
<1>6. u = r
  BY <1>4, <1>5, SeqEqual DEF m
<1>7. ASSUME NEW k \in 1 .. n
      PROVE  s[p + k] = a[k]
  <2>1. k \in 1 .. N - p /\ k \in 1 .. n + m /\ k <= n
    BY <1>0, <1>3
  <2> QED BY <1>1, <1>2, <2>1
<1>8. N = p + n + m
  BY <1>0, <1>3
<1> QED BY <1>3, <1>6, <1>7, <1>8 DEF u, n, m, N

\* The same of what was written of the stream, as far as it has arrived.
LEMMA ReadCells ==
  ASSUME NEW S, NEW s, NEW p, NEW a, NEW r, Lies(S, s, p, a, r),
         NEW w \in Seq(S), Begins(w, s), p + Len(a) <= Len(w)
  PROVE  /\ Slice(w, p, p + Len(a)) = a
         /\ \A k \in 1 .. Len(a) : w[p + k] = a[k]
<1> DEFINE n == Len(a)
           b == Slice(w, p, p + n)
<1> p \in Nat /\ a \in Seq(S)
  BY DEF Lies
<1>0. n \in Nat /\ Len(w) \in Nat
  BY LenProperties
<1>1. \A k \in 1 .. n : s[p + k] = a[k]
  BY AheadPast
<1>2. \A k \in 1 .. n : w[p + k] = a[k]
  <2> TAKE k \in 1 .. n
  <2>1. p + k \in 1 .. Len(w)
    BY <1>0
  <2> QED BY <1>1, <2>1 DEF Begins
<1>3. b \in Seq(S) /\ Len(b) = n /\ \A k \in 1 .. n : b[k] = w[p + k]
  <2> DEFINE q == p + n
  <2>1. q \in Nat /\ p <= q /\ q <= Len(w) /\ q - p = n
    BY <1>0
  <2> HIDE DEF q, n
  <2>2. /\ Slice(w, p, q) \in Seq(S) /\ Len(Slice(w, p, q)) = q - p
        /\ \A k \in 1 .. q - p : Slice(w, p, q)[k] = w[p + k]
    BY <2>1, SliceType, ZenonT(60)
  <2> QED BY <2>1, <2>2 DEF q
<1> HIDE DEF b
<1>4. b = a
  BY <1>2, <1>3, SeqEqual
<1> QED BY <1>2, <1>4 DEF b

-----------------------------------------------------------------------------
(* Writing one *)

LEMMA PrefixBegins ==
  ASSUME NEW S, NEW w \in Seq(S), NEW r \in Seq(S)
  PROVE  Begins(w, w \o r)
<1>1. /\ Len(w \o r) = Len(w) + Len(r)
      /\ \A k \in 1 .. Len(w) + Len(r) : (w \o r)[k] = IF k <= Len(w) THEN w[k] ELSE r[k - Len(w)]
  BY ConcatProperties
<1>2. Len(w) \in Nat /\ Len(r) \in Nat
  BY LenProperties
<1> QED BY <1>1, <1>2 DEF Begins

LEMMA BeginsShorter ==
  ASSUME NEW S, NEW s \in Seq(S), NEW w \in Seq(S), NEW h \in Seq(S), NEW n \in Nat, n <= Len(h),
         Begins(w \o h, s)
  PROVE  w \o Slice(h, 0, n) \in Seq(S) /\ Begins(w \o Slice(h, 0, n), s)
<1> DEFINE t == Slice(h, 0, n)
           m == Len(w)
<1>1. t \in Seq(S) /\ Len(t) = n /\ \A k \in 1 .. n : t[k] = h[k]
  BY SubSeqProperties DEF Slice
<1>2. m \in Nat /\ Len(h) \in Nat
  BY LenProperties
<1>3. /\ Len(w \o h) = m + Len(h)
      /\ \A k \in 1 .. m + Len(h) : (w \o h)[k] = IF k <= m THEN w[k] ELSE h[k - m]
  BY ConcatProperties
<1> HIDE DEF t
<1>4. /\ w \o t \in Seq(S) /\ Len(w \o t) = m + n
      /\ \A k \in 1 .. m + n : (w \o t)[k] = IF k <= m THEN w[k] ELSE t[k - m]
  BY <1>1, ConcatProperties
<1> HIDE DEF m
<1>5. ASSUME NEW k \in 1 .. m + n
      PROVE  (w \o t)[k] = s[k]
  <2>1. k \in 1 .. m + Len(h) /\ (~ (k <= m) => k - m \in 1 .. n)
    BY <1>2
  <2>2. (w \o t)[k] = (w \o h)[k]
    BY <1>1, <1>3, <1>4, <2>1
  <2>3. (w \o h)[k] = s[k]
    BY <1>3, <2>1 DEF Begins
  <2> QED BY <2>2, <2>3
<1>6. m + n <= Len(s)
  BY <1>2, <1>3, LenProperties DEF Begins
<1> QED BY <1>4, <1>5, <1>6 DEF Begins, t

\* What was written of a stream s, and what is still to be written by a writer
\* that has not failed.
Written(S, s, by, w, ws) ==
  /\ s \in Seq(S) /\ w \in Seq(S) /\ ws \in Seq(Seq(S)) /\ Begins(w, s)
  /\ by # "failed" => s = w \o FlattenSeq(ws)

LEMMA WrittenAtFirst ==
  ASSUME NEW S, NEW ws \in Seq(Seq(S)), NEW by
  PROVE  Written(S, FlattenSeq(ws), by, << >>, ws)
<1>1. FlattenSeq(ws) \in Seq(S) /\ << >> \in Seq(S)
  BY FlattenType
<1>2. FlattenSeq(ws) = << >> \o FlattenSeq(ws)
  BY <1>1, ConcatEmptySeq
<1> QED BY <1>1, <1>2, PrefixBegins DEF Written

LEMMA WriteKeeps ==
  ASSUME NEW S, NEW s, NEW w, NEW ws, Written(S, s, "writing", w, ws), ws # << >>, NEW by
  PROVE  Written(S, s, by, w \o Head(ws), Tail(ws))
<1> DEFINE h == Head(ws)
           t == Tail(ws)
           v == w \o h
           r == FlattenSeq(t)
<1>1. s \in Seq(S) /\ w \in Seq(S) /\ ws \in Seq(Seq(S)) /\ s = w \o FlattenSeq(ws)
  BY DEF Written
<1>2. h \in Seq(S) /\ t \in Seq(Seq(S)) /\ ws = << h >> \o t
  BY <1>1, ConsParts
<1> HIDE DEF h, t
<1>3. FlattenSeq(ws) = h \o r
  BY <1>2, FlattenCons
<1>4. r \in Seq(S) /\ v \in Seq(S)
  BY <1>1, <1>2, FlattenType, ConcatProperties
<1> HIDE DEF r
<1>5. s = v \o r
  <2>1. s = w \o (h \o r)
    BY <1>1, <1>3
  <2>2. w \in Seq(S) /\ h \in Seq(S) /\ r \in Seq(S)
    BY <1>1, <1>2, <1>4
  <2>3. (w \o h) \o r = w \o (h \o r)
    BY ONLY <2>2, ConcatAssociative, SMTT(30)
  <2> QED BY <2>1, <2>3
<1> HIDE DEF v
<1>6. Begins(v, s)
  BY <1>4, <1>5, PrefixBegins
<1>7. Written(S, s, by, v, t)
  BY <1>1, <1>2, <1>4, <1>5, <1>6 DEF Written, r
<1> QED BY <1>7 DEF v, h, t

LEMMA FailKeeps ==
  ASSUME NEW S, NEW s, NEW w, NEW ws, Written(S, s, "writing", w, ws), ws # << >>,
         NEW n \in 0 .. Len(Head(ws)) - 1
  PROVE  Written(S, s, "failed", w \o Slice(Head(ws), 0, n), ws)
<1> DEFINE h == Head(ws)
           v == w \o Slice(h, 0, n)
<1>1. s \in Seq(S) /\ w \in Seq(S) /\ ws \in Seq(Seq(S))
  BY DEF Written
<1>2. h \in Seq(S)
  BY <1>1, ConsParts
<1>3. Begins(w \o h, s)
  BY WriteKeeps DEF Written
<1>4. n \in Nat /\ n <= Len(h)
  BY <1>2, LenProperties
<1> HIDE DEF h
<1>5. v \in Seq(S) /\ Begins(v, s)
  BY <1>1, <1>2, <1>3, <1>4, BeginsShorter
<1> HIDE DEF v
<1>6. Written(S, s, "failed", v, ws)
  BY <1>1, <1>5 DEF Written
<1> QED BY <1>6 DEF v, h

-----------------------------------------------------------------------------
(* What a signature is on the wire *)

Cells == Nat \cup Digest

SumRecord ==
  {b \in [index : 0 .. Word - 1, sum1 : Nat, sum2 : Seq(Cells), offset : Nat, length : 0 .. Word - 1] :
     Len(b.sum2) < Octet}

\* A signature whose fields fit in those of the wire.
Encodable(s) ==
  /\ s = [blockSize |-> s.blockSize, fileSize |-> s.fileSize, sums |-> s.sums]
  /\ s.blockSize \in 1 .. Word - 1 /\ s.fileSize \in Nat
  /\ s.sums \in Seq(SumRecord) /\ Len(s.sums) < Word /\ Len(s.sums) <= s.fileSize

SumCells == [b \in SumRecord |-> BlockCells(b)]
HeaderCells(s) == << s.blockSize, s.fileSize, Len(s.sums) >>
SignatureStream(s) == FlattenSeq(SignatureWrites(s) \o << Following >>)

LEMMA SmallMod ==
  ASSUME NEW m \in Nat \ {0}, NEW x \in 0 .. m - 1
  PROVE  x % m = x
OBVIOUS

LEMMA BlockCellsParts ==
  ASSUME NEW b \in SumRecord
  PROVE  /\ << b.index, b.sum1, Len(b.sum2) >> \in Seq(Cells)
         /\ b.sum2 \in Seq(Cells) /\ Len(b.sum2) \in Nat
         /\ << b.offset, b.length >> \in Seq(Cells)
         /\ BlockCells(b) \in Seq(Cells)
         /\ BlockCells(b) = << b.index, b.sum1, Len(b.sum2) >> \o (b.sum2 \o << b.offset, b.length >>)
<1> DEFINE x == << b.index, b.sum1, Len(b.sum2) >>
           z == << b.offset, b.length >>
<1>1. /\ b.index \in 0 .. Word - 1 /\ b.length \in 0 .. Word - 1 /\ b.sum1 \in Nat
      /\ b.sum2 \in Seq(Cells) /\ b.offset \in Nat /\ Len(b.sum2) < Octet
  BY DEF SumRecord
<1>2. Len(b.sum2) \in 0 .. Octet - 1
  BY <1>1, LenProperties, WireAssumption
<1>3. /\ Uint32(b.index) = b.index /\ Uint32(b.length) = b.length
      /\ Uint8(Len(b.sum2)) = Len(b.sum2)
  BY <1>1, <1>2, SmallMod, WireAssumption DEF Uint32, Uint8
<1>4. BlockCells(b) = (x \o b.sum2) \o z
  BY <1>3 DEF BlockCells
<1>5. x \in Seq(Cells) /\ z \in Seq(Cells)
  <2>1. b.index \in Cells /\ b.sum1 \in Cells /\ Len(b.sum2) \in Cells /\ b.offset \in Cells /\ b.length \in Cells
    BY <1>1, <1>2, WireAssumption DEF Cells
  <2> HIDE DEF Cells
  <2> QED BY <2>1
<1> HIDE DEF x, z
<1>6. x \o b.sum2 \in Seq(Cells) /\ (x \o b.sum2) \o z = x \o (b.sum2 \o z)
  <2> DEFINE y == b.sum2
  <2>1. x \in Seq(Cells) /\ y \in Seq(Cells) /\ z \in Seq(Cells)
    BY <1>1, <1>5
  <2> HIDE DEF y
  <2>2. x \o y \in Seq(Cells)
    BY ONLY <2>1, ConcatProperties
  <2>3. (x \o y) \o z = x \o (y \o z)
    BY ONLY <2>1, ConcatAssociative
  <2> QED BY <2>2, <2>3 DEF y
<1>7. (x \o b.sum2) \o z \in Seq(Cells)
  BY <1>5, <1>6, ConcatProperties
<1>8. Len(b.sum2) \in Nat
  BY <1>2
<1> QED BY <1>1, <1>4, <1>5, <1>6, <1>7, <1>8 DEF x, z

LEMMA SumCellsMaps == Maps(SumCells, SumRecord, Seq(Cells))
BY BlockCellsParts DEF SumCells, Maps

LEMMA SignatureCells ==
  ASSUME NEW s, Encodable(s)
  PROVE  /\ SignatureWrites(s) \in Seq(Seq(Cells))
         /\ SignatureWrites(s) \o << Following >> \in Seq(Seq(Cells))
         /\ SignatureStream(s) \in Seq(Cells)
         /\ HeaderCells(s) \in Seq(Cells) /\ FlatMap(SumCells, s.sums) \in Seq(Cells)
         /\ Following \in Seq(Cells)
         /\ SignatureStream(s) = HeaderCells(s) \o (FlatMap(SumCells, s.sums) \o Following)
         /\ Len(SignatureStream(s)) = Len(FlattenSeq(SignatureWrites(s))) + Len(Following)
<1> DEFINE h == HeaderCells(s)
           m == Mapped(SumCells, s.sums)
           b == FlatMap(SumCells, s.sums)
           w == SignatureWrites(s)
           F == Following
<1>0. /\ s.sums \in Seq(SumRecord) /\ s.blockSize \in 1 .. Word - 1 /\ s.fileSize \in Nat
      /\ Len(s.sums) < Word /\ Len(s.sums) \in Nat
  BY LenProperties DEF Encodable
<1>1. m \in Seq(Seq(Cells)) /\ b \in Seq(Cells) /\ b = FlattenSeq(m)
  BY <1>0, SumCellsMaps, MappedType, FlatMapType DEF FlatMap
<1>2. m = [k \in DOMAIN s.sums |-> BlockCells(s.sums[k])]
  <2>1. \A k \in DOMAIN s.sums : s.sums[k] \in SumRecord
    BY <1>0
  <2> QED BY <2>1 DEF Mapped, SumCells
<1>3. h = << Uint32(s.blockSize), s.fileSize, Uint32(Len(s.sums)) >>
  <2>1. s.blockSize \in 0 .. Word - 1 /\ Len(s.sums) \in 0 .. Word - 1
    BY <1>0, WireAssumption
  <2>2. Uint32(s.blockSize) = s.blockSize /\ Uint32(Len(s.sums)) = Len(s.sums)
    BY <2>1, SmallMod, WireAssumption DEF Uint32
  <2> QED BY <2>2 DEF HeaderCells
<1>4. w = << h >> \o m
  BY <1>2, <1>3 DEF SignatureWrites
<1>5. h \in Seq(Cells) /\ F \in Seq(Cells)
  <2>1. s.blockSize \in Cells /\ s.fileSize \in Cells /\ Len(s.sums) \in Cells
    BY <1>0, WireAssumption DEF Cells
  <2>2. Nat \subseteq Cells
    BY DEF Cells
  <2>3. F \in Seq(Cells)
    BY <2>2, WireAssumption
  <2> HIDE DEF Cells
  <2> QED BY <2>1, <2>3 DEF HeaderCells
<1> HIDE DEF h, m, b, F
<1>6. << h >> \in Seq(Seq(Cells)) /\ << F >> \in Seq(Seq(Cells))
  BY <1>5
<1>7. w \in Seq(Seq(Cells)) /\ FlattenSeq(w) = h \o b
  BY <1>1, <1>4, <1>5, <1>6, ConcatProperties, FlattenCons
<1> HIDE DEF w
<1>8. w \o << F >> \in Seq(Seq(Cells)) /\ FlattenSeq(w \o << F >>) = FlattenSeq(w) \o F
  <2> DEFINE y == << F >>
  <2>1. w \in Seq(Seq(Cells)) /\ y \in Seq(Seq(Cells)) /\ FlattenSeq(y) = F
    BY <1>5, <1>6, <1>7, FlattenOne
  <2> HIDE DEF y
  <2>2. w \o y \in Seq(Seq(Cells))
    BY ONLY <2>1, ConcatProperties
  <2>3. FlattenSeq(w \o y) = FlattenSeq(w) \o FlattenSeq(y)
    BY ONLY <2>1, FlattenConcat
  <2> QED BY <2>1, <2>2, <2>3 DEF y
<1>9. /\ (h \o b) \o F = h \o (b \o F) /\ (h \o b) \o F \in Seq(Cells)
      /\ Len((h \o b) \o F) = Len(h \o b) + Len(F)
  <2>1. h \o b \in Seq(Cells)
    BY <1>1, <1>5, ConcatProperties
  <2> QED BY <1>1, <1>5, <2>1, ConcatAssociative, ConcatProperties, SMTT(30)
<1> QED BY <1>1, <1>5, <1>7, <1>8, <1>9 DEF w, h, b, F, SignatureStream

\* A file has no more blocks than bytes.
LEMMA BlocksAtMostBytes ==
  ASSUME NEW f \in Seq(Byte)
  PROVE  NumBlocks(f) \in Nat /\ NumBlocks(f) <= Len(f)
<1> DEFINE N == Len(f)
           q == NumBlocks(f)
<1>1. N \in Nat
  BY LenProperties
<1>2. q \in Nat /\ (q - 1) * BlockSize < N
  <2> HIDE DEF N
  <2>1. LET x == (N + BlockSize - 1) \div BlockSize IN x \in Nat /\ (x - 1) * BlockSize < N
    BY <1>1, BlockSizeAssumption, RoundedDivision
  <2> QED BY <2>1 DEF NumBlocks, N
<1> HIDE DEF N, q
<1>3. CASE q > N
  <2>1. 1 <= BlockSize /\ q - 1 \in Nat /\ q - 1 >= N
    BY <1>1, <1>2, <1>3, BlockSizeAssumption
  <2>2. (q - 1) * 1 <= (q - 1) * BlockSize
    BY <2>1, BlockSizeAssumption
  <2> QED BY <1>1, <1>2, <2>1, <2>2, BlockSizeAssumption
<1> QED BY <1>1, <1>2, <1>3 DEF N, q

LEMMA SignatureEncodable ==
  ASSUME NEW f \in Bases, NEW n \in DigestCells
  PROVE  Encodable(WireSignature(f, n))
<1> DEFINE s == WireSignature(f, n)
           sum(k) == BlockSum(f, k - 1)
           sum2(k) == << sum(k).sum2 >> \o [c \in 1 .. n - 1 |-> 0]
<1>1. f \in Seq(Byte) /\ n \in Nat \ {0} /\ n < Octet /\ NumBlocks(f) < Word /\ BlockSize < Word
  BY SessionAssumption, FieldsAssumption
<1>2. NumBlocks(f) \in Nat /\ NumBlocks(f) <= Len(f) /\ Len(f) \in Nat
  BY <1>1, BlocksAtMostBytes, LenProperties
<1>3. ASSUME NEW k \in 1 .. NumBlocks(f)
      PROVE  s.sums[k] \in SumRecord
  <2> DEFINE j == k - 1
  <2>1. j \in 0 .. NumBlocks(f) - 1 /\ j \in Nat
    BY <1>2
  <2> HIDE DEF j
  <2>2. /\ j * BlockSize \in Nat /\ BlockEnd(f, j) \in Nat /\ j * BlockSize < BlockEnd(f, j)
        /\ BlockEnd(f, j) - j * BlockSize <= BlockSize
    BY <1>1, <2>1, BlockBounds
  <2>3. Block(f, j) \in Seq(Byte) /\ Block(f, j) \in BlockStrings
    BY <1>1, <2>1, BlockType
  <2>4. Checksum1(Block(f, j)) \in Nat /\ Strong(Block(f, j)) \in Digest
    BY <2>3, Checksum1Type, StrongAssumption
  <2> DEFINE d == Strong(Block(f, j))
             z == [c \in 1 .. n - 1 |-> 0]
             t == << d >> \o z
  <2>5. t \in Seq(Cells) /\ Len(t) = n
    <3>1. << d >> \in Seq(Cells) /\ Len(<< d >>) = 1
      BY <2>4 DEF Cells
    <3>2. z \in Seq(Cells) /\ Len(z) = n - 1
      BY <1>1 DEF Cells
    <3> HIDE DEF z, d
    <3> QED BY <1>1, <3>1, <3>2, ConcatProperties
  <2>6. s.sums[k] = [index |-> j, sum1 |-> Checksum1(Block(f, j)), sum2 |-> t,
                     offset |-> j * BlockSize, length |-> BlockEnd(f, j) - j * BlockSize]
    BY DEF WireSignature, BlockSum, j
  <2> HIDE DEF t, s
  <2>7. /\ BlockEnd(f, j) - j * BlockSize \in 0 .. Word - 1 /\ j \in 0 .. Word - 1
        /\ Len(t) < Octet
    BY <1>1, <1>2, <2>1, <2>2, <2>5, WireAssumption, BlockSizeAssumption
  <2> QED BY <2>2, <2>4, <2>5, <2>6, <2>7 DEF SumRecord
<1>4. Len(s.sums) = NumBlocks(f) /\ s.sums \in Seq(SumRecord)
  <2>1. s.sums = [k \in 1 .. NumBlocks(f) |-> s.sums[k]]
    BY DEF WireSignature
  <2> HIDE DEF s
  <2> QED BY <1>2, <1>3, <2>1
<1>5. s = [blockSize |-> BlockSize, fileSize |-> Len(f), sums |-> s.sums]
  BY DEF WireSignature
<1> HIDE DEF s
<1>6. s.blockSize = BlockSize /\ s.fileSize = Len(f)
  BY <1>5
<1> QED BY <1>1, <1>2, <1>4, <1>5, <1>6, BlockSizeAssumption, WireAssumption DEF Encodable, s

-----------------------------------------------------------------------------
(* The first connection *)

LEMMA Reads ==
  ASSUME NEW S, NEW s, NEW by, NEW w, NEW ws, Written(S, s, by, w, ws),
         NEW p, NEW a, NEW r, Lies(S, s, p, a, r), p + Len(a) <= Len(w)
  PROVE  /\ p + Len(a) \in Nat /\ p + Len(a) <= Len(s) /\ Ahead(s, p + Len(a)) = r
         /\ Slice(w, p, p + Len(a)) = a
         /\ \A k \in 1 .. Len(a) : w[p + k] = a[k]
<1>1. w \in Seq(S) /\ Begins(w, s)
  BY DEF Written
<1>2. p + Len(a) \in Nat /\ p + Len(a) <= Len(s) /\ Ahead(s, p + Len(a)) = r
  BY AheadPast
<1>3. Slice(w, p, p + Len(a)) = a /\ \A k \in 1 .. Len(a) : w[p + k] = a[k]
  BY <1>1, ReadCells
<1> QED BY <1>2, <1>3

\* g has of s all but the blocks rest.
Got(s, g, n, rest) ==
  /\ g.sums \in Seq(SumRecord) /\ s.sums = g.sums \o rest /\ n = Len(s.sums)
  /\ g = [blockSize |-> s.blockSize, fileSize |-> s.fileSize, sums |-> g.sums]

RestCells(rest) == FlatMap(SumCells, rest) \o Following

\* Where the reader is, in the message and in the signature.
SigPlace(s, at, g, n, b, len, p, err) ==
  LET ahead == Ahead(SignatureStream(s), p)
      begun(x, sum2) == [index |-> x.index, sum1 |-> x.sum1, sum2 |-> sum2,
                         offset |-> 0, length |-> 0]
  IN  /\ at = "header" => b = NoBlock /\ ahead = HeaderCells(s) \o RestCells(s.sums)
      /\ at = "fixed" =>
           \E rest \in Seq(SumRecord) :
             rest # << >> /\ Got(s, g, n, rest) /\ ahead = RestCells(rest)
      /\ at = "sum2" =>
           \E x \in SumRecord, rest \in Seq(SumRecord) :
             /\ Got(s, g, n, << x >> \o rest) /\ len = Len(x.sum2) /\ b = begun(x, << >>)
             /\ ahead = x.sum2 \o (<< x.offset, x.length >> \o RestCells(rest))
      /\ at = "tail" =>
           \E x \in SumRecord, rest \in Seq(SumRecord) :
             /\ Got(s, g, n, << x >> \o rest) /\ b = begun(x, x.sum2)
             /\ ahead = << x.offset, x.length >> \o RestCells(rest)
      /\ at = "returned" /\ err = "nil" => g = s /\ ahead = Following

Oversized(s) ==
  \/ Len(s.sums) > MaxWireBlocks
  \/ \E k \in DOMAIN s.sums : Len(s.sums[k].sum2) > MaxSum2

SigInv ==
  /\ sigPc \in {"header", "fixed", "sum2", "tail", "returned", "used"}
  /\ Encodable(sig)
  /\ sigPos \in Nat /\ sigPos <= Len(SignatureStream(sig))
  /\ IF sigPc = "used" THEN sigWriter = "done"
     ELSE Written(Cells, SignatureStream(sig), sigWriter, sigWire, sigWrites)
  /\ SigPlace(sig, sigPc, got, sigCount, block, sum2Len, sigPos, sigOutcome)
  /\ sigOutcome = "invalid" => Oversized(sig)

LEMMA RestCellsType ==
  ASSUME NEW rest \in Seq(SumRecord)
  PROVE  RestCells(rest) \in Seq(Cells)
<1>1. FlatMap(SumCells, rest) \in Seq(Cells) /\ Following \in Seq(Cells)
  <2>1. FlatMap(SumCells, rest) \in Seq(Cells)
    BY SumCellsMaps, FlatMapType
  <2>2. Nat \subseteq Cells
    BY DEF Cells
  <2> QED BY <2>1, <2>2, WireAssumption
<1> QED BY <1>1, ConcatProperties DEF RestCells

LEMMA RestCellsNone == RestCells(<< >>) = Following
<1>1. FlatMap(SumCells, << >>) = << >>
  BY FlatMapNone
<1> QED BY <1>1, WireAssumption, ConcatEmptySeq DEF RestCells

\* Of what is left, the next block comes first.
LEMMA RestCellsNext ==
  ASSUME NEW rest \in Seq(SumRecord), rest # << >>
  PROVE  \E x \in SumRecord, more \in Seq(SumRecord) :
           /\ rest = << x >> \o more /\ rest[1] = x
           /\ RestCells(rest) = << x.index, x.sum1, Len(x.sum2) >>
                \o (x.sum2 \o (<< x.offset, x.length >> \o RestCells(more)))
<1> DEFINE x == Head(rest)
           more == Tail(rest)
           c == FlatMap(SumCells, more)
           F == Following
           i1 == << x.index, x.sum1, Len(x.sum2) >>
           i2 == x.sum2
           i3 == << x.offset, x.length >>
<1>1. x \in SumRecord /\ more \in Seq(SumRecord) /\ rest = << x >> \o more /\ rest[1] = x
  BY ConsParts
<1>2. FlatMap(SumCells, rest) = SumCells[x] \o c
  BY SumCellsMaps, FlatMapCons
<1>3. c \in Seq(Cells) /\ F \in Seq(Cells)
  <2>1. Nat \subseteq Cells
    BY DEF Cells
  <2>2. F \in Seq(Cells)
    BY <2>1, WireAssumption
  <2> QED BY <1>1, <2>2, SumCellsMaps, FlatMapType
<1> HIDE DEF x, more
<1>4. i1 \in Seq(Cells) /\ i2 \in Seq(Cells) /\ i3 \in Seq(Cells) /\ SumCells[x] = i1 \o (i2 \o i3)
  BY <1>1, BlockCellsParts DEF SumCells
<1>5. RestCells(rest) = ((i1 \o (i2 \o i3)) \o c) \o F
  BY <1>2, <1>4 DEF RestCells
<1>6. RestCells(more) = c \o F
  BY DEF RestCells
<1> HIDE DEF i1, i2, i3, c, F
<1>7. ((i1 \o (i2 \o i3)) \o c) \o F = i1 \o (i2 \o (i3 \o (c \o F)))
  <2> DEFINE y == i2 \o i3
             z == c \o F
  <2>1. y \in Seq(Cells) /\ z \in Seq(Cells) /\ i1 \o y \in Seq(Cells)
    BY <1>3, <1>4, ConcatProperties
  <2>2. y \o z = i2 \o (i3 \o z)
    <3> HIDE DEF z
    <3> QED BY <1>4, <2>1, ConcatAssociative, SMTT(30)
  <2>3. ((i1 \o y) \o c) \o F = (i1 \o y) \o z
    <3> DEFINE v == i1 \o y
    <3>1. v \in Seq(Cells)
      BY <2>1
    <3> HIDE DEF v
    <3>2. (v \o c) \o F = v \o (c \o F)
      <4>1. v \in Seq(Cells) /\ c \in Seq(Cells) /\ F \in Seq(Cells)
        BY <1>3, <3>1
      <4> QED BY ONLY <4>1, ConcatAssociative
    <3> QED BY <3>2 DEF v
  <2>4. (i1 \o y) \o z = i1 \o (y \o z)
    <3>1. i1 \in Seq(Cells) /\ y \in Seq(Cells) /\ z \in Seq(Cells)
      BY <1>4, <2>1
    <3> HIDE DEF y, z
    <3> QED BY ONLY <3>1, ConcatAssociative
  <2> HIDE DEF y, z
  <2>5. ((i1 \o y) \o c) \o F = i1 \o (i2 \o (i3 \o z))
    BY <2>2, <2>3, <2>4
  <2> QED BY <2>5 DEF y, z
<1>8. RestCells(rest) = i1 \o (i2 \o (i3 \o RestCells(more)))
  BY <1>5, <1>6, <1>7
<1> QED BY <1>1, <1>8 DEF i1, i2, i3

LEMMA SignatureBegins ==
  ASSUME NEW s, Encodable(s), SignatureInit(s)
  PROVE  SigInv
<1> USE DEF SignatureInit
<1>1. /\ SignatureWrites(s) \o << Following >> \in Seq(Seq(Cells))
      /\ SignatureStream(s) \in Seq(Cells)
      /\ SignatureStream(s) = HeaderCells(s) \o RestCells(s.sums)
  <2> HIDE DEF SignatureInit
  <2> QED BY SignatureCells, Zenon DEF RestCells
<1>2. Written(Cells, SignatureStream(s), sigWriter, sigWire, sigWrites)
  <2> DEFINE ws == SignatureWrites(s) \o << Following >>
  <2>1. ws \in Seq(Seq(Cells)) /\ sigWire = << >> /\ sigWrites = ws
    BY <1>1
  <2>2. Written(Cells, FlattenSeq(ws), sigWriter, << >>, ws)
    <3> HIDE DEF ws
    <3> QED BY ONLY <2>1, WrittenAtFirst
  <2> QED BY <2>1, <2>2 DEF SignatureStream
<1>3. sigPos = 0 /\ 0 <= Len(SignatureStream(s)) /\ Ahead(SignatureStream(s), 0) = SignatureStream(s)
  <2> DEFINE x == SignatureStream(s)
  <2>1. x \in Seq(Cells)
    BY <1>1
  <2> HIDE DEF x
  <2>2. 0 <= Len(x) /\ Ahead(x, 0) = x
    BY ONLY <2>1, AheadOfAll, LenProperties
  <2> QED BY <2>2 DEF x
<1>4. SigPlace(s, "header", got, sigCount, block, sum2Len, sigPos, sigOutcome)
  BY <1>1, <1>3 DEF SigPlace
<1> QED BY <1>2, <1>3, <1>4 DEF SigInv

\* What a step of the reader leaves to show.
LEMMA ReaderStep ==
  ASSUME SigInv, sigPc # "used", UNCHANGED sigWriterVars,
         sigPc' \in {"header", "fixed", "sum2", "tail", "returned"},
         sigPos' \in Nat, sigPos' <= Len(SignatureStream(sig)),
         SigPlace(sig, sigPc', got', sigCount', block', sum2Len', sigPos', sigOutcome'),
         sigOutcome' = "invalid" => Oversized(sig)
  PROVE  SigInv'
<1>1. sig' = sig /\ sigWrites' = sigWrites /\ sigWriter' = sigWriter /\ sigWire' = sigWire
  BY DEF sigWriterVars
<1>2. /\ Encodable(sig) /\ sigPc' # "used"
      /\ Written(Cells, SignatureStream(sig), sigWriter, sigWire, sigWrites)
  BY DEF SigInv
<1> QED BY <1>1, <1>2 DEF SigInv

LEMMA WriterStep ==
  ASSUME SigInv, WriteSignature \/ WriteSignatureFails
  PROVE  SigInv'
<1>1. sigWriter = "writing" /\ sigWrites # << >> /\ UNCHANGED << sig, sigReaderVars >>
  BY DEF WriteSignature, WriteSignatureFails
<1>2. /\ sig' = sig /\ sigPos' = sigPos /\ sigPc' = sigPc /\ got' = got /\ sigCount' = sigCount
      /\ block' = block /\ sum2Len' = sum2Len /\ sigOutcome' = sigOutcome
  BY <1>1 DEF sigReaderVars
<1> DEFINE s == SignatureStream(sig)
<1>3. sigPc # "used" /\ Written(Cells, s, "writing", sigWire, sigWrites)
  BY <1>1 DEF SigInv
<1>4. Written(Cells, s, sigWriter', sigWire', sigWrites')
  <2> HIDE DEF s
  <2>1. CASE WriteSignature
    BY <1>1, <1>3, <2>1, WriteKeeps DEF WriteSignature
  <2>2. CASE WriteSignatureFails
    <3>1. PICK n \in 0 .. Len(Head(sigWrites)) - 1 :
            sigWire' = sigWire \o Slice(Head(sigWrites), 0, n)
      BY <2>2 DEF WriteSignatureFails
    <3>2. sigWriter' = "failed" /\ sigWrites' = sigWrites
      BY <2>2 DEF WriteSignatureFails
    <3> QED BY <1>1, <1>3, <3>1, <3>2, FailKeeps
  <2> QED BY <2>1, <2>2
<1> QED BY <1>2, <1>3, <1>4 DEF SigInv

\* What the reader gets when the cells a lie ahead, and what lies behind them.
LEMMA SigReads ==
  ASSUME SigInv, sigPc # "used", NEW a \in Seq(Cells), NEW r \in Seq(Cells),
         Ahead(SignatureStream(sig), sigPos) = a \o r, SigArrived(Len(a))
  PROVE  /\ sigPos + Len(a) \in Nat /\ sigPos + Len(a) <= Len(SignatureStream(sig))
         /\ Ahead(SignatureStream(sig), sigPos + Len(a)) = r
         /\ Slice(sigWire, sigPos, sigPos + Len(a)) = a
         /\ \A k \in 1 .. Len(a) : SigCell(k) = a[k]
<1> DEFINE s == SignatureStream(sig)
<1>1. Written(Cells, s, sigWriter, sigWire, sigWrites) /\ sigPos \in Nat /\ sigPos <= Len(s)
  BY DEF SigInv
<1>2. s \in Seq(Cells)
  BY SignatureCells DEF SigInv
<1>3. Lies(Cells, s, sigPos, a, r)
  BY <1>1, <1>2 DEF Lies
<1>4. sigPos + Len(a) <= Len(sigWire)
  BY DEF SigArrived
<1> HIDE DEF s
<1>5. /\ sigPos + Len(a) \in Nat /\ sigPos + Len(a) <= Len(s) /\ Ahead(s, sigPos + Len(a)) = r
      /\ Slice(sigWire, sigPos, sigPos + Len(a)) = a
      /\ \A k \in 1 .. Len(a) : sigWire[sigPos + k] = a[k]
  BY <1>1, <1>3, <1>4, Reads, SMTT(30)
<1> QED BY <1>5 DEF s, SigCell

LEMMA HeaderStep ==
  ASSUME SigInv, ReadSigHeader
  PROVE  SigInv'
<1> DEFINE s == SignatureStream(sig)
           a == HeaderCells(sig)
           r == RestCells(sig.sums)
<1>1. sigPc = "header" /\ SigArrived(3) /\ UNCHANGED sigWriterVars /\ sigPos' = sigPos + 3
  BY DEF ReadSigHeader
<1>2. Encodable(sig) /\ block = NoBlock /\ Ahead(s, sigPos) = a \o r
  BY <1>1 DEF SigInv, SigPlace
<1>3. /\ sig.sums \in Seq(SumRecord) /\ Len(sig.sums) \in Nat /\ Len(sig.sums) <= sig.fileSize
      /\ sig.blockSize \in Nat \ {0} /\ sig.fileSize \in Nat
  BY <1>2, LenProperties, WireAssumption DEF Encodable
<1>4. a \in Seq(Cells) /\ r \in Seq(Cells) /\ Len(a) = 3
  BY <1>2, <1>3, SignatureCells, RestCellsType DEF HeaderCells
<1>5. /\ sigPos + 3 \in Nat /\ sigPos + 3 <= Len(s) /\ Ahead(s, sigPos + 3) = r
      /\ SigCell(1) = sig.blockSize /\ SigCell(2) = sig.fileSize /\ SigCell(3) = Len(sig.sums)
  <2> HIDE DEF a, r
  <2>1. /\ sigPos + Len(a) \in Nat /\ sigPos + Len(a) <= Len(s) /\ Ahead(s, sigPos + Len(a)) = r
        /\ \A k \in 1 .. Len(a) : SigCell(k) = a[k]
    BY <1>1, <1>2, <1>4, SigReads
  <2>2. SigCell(1) = a[1] /\ SigCell(2) = a[2] /\ SigCell(3) = a[3]
    BY <1>4, <2>1
  <2> QED BY <1>4, <2>1, <2>2 DEF a, HeaderCells
<1> HIDE DEF s, a, r
<1>6. CASE Implausible(SigCell(1), SigCell(2), SigCell(3))
  <2>1. SigFail("invalid")
    BY <1>6 DEF ReadSigHeader
  <2>2. Len(sig.sums) > MaxWireBlocks
    BY <1>3, <1>5, <1>6 DEF Implausible
  <2>3. SigPlace(sig, sigPc', got', sigCount', block', sum2Len', sigPos', sigOutcome')
    BY <2>1 DEF SigFail, SigPlace
  <2> QED BY <1>1, <1>5, <2>1, <2>2, <2>3, ReaderStep DEF SigFail, Oversized, s
<1>7. CASE ~ Implausible(SigCell(1), SigCell(2), SigCell(3))
  <2> DEFINE n == Len(sig.sums)
  <2>1. /\ got' = [blockSize |-> sig.blockSize, fileSize |-> sig.fileSize, sums |-> << >>]
        /\ sigCount' = n /\ sigPc' = NextBlock(0, n) /\ sigOutcome' = OutcomeAfter(0, n)
    BY <1>5, <1>7 DEF ReadSigHeader
  <2>2. got'.sums = << >> /\ got'.sums \o sig.sums = sig.sums
    BY <1>3, <2>1, ConcatEmptySeq
  <2>3. Got(sig, got', sigCount', sig.sums)
    <3>1. got'.sums \in Seq(SumRecord)
      BY <2>2
    <3>2. got' = [blockSize |-> sig.blockSize, fileSize |-> sig.fileSize, sums |-> got'.sums]
      BY <2>1, <2>2
    <3> QED BY <2>1, <2>2, <3>1, <3>2 DEF Got
  <2>4. CASE n = 0
    <3>1. sig.sums = << >> /\ sigPc' = "returned" /\ sigOutcome' = "nil"
      BY <1>3, <2>1, <2>4, EmptySeq DEF NextBlock, OutcomeAfter
    <3>2. got' = sig
      BY <1>2, <2>1, <3>1 DEF Encodable
    <3>3. Ahead(s, sigPos') = Following
      BY <1>1, <1>5, <3>1, RestCellsNone DEF r
    <3>4. SigPlace(sig, sigPc', got', sigCount', block', sum2Len', sigPos', sigOutcome')
      BY <3>1, <3>2, <3>3 DEF SigPlace, s
    <3> QED BY <1>1, <1>5, <3>1, <3>4, ReaderStep DEF s
  <2>5. CASE n # 0
    <3>1. sig.sums # << >> /\ sigPc' = "fixed" /\ sigOutcome' = "none"
      BY <1>3, <2>1, <2>5 DEF NextBlock, OutcomeAfter
    <3>2. Ahead(s, sigPos') = RestCells(sig.sums)
      BY <1>1, <1>5 DEF r
    <3>3. SigPlace(sig, sigPc', got', sigCount', block', sum2Len', sigPos', sigOutcome')
      BY <1>3, <2>3, <3>1, <3>2 DEF SigPlace, s
    <3> QED BY <1>1, <1>5, <3>1, <3>3, ReaderStep DEF s
  <2> QED BY <2>4, <2>5
<1> QED BY <1>6, <1>7

LEMMA FixedStep ==
  ASSUME SigInv, ReadBlockFixed
  PROVE  SigInv'
<1> DEFINE s == SignatureStream(sig)
<1>1. sigPc = "fixed" /\ SigArrived(3) /\ UNCHANGED sigWriterVars /\ sigPos' = sigPos + 3
  BY DEF ReadBlockFixed
<1>2. PICK rest \in Seq(SumRecord) :
        rest # << >> /\ Got(sig, got, sigCount, rest) /\ Ahead(s, sigPos) = RestCells(rest)
  BY <1>1 DEF SigInv, SigPlace
<1>3. PICK x \in SumRecord, more \in Seq(SumRecord) :
        /\ rest = << x >> \o more /\ rest[1] = x
        /\ RestCells(rest) = << x.index, x.sum1, Len(x.sum2) >>
             \o (x.sum2 \o (<< x.offset, x.length >> \o RestCells(more)))
  BY <1>2, RestCellsNext
<1> DEFINE a == << x.index, x.sum1, Len(x.sum2) >>
           r == x.sum2 \o (<< x.offset, x.length >> \o RestCells(more))
<1>4. a \in Seq(Cells) /\ r \in Seq(Cells) /\ Len(a) = 3 /\ a[1] = x.index /\ a[2] = x.sum1 /\ a[3] = Len(x.sum2)
  <2>1. /\ a \in Seq(Cells) /\ x.sum2 \in Seq(Cells) /\ << x.offset, x.length >> \in Seq(Cells)
        /\ RestCells(more) \in Seq(Cells)
    BY BlockCellsParts, RestCellsType
  <2> QED BY <2>1, ConcatProperties
<1> HIDE DEF a, r
<1>5. /\ sigPos + 3 \in Nat /\ sigPos + 3 <= Len(s) /\ Ahead(s, sigPos + 3) = r
      /\ SigCell(1) = x.index /\ SigCell(2) = x.sum1 /\ SigCell(3) = Len(x.sum2)
  <2>0. Ahead(s, sigPos) = a \o r
    BY <1>2, <1>3 DEF a, r
  <2>1. /\ sigPos + Len(a) \in Nat /\ sigPos + Len(a) <= Len(s) /\ Ahead(s, sigPos + Len(a)) = r
        /\ \A k \in 1 .. Len(a) : SigCell(k) = a[k]
    BY <1>1, <1>4, <2>0, SigReads
  <2>2. SigCell(1) = a[1] /\ SigCell(2) = a[2] /\ SigCell(3) = a[3]
    BY <1>4, <2>1
  <2> QED BY <1>4, <2>1, <2>2
<1> HIDE DEF s
<1>6. CASE SigCell(3) > MaxSum2
  <2>1. SigFail("invalid")
    BY <1>6 DEF ReadBlockFixed
  <2>2. Oversized(sig)
    <3>1. /\ got.sums \in Seq(SumRecord) /\ sig.sums = got.sums \o rest /\ Len(rest) \in Nat \ {0}
      BY <1>2, ConsParts DEF Got
    <3> DEFINE k == Len(got.sums) + 1
    <3>2. k \in DOMAIN sig.sums /\ sig.sums[k] = rest[1]
      BY <3>1, ConcatProperties, LenProperties
    <3> HIDE DEF k
    <3> QED BY <1>3, <1>5, <1>6, <3>2 DEF Oversized
  <2>3. SigPlace(sig, sigPc', got', sigCount', block', sum2Len', sigPos', sigOutcome')
    BY <2>1 DEF SigFail, SigPlace
  <2> QED BY <1>1, <1>5, <2>1, <2>2, <2>3, ReaderStep DEF SigFail, s
<1>7. CASE ~ (SigCell(3) > MaxSum2)
  <2>1. /\ block' = [NoBlock EXCEPT !.index = SigCell(1), !.sum1 = SigCell(2)]
        /\ sum2Len' = SigCell(3) /\ sigPc' = "sum2"
        /\ got' = got /\ sigCount' = sigCount /\ sigOutcome' = sigOutcome
    BY <1>7 DEF ReadBlockFixed
  <2>2. /\ block' = [index |-> x.index, sum1 |-> x.sum1, sum2 |-> << >>, offset |-> 0, length |-> 0]
        /\ sum2Len' = Len(x.sum2)
    BY <1>5, <2>1 DEF NoBlock
  <2>3. Got(sig, got', sigCount', << x >> \o more)
    BY <1>2, <1>3, <2>1
  <2>4. Ahead(s, sigPos') = x.sum2 \o (<< x.offset, x.length >> \o RestCells(more))
    BY <1>1, <1>5 DEF r
  <2>5. SigPlace(sig, sigPc', got', sigCount', block', sum2Len', sigPos', sigOutcome')
    BY <2>1, <2>2, <2>3, <2>4 DEF SigPlace, s
  <2>6. sigOutcome' = "invalid" => Oversized(sig)
    BY <2>1 DEF SigInv
  <2> QED BY <1>1, <1>5, <2>1, <2>5, <2>6, ReaderStep DEF s
<1> QED BY <1>6, <1>7

LEMMA Sum2Step ==
  ASSUME SigInv, ReadBlockSum2
  PROVE  SigInv'
<1> DEFINE s == SignatureStream(sig)
<1>1. /\ sigPc = "sum2" /\ SigArrived(sum2Len) /\ UNCHANGED sigWriterVars
      /\ sigPos' = sigPos + sum2Len /\ sigPc' = "tail"
      /\ block' = [block EXCEPT !.sum2 = Slice(sigWire, sigPos, sigPos + sum2Len)]
      /\ got' = got /\ sigCount' = sigCount /\ sigOutcome' = sigOutcome
  BY DEF ReadBlockSum2
<1>2. PICK x \in SumRecord, rest \in Seq(SumRecord) :
        /\ Got(sig, got, sigCount, << x >> \o rest) /\ sum2Len = Len(x.sum2)
        /\ block = [index |-> x.index, sum1 |-> x.sum1, sum2 |-> << >>, offset |-> 0, length |-> 0]
        /\ Ahead(s, sigPos) = x.sum2 \o (<< x.offset, x.length >> \o RestCells(rest))
  BY <1>1 DEF SigInv, SigPlace
<1> DEFINE a == x.sum2
           r == << x.offset, x.length >> \o RestCells(rest)
<1>3. a \in Seq(Cells) /\ r \in Seq(Cells)
  <2>1. << x.offset, x.length >> \in Seq(Cells) /\ RestCells(rest) \in Seq(Cells)
    BY BlockCellsParts, RestCellsType
  <2> QED BY <2>1, BlockCellsParts, ConcatProperties
<1>4. Ahead(s, sigPos) = a \o r /\ SigArrived(Len(a)) /\ sum2Len = Len(a)
  BY <1>1, <1>2
<1> HIDE DEF a, r
<1>5. /\ sigPos + Len(a) \in Nat /\ sigPos + Len(a) <= Len(s) /\ Ahead(s, sigPos + Len(a)) = r
      /\ Slice(sigWire, sigPos, sigPos + Len(a)) = a
  BY <1>1, <1>3, <1>4, SigReads
<1> HIDE DEF s
<1>6. /\ sigPos' \in Nat /\ sigPos' <= Len(s) /\ Ahead(s, sigPos') = r
      /\ block' = [block EXCEPT !.sum2 = a]
  BY <1>1, <1>4, <1>5
<1>7. block' = [index |-> x.index, sum1 |-> x.sum1, sum2 |-> x.sum2, offset |-> 0, length |-> 0]
  BY <1>2, <1>6 DEF a
<1>8. SigPlace(sig, sigPc', got', sigCount', block', sum2Len', sigPos', sigOutcome')
  BY <1>1, <1>2, <1>6, <1>7 DEF SigPlace, s, r
<1>9. sigOutcome' = "invalid" => Oversized(sig)
  BY <1>1 DEF SigInv
<1> QED BY <1>1, <1>6, <1>8, <1>9, ReaderStep DEF s

LEMMA TailStep ==
  ASSUME SigInv, ReadBlockTail
  PROVE  SigInv'
<1> DEFINE s == SignatureStream(sig)
           bs == [block EXCEPT !.offset = SigCell(1), !.length = SigCell(2)]
           n == Len(got.sums) + 1
<1>1. /\ sigPc = "tail" /\ SigArrived(2) /\ UNCHANGED sigWriterVars /\ sigPos' = sigPos + 2
      /\ got' = [got EXCEPT !.sums = Append(@, bs)]
      /\ sigPc' = NextBlock(n, sigCount) /\ sigOutcome' = OutcomeAfter(n, sigCount)
      /\ sigCount' = sigCount
  BY DEF ReadBlockTail
<1>2. PICK x \in SumRecord, rest \in Seq(SumRecord) :
        /\ Got(sig, got, sigCount, << x >> \o rest)
        /\ block = [index |-> x.index, sum1 |-> x.sum1, sum2 |-> x.sum2, offset |-> 0, length |-> 0]
        /\ Ahead(s, sigPos) = << x.offset, x.length >> \o RestCells(rest)
  BY <1>1 DEF SigInv, SigPlace
<1> DEFINE a == << x.offset, x.length >>
           r == RestCells(rest)
<1>3. a \in Seq(Cells) /\ r \in Seq(Cells) /\ Len(a) = 2 /\ a[1] = x.offset /\ a[2] = x.length
  BY BlockCellsParts, RestCellsType
<1>4. Ahead(s, sigPos) = a \o r
  BY <1>2
<1> HIDE DEF a, r
<1>5. /\ sigPos + 2 \in Nat /\ sigPos + 2 <= Len(s) /\ Ahead(s, sigPos + 2) = r
      /\ SigCell(1) = x.offset /\ SigCell(2) = x.length
  <2>1. /\ sigPos + Len(a) \in Nat /\ sigPos + Len(a) <= Len(s) /\ Ahead(s, sigPos + Len(a)) = r
        /\ \A k \in 1 .. Len(a) : SigCell(k) = a[k]
    BY <1>1, <1>3, <1>4, SigReads
  <2>2. SigCell(1) = a[1] /\ SigCell(2) = a[2]
    BY <1>3, <2>1
  <2> QED BY <1>3, <2>1, <2>2
<1> HIDE DEF s
<1>6. bs = x
  <2>1. x = [index |-> x.index, sum1 |-> x.sum1, sum2 |-> x.sum2, offset |-> x.offset, length |-> x.length]
    BY DEF SumRecord
  <2>2. bs = [block EXCEPT !.offset = x.offset, !.length = x.length]
    BY <1>5
  <2>3. bs = [index |-> x.index, sum1 |-> x.sum1, sum2 |-> x.sum2, offset |-> x.offset, length |-> x.length]
    <3>1. block = [index |-> x.index, sum1 |-> x.sum1, sum2 |-> x.sum2, offset |-> 0, length |-> 0]
      BY <1>2
    <3> HIDE DEF bs
    <3> QED BY <2>2, <3>1
  <2> QED BY <2>1, <2>3
<1> HIDE DEF bs
<1>7. Got(sig, got', sigCount', rest)
  <2> DEFINE g == got.sums
             y == << x >>
  <2>1. /\ g \in Seq(SumRecord) /\ sig.sums = g \o (y \o rest) /\ sigCount = Len(sig.sums)
        /\ got = [blockSize |-> sig.blockSize, fileSize |-> sig.fileSize, sums |-> g]
    BY <1>2 DEF Got
  <2>2. y \in Seq(SumRecord) /\ Append(g, x) = g \o y /\ Append(g, x) \in Seq(SumRecord)
    BY <2>1, AppendIsConcat, AppendProperties
  <2> HIDE DEF g, y
  <2>3. (g \o y) \o rest = g \o (y \o rest)
    BY ONLY <2>1, <2>2, ConcatAssociative, rest \in Seq(SumRecord)
  <2>4. got' = [blockSize |-> sig.blockSize, fileSize |-> sig.fileSize, sums |-> Append(g, x)]
    <3>1. got' = [got EXCEPT !.sums = Append(@, x)]
      BY <1>1, <1>6
    <3> QED BY <2>1, <3>1
  <2>5. got'.sums = Append(g, x)
    BY <2>4
  <2>6. got' = [blockSize |-> sig.blockSize, fileSize |-> sig.fileSize, sums |-> got'.sums]
    BY <2>4, <2>5
  <2>7. got'.sums \in Seq(SumRecord) /\ sig.sums = got'.sums \o rest
    BY <2>1, <2>2, <2>3, <2>5
  <2> QED BY <1>1, <2>1, <2>6, <2>7 DEF Got
<1>8. Ahead(s, sigPos') = RestCells(rest)
  BY <1>1, <1>5 DEF r
<1>9. n \in Nat /\ sigCount \in Nat /\ sigCount = n + Len(rest) /\ Len(rest) \in Nat
  <2>1. /\ got.sums \in Seq(SumRecord) /\ sig.sums = got.sums \o (<< x >> \o rest)
        /\ sigCount = Len(sig.sums)
    BY <1>2 DEF Got
  <2>2. << x >> \o rest \in Seq(SumRecord) /\ Len(<< x >> \o rest) = 1 + Len(rest)
    BY ConcatProperties
  <2>3. Len(sig.sums) = Len(got.sums) + Len(<< x >> \o rest)
    BY <2>1, <2>2, ConcatProperties
  <2>4. Len(got.sums) \in Nat /\ Len(rest) \in Nat
    BY <2>1, LenProperties
  <2> DEFINE l == Len(got.sums)
             m == Len(rest)
  <2>5. sigCount = l + (1 + m) /\ l \in Nat /\ m \in Nat /\ n = l + 1
    BY <2>1, <2>2, <2>3, <2>4
  <2> HIDE DEF l, n
  <2>6. n \in Nat /\ sigCount \in Nat /\ sigCount = n + m
    <3> HIDE DEF m
    <3> QED BY <2>5
  <2> QED BY <2>4, <2>6
<1> HIDE DEF n
<1>10. CASE rest = << >>
  <2>1. sigPc' = "returned" /\ sigOutcome' = "nil"
    BY <1>1, <1>9, <1>10 DEF NextBlock, OutcomeAfter
  <2>2. got' = sig
    <3>1. /\ sig.sums = got'.sums \o << >> /\ got'.sums \in Seq(SumRecord)
          /\ got' = [blockSize |-> sig.blockSize, fileSize |-> sig.fileSize, sums |-> got'.sums]
      BY <1>7, <1>10 DEF Got
    <3>2. sig.sums = got'.sums
      BY <3>1, ConcatEmptySeq
    <3> QED BY <3>1, <3>2 DEF SigInv, Encodable
  <2>3. Ahead(s, sigPos') = Following
    BY <1>8, <1>10, RestCellsNone
  <2>4. SigPlace(sig, sigPc', got', sigCount', block', sum2Len', sigPos', sigOutcome')
    BY <2>1, <2>2, <2>3 DEF SigPlace, s
  <2> QED BY <1>1, <1>5, <2>1, <2>4, ReaderStep DEF s
<1>11. CASE rest # << >>
  <2>1. Len(rest) # 0
    BY <1>11, EmptySeq
  <2>2. sigPc' = "fixed" /\ sigOutcome' = "none"
    BY <1>1, <1>9, <2>1 DEF NextBlock, OutcomeAfter
  <2>3. SigPlace(sig, sigPc', got', sigCount', block', sum2Len', sigPos', sigOutcome')
    BY <1>7, <1>8, <1>11, <2>2 DEF SigPlace, s
  <2> QED BY <1>1, <1>5, <2>2, <2>3, ReaderStep DEF s
<1> QED BY <1>10, <1>11

LEMMA SignatureStep ==
  ASSUME SigInv, WriteSignature \/ WriteSignatureFails \/ SignatureReads
  PROVE  SigInv'
<1>1. CASE WriteSignature \/ WriteSignatureFails
  BY <1>1, WriterStep
<1>2. CASE SigReadFails
  <2>1. /\ sigPc # "used" /\ UNCHANGED sigWriterVars /\ sigPos' = sigPos
        /\ sigPc' = "returned" /\ sigOutcome' = "read"
    BY <1>2 DEF SigReadFails, SigFail
  <2>2. SigPlace(sig, sigPc', got', sigCount', block', sum2Len', sigPos', sigOutcome')
    BY <2>1 DEF SigPlace
  <2>3. sigPos \in Nat /\ sigPos <= Len(SignatureStream(sig))
    BY DEF SigInv
  <2> QED BY <2>1, <2>2, <2>3, ReaderStep
<1> QED BY <1>1, <1>2, HeaderStep, FixedStep, Sum2Step, TailStep DEF SignatureReads

LEMMA SignatureUnchanged ==
  ASSUME SigInv, UNCHANGED sigVars
  PROVE  SigInv'
BY DEF sigVars, sigWriterVars, sigReaderVars, SigInv

\* The answer is given, and the first connection is done with.
LEMMA AnswerKeepsSignature ==
  ASSUME SigInv, Answer
  PROVE  SigInv'
<1>1. /\ sigOutcome = "nil" /\ sigPc' = "used" /\ sigPos' = 0 /\ sigWriter' = "done"
      /\ sig' = sig /\ sigOutcome' = sigOutcome
  BY DEF Answer
<1>2. Encodable(sig)
  BY DEF SigInv
<1> DEFINE s == SignatureStream(sig)
<1>3. s \in Seq(Cells)
  BY <1>2, SignatureCells
<1> HIDE DEF s
<1>4. 0 <= Len(s)
  BY <1>3, LenProperties
<1>5. SigPlace(sig, sigPc', got', sigCount', block', sum2Len', sigPos', sigOutcome')
  BY <1>1 DEF SigPlace
<1> QED BY <1>1, <1>2, <1>4, <1>5 DEF SigInv, s

\* The invariant of the first connection: where the reader is in what was sent,
\* and that what it has decoded and what is ahead are together what was encoded.
THEOREM SignatureConnection == Spec => []SigInv
<1>1. Init => SigInv
  <2> SUFFICES ASSUME Init PROVE SigInv
    OBVIOUS
  <2>1. PICK f \in Bases, n \in DigestCells : SignatureInit(WireSignature(f, n))
    BY DEF Init
  <2> QED BY <2>1, SignatureEncodable, SignatureBegins
<1>2. SigInv /\ [Next]_vars => SigInv'
  <2> SUFFICES ASSUME SigInv, [Next]_vars PROVE SigInv'
    OBVIOUS
  <2>1. CASE WriteSignature \/ WriteSignatureFails \/ SignatureReads
    BY <2>1, SignatureStep
  <2>2. CASE Answer
    BY <2>2, AnswerKeepsSignature
  <2>3. CASE UNCHANGED sigVars
    BY <2>3, SignatureUnchanged
  <2> QED BY <2>1, <2>2, <2>3 DEF Next, vars, NoAnswer, Rest
<1> QED BY <1>1, <1>2, PTL DEF Spec

\* A signature that is accepted is the one that was encoded, and the reader is
\* where the message ends: for every basis, length of digests, length of fields
\* and next message, and wherever the connection breaks.
THEOREM AcceptedSignatureIsSent == Spec => []AcceptedIsSent
<1>1. SigInv => AcceptedIsSent
  <2> SUFFICES ASSUME SigInv, sigPc = "returned", sigOutcome = "nil"
               PROVE  got = sig /\ sigPos = SignatureLength
    BY DEF AcceptedIsSent
  <2> DEFINE s == SignatureStream(sig)
             n == SignatureLength
  <2>1. got = sig /\ Ahead(s, sigPos) = Following /\ sigPos \in Nat /\ sigPos <= Len(s)
    BY DEF SigInv, SigPlace
  <2>2. s \in Seq(Cells) /\ Len(s) = n + Len(Following)
    BY SignatureCells DEF SigInv, SignatureLength
  <2>3. n \in Nat /\ Len(Following) \in Nat
    <3>1. SignatureWrites(sig) \in Seq(Seq(Cells))
      BY SignatureCells DEF SigInv
    <3>2. FlattenSeq(SignatureWrites(sig)) \in Seq(Cells)
      BY <3>1, FlattenType
    <3> QED BY <3>2, WireAssumption, LenProperties DEF SignatureLength
  <2> HIDE DEF s, n
  <2>4. Len(Ahead(s, sigPos)) = Len(s) - sigPos
    BY <2>1, <2>2, AheadType
  <2>5. sigPos = n
    BY <2>1, <2>2, <2>3, <2>4
  <2> QED BY <2>1, <2>5 DEF n
<1> QED BY <1>1, SignatureConnection, PTL

\* No signature that the generators make is rejected as implausible, but for
\* the caps on the number of blocks and on the length of a digest.
THEOREM OnlyOversizedRejected == Spec => []RejectsOnlyOversized
<1>1. SigInv => RejectsOnlyOversized
  BY DEF SigInv, RejectsOnlyOversized, Oversized
<1> QED BY <1>1, SignatureConnection, PTL

-----------------------------------------------------------------------------
(* What instructions rebuild *)

\* The messages that can be sent to the owner of f.
Batch(f, mode) == {b \in Seq(Sendable(f)) : Len(b) < Word /\ (mode = "all" => b # << >>)}

LEMMA BatchType ==
  ASSUME NEW f, NEW mode
  PROVE  Batch(f, mode) \subseteq Seq(Instruction) /\ Seq(Batch(f, mode)) \subseteq Seq(Seq(Instruction))
<1> DEFINE B == Batch(f, mode)
<1>1. B \subseteq Seq(Instruction)
  BY SendableType DEF Batch
<1> HIDE DEF B
<1>2. Seq(B) \subseteq Seq(Seq(Instruction))
  BY <1>1
<1> QED BY <1>1, <1>2 DEF B

\* Instructions in one message, or cut into batches, are all sent in order.
LEMMA BatchesRebuild ==
  ASSUME NEW f \in Seq(Byte), NEW mode, NEW delta \in Seq(Sendable(f)), Len(delta) < Word,
         NEW b \in Batchings(mode, delta)
  PROVE  /\ b \in Seq(Batch(f, mode)) /\ (mode # "all" => Len(b) = 1)
         /\ AllRebuilt(f, b) = RebuiltFrom(f, delta)
<1> DEFINE g == BatchRebuilt(f)
           h == Applied(f)
           l == Len(delta)
           I == Instruction
<1>0. /\ delta \in Seq(I) /\ l \in Nat
      /\ Maps(g, Seq(I), Seq(Byte)) /\ Maps(h, I, Seq(Byte))
      /\ \A t \in Seq(I) : g[t] = FlatMap(h, t)
  <2>1. \A t \in Seq(I) : g[t] = FlatMap(h, t)
    BY DEF BatchRebuilt, RebuiltFrom
  <2> QED BY <2>1, SendableType, RebuiltMaps, LenProperties
<1>1. CASE mode # "all"
  <2>1. b = << delta >>
    BY <1>1 DEF Batchings
  <2>2. delta \in Batch(f, mode)
    BY <1>1 DEF Batch
  <2>3. b \in Seq(Batch(f, mode)) /\ Len(b) = 1
    BY <2>1, <2>2
  <2>4. FlatMap(g, << delta >>) = g[delta]
    <3> HIDE DEF g, I
    <3> QED BY <1>0, FlatMapOne
  <2> QED BY <1>0, <1>1, <2>1, <2>3, <2>4 DEF AllRebuilt, RebuiltFrom
<1>2. CASE mode = "all"
  <2>0. PICK n \in 0 .. MaxBatches : \E c \in Cuts(n, l) :
          b = [j \in 1 .. n |-> SubSeq(delta, c[j - 1] + 1, c[j])]
    BY <1>2 DEF Batchings
  <2>1. PICK c \in Cuts(n, l) : b = [j \in 1 .. n |-> SubSeq(delta, c[j - 1] + 1, c[j])]
    BY <2>0
  <2>2. /\ n \in Nat /\ c \in [0 .. n -> 0 .. l] /\ c[0] = 0 /\ c[n] = l
        /\ \A j \in 1 .. n : c[j - 1] < c[j]
    BY SessionAssumption DEF Cuts
  <2>3. ASSUME NEW j \in 1 .. n
        PROVE  /\ c[j - 1] \in 0 .. l /\ c[j] \in 0 .. l /\ c[j - 1] < c[j]
               /\ b[j] \in Batch(f, mode) /\ b[j] = SubSeq(delta, c[j - 1] + 1, c[j])
    <3> DEFINE lo == c[j - 1]
               hi == c[j]
               x == SubSeq(delta, lo + 1, hi)
    <3>1. lo \in 0 .. l /\ hi \in 0 .. l /\ lo < hi
      BY <2>2
    <3>2. b[j] = x
      BY <2>1
    <3> HIDE DEF lo, hi
    <3>3. lo \in Nat /\ hi \in Nat /\ lo <= hi /\ hi <= Len(delta) /\ l = Len(delta)
      BY <1>0, <3>1
    <3>4. x \in Seq(Sendable(f)) /\ Len(x) = hi - lo
      <4> HIDE DEF l
      <4>1. Slice(delta, lo, hi) \in Seq(Sendable(f)) /\ Len(Slice(delta, lo, hi)) = hi - lo
        BY <3>3, SliceType, ZenonT(60)
      <4> QED BY <4>1 DEF Slice
    <3> HIDE DEF x
    <3>5. Len(x) < Word /\ x # << >>
      BY <1>0, <3>1, <3>4, WireAssumption
    <3>6. x \in Batch(f, mode)
      BY <3>4, <3>5 DEF Batch
    <3> QED BY <3>1, <3>2, <3>6 DEF lo, hi, x
  <2>4. b \in Seq(Batch(f, mode)) /\ Len(b) = n
    <3> DEFINE B == Batch(f, mode)
    <3>1. b = [j \in 1 .. n |-> b[j]] /\ n \in Nat /\ \A j \in 1 .. n : b[j] \in B
      BY <2>1, <2>2, <2>3
    <3> HIDE DEF B
    <3>2. b \in Seq(B) /\ Len(b) = n
      BY ONLY <3>1
    <3> QED BY <3>2 DEF B
  <2>5. b \in Seq(Seq(I))
    BY <2>4, BatchType
  <2> DEFINE Same(m) == FlatMap(g, SubSeq(b, 1, m)) = FlatMap(h, SubSeq(delta, 1, c[m]))
             P == {m \in 0 .. n : Same(m)}
  <2>6. 0 \in P
    <3>1. SubSeq(b, 1, 0) = << >> /\ SubSeq(delta, 1, c[0]) = << >>
      BY <2>2, SubSeqEmpty
    <3> HIDE DEF g, h
    <3>2. FlatMap(g, SubSeq(b, 1, 0)) = << >> /\ FlatMap(h, SubSeq(delta, 1, c[0])) = << >>
      BY <3>1, FlatMapNone
    <3> QED BY <2>2, <3>2
  <2>7. ASSUME NEW m \in 0 .. n - 1, m \in P
        PROVE  m + 1 \in P
    <3> DEFINE lo == c[m]
               hi == c[m + 1]
               x == SubSeq(delta, 1, lo)
               y == SubSeq(delta, lo + 1, hi)
    <3>1. /\ m + 1 \in 1 .. n /\ m + 1 - 1 = m /\ m \in 0 .. Len(b) - 1
          /\ FlatMap(g, SubSeq(b, 1, m)) = FlatMap(h, x)
      BY <2>2, <2>4, <2>7
    <3>2. /\ lo \in 0 .. l /\ hi \in 0 .. l /\ lo < hi
          /\ b[m + 1] \in Batch(f, mode) /\ b[m + 1] = y
      BY <2>3, <3>1
    <3>3. y \in Seq(I)
      BY <3>2, BatchType
    <3>4. FlatMap(g, SubSeq(b, 1, m + 1)) = FlatMap(g, SubSeq(b, 1, m)) \o g[b[m + 1]]
      <4> DEFINE J == Seq(I)
      <4>1. Maps(g, J, Seq(Byte)) /\ b \in Seq(J) /\ m \in 0 .. Len(b) - 1
        BY <1>0, <2>5, <3>1
      <4> HIDE DEF g, J
      <4> QED BY ONLY <4>1, FlatMapNext, ZenonT(60)
    <3>5. g[b[m + 1]] = FlatMap(h, y)
      BY <1>0, <3>2, <3>3
    <3> HIDE DEF lo, hi, g, h, I
    <3>6. x \in Seq(I) /\ x \o y = SubSeq(delta, 1, hi)
      <4>1. /\ 1 \in 1 .. Len(delta) + 1 /\ lo \in 1 - 1 .. Len(delta) /\ hi \in lo .. Len(delta)
            /\ lo \in Nat /\ lo <= Len(delta)
        BY <1>0, <3>2
      <4>2. x \in Seq(I)
        BY <1>0, <4>1, PrefixType
      <4>3. SubSeq(delta, 1, lo) \o SubSeq(delta, lo + 1, hi) = SubSeq(delta, 1, hi)
        BY <4>1, ConcatAdjacentSubSeq
      <4> QED BY <4>2, <4>3
    <3> HIDE DEF x, y
    <3>7. FlatMap(h, x \o y) = FlatMap(h, x) \o FlatMap(h, y)
      <4>1. Maps(h, I, Seq(Byte)) /\ x \in Seq(I) /\ y \in Seq(I)
        BY <1>0, <3>3, <3>6
      <4> QED BY ONLY <4>1, FlatMapConcat
    <3>8. FlatMap(g, SubSeq(b, 1, m + 1)) = FlatMap(h, SubSeq(delta, 1, hi))
      BY <3>1, <3>4, <3>5, <3>6, <3>7
    <3> QED BY <2>2, <3>1, <3>8 DEF hi
  <2> HIDE DEF P
  <2>8. 0 .. n \subseteq P
    BY <2>2, <2>6, <2>7, Induction
  <2>9. FlatMap(g, SubSeq(b, 1, n)) = FlatMap(h, SubSeq(delta, 1, l))
    BY <2>2, <2>8 DEF P
  <2>10. SubSeq(b, 1, n) = b /\ SubSeq(delta, 1, l) = delta
    BY <2>4, SubSeqFull
  <2> QED BY <1>2, <2>4, <2>9, <2>10 DEF AllRebuilt, RebuiltFrom
<1> QED BY <1>1, <1>2

-----------------------------------------------------------------------------
(* What instructions are on the wire *)

WritesOf == [r \in Instruction |-> InstructionWrites(r)]
CellsOf(list) == FlattenSeq(FlatMap(WritesOf, list))
MessageOf == [b \in Seq(Instruction) |-> InstructionsWrites(b)]
BatchCells(batches) == FlattenSeq(FlatMap(MessageOf, batches))
EndCells(t) == IF t.mode = "all" THEN << 0 >> \o Following ELSE Following
Stream(t) == FlattenSeq(MessageWrites(t) \o << Following >>)

LEMMA BytesAreCells == Seq(Byte) \subseteq Seq(Nat)
BY BytesAreNaturals

LEMMA InstructionWritesType ==
  ASSUME NEW r \in Instruction
  PROVE  InstructionWrites(r) \in Seq(Seq(Nat))
<1>1. r.data \in Seq(Nat) /\ Len(r.data) \in Nat /\ r.blockIdx \in Nat
  <2>1. r.data \in Seq(Byte) /\ r.blockIdx \in Nat
    BY DEF Instruction
  <2> QED BY <2>1, BytesAreNaturals, LenProperties
<1>2. Uint32(Len(r.data)) \in Nat /\ Uint32(r.blockIdx) \in Nat
  <2> DEFINE n == Len(r.data)
             k == r.blockIdx
  <2>1. n \in Int /\ k \in Int
    BY <1>1
  <2> HIDE DEF n, k
  <2>2. n % Word \in 0 .. Word - 1 /\ k % Word \in 0 .. Word - 1
    BY <2>1, ModType, WireAssumption
  <2>3. n % Word \in Nat /\ k % Word \in Nat
    BY <2>2, WireAssumption
  <2> QED BY <2>3 DEF Uint32, n, k
<1>3. << 0, Uint32(Len(r.data)) >> \in Seq(Nat) /\ << 1, Uint32(r.blockIdx) >> \in Seq(Nat)
  BY <1>2
<1> DEFINE C == Seq(Nat)
           x == << 0, Uint32(Len(r.data)) >>
           y == << 1, Uint32(r.blockIdx) >>
<1>4. x \in C /\ y \in C /\ r.data \in C
  BY <1>1, <1>3
<1>5. InstructionWrites(r) = IF r.isLiteral THEN << x, r.data >> ELSE << y >>
  BY DEF InstructionWrites
<1> HIDE DEF C, x, y
<1>6. << x, r.data >> \in Seq(C) /\ << y >> \in Seq(C)
  BY <1>4
<1>7. InstructionWrites(r) \in Seq(C)
  BY <1>5, <1>6
<1> QED BY <1>7 DEF C

LEMMA WritesMap ==
  /\ Maps(WritesOf, Instruction, Seq(Seq(Nat)))
  /\ \A list \in Seq(Instruction) :
       FlatMap(WritesOf, list) \in Seq(Seq(Nat)) /\ CellsOf(list) \in Seq(Nat)
<1>1. Maps(WritesOf, Instruction, Seq(Seq(Nat)))
  BY InstructionWritesType DEF WritesOf, Maps
<1>2. ASSUME NEW list \in Seq(Instruction)
      PROVE  FlatMap(WritesOf, list) \in Seq(Seq(Nat)) /\ CellsOf(list) \in Seq(Nat)
  <2> DEFINE C == Seq(Nat)
             I == Instruction
             w == FlatMap(WritesOf, list)
  <2>1. Maps(WritesOf, I, Seq(C)) /\ list \in Seq(I)
    BY <1>1
  <2>2. w \in Seq(C)
    <3> HIDE DEF C, I
    <3> QED BY ONLY <2>1, FlatMapType, Zenon DEF w
  <2> HIDE DEF w
  <2>3. FlattenSeq(w) \in Seq(Nat)
    BY <2>2, FlattenType
  <2> QED BY <2>2, <2>3 DEF w, CellsOf
<1> QED BY <1>1, <1>2

LEMMA PairIsConcat ==
  ASSUME NEW x, NEW y
  PROVE  << x, y >> = << x >> \o << y >>
<1> DEFINE S == {x, y}
           a == << x >>
           b == << y >>
<1>1. /\ a \in Seq(S) /\ b \in Seq(S) /\ Len(a) = 1 /\ Len(b) = 1 /\ a[1] = x /\ b[1] = y
      /\ << x, y >> \in Seq(S)
  OBVIOUS
<1>2. /\ a \o b \in Seq(S) /\ Len(a \o b) = Len(a) + Len(b)
      /\ \A k \in 1 .. Len(a) + Len(b) : (a \o b)[k] = IF k <= Len(a) THEN a[k] ELSE b[k - Len(a)]
  BY <1>1, ConcatProperties
<1>3. Len(a \o b) = 2 /\ (a \o b)[1] = x /\ (a \o b)[2] = y
  BY <1>1, <1>2
<1> HIDE DEF a, b
<1> DEFINE c == << x, y >>
           v == a \o b
<1>4. /\ v \in Seq(S) /\ c \in Seq(S) /\ Len(v) = 2 /\ Len(c) = 2
      /\ v[1] = x /\ v[2] = y /\ c[1] = x /\ c[2] = y
  BY <1>1, <1>2, <1>3
<1> HIDE DEF v, c
<1>5. v = c
  <2>1. \A k \in 1 .. Len(v) : v[k] = c[k]
    BY <1>4
  <2> QED BY <1>4, <2>1, SeqEqual
<1> QED BY <1>5 DEF v, c, a, b

\* The cells of an instruction, whose fields fit.
LEMMA InstructionCells ==
  ASSUME NEW f \in Bases, NEW r \in Sendable(f)
  PROVE  /\ r \in Instruction
         /\ r.isLiteral => /\ r.data \in Seq(Byte) /\ Len(r.data) <= Most(ChunkSize, BlockSize)
                           /\ FlattenSeq(InstructionWrites(r)) = << 0 >> \o (<< Len(r.data) >> \o r.data)
         /\ ~ r.isLiteral => /\ r.blockIdx \in 0 .. NumBlocks(f) - 1
                             /\ FlattenSeq(InstructionWrites(r)) = << 1 >> \o << r.blockIdx >>
<1>1. /\ r \in Instruction /\ r.data \in Seq(Byte) /\ r.data \in Seq(Nat) /\ Len(r.data) \in Nat
      /\ r.blockIdx \in Nat
      /\ r.isLiteral => Len(r.data) <= Most(ChunkSize, BlockSize)
      /\ ~ r.isLiteral => r.blockIdx < NumBlocks(f)
  <2>1. /\ r \in Instruction /\ r.data \in Seq(Byte) /\ r.blockIdx \in Nat
        /\ r.isLiteral => Len(r.data) <= Most(ChunkSize, BlockSize)
        /\ ~ r.isLiteral => r.blockIdx < NumBlocks(f)
    BY DEF Sendable, Instruction
  <2> QED BY <2>1, BytesAreNaturals, LenProperties
<1>2. NumBlocks(f) \in Nat /\ NumBlocks(f) < Word
  BY SessionAssumption, FieldsAssumption, BlocksAtMostBytes
<1>3. CASE r.isLiteral
  <2> DEFINE n == Len(r.data)
             x == << 0, n >>
             d == r.data
  <2>1. n \in 0 .. Word - 1
    BY <1>1, <1>3, FieldsAssumption, WireAssumption, ChunkSizeAssumption, BlockSizeAssumption DEF Most
  <2>2. Uint32(n) = n
    BY <2>1, SmallMod, WireAssumption DEF Uint32
  <2>3. InstructionWrites(r) = << x >> \o << d >>
    <3>1. InstructionWrites(r) = << x, d >>
      BY <1>3, <2>2 DEF InstructionWrites
    <3>2. << x, d >> = << x >> \o << d >>
      BY PairIsConcat
    <3> QED BY <3>1, <3>2
  <2>4. x \in Seq(Nat) /\ d \in Seq(Nat) /\ << 0 >> \in Seq(Nat) /\ << n >> \in Seq(Nat)
        /\ x = << 0 >> \o << n >>
    <3> HIDE DEF n
    <3> QED BY <1>1, <2>1, WireAssumption
  <2> HIDE DEF x, d, n
  <2>5. FlattenSeq(<< x >> \o << d >>) = x \o d
    <3> DEFINE q == << d >>
    <3>1. q \in Seq(Seq(Nat)) /\ FlattenSeq(q) = d
      BY <2>4, FlattenOne
    <3> HIDE DEF q
    <3>2. FlattenSeq(<< x >> \o q) = x \o FlattenSeq(q)
      BY <2>4, <3>1, FlattenCons
    <3> QED BY <3>1, <3>2 DEF q
  <2> DEFINE a == << 0 >>
             b == << n >>
  <2>6. a \in Seq(Nat) /\ b \in Seq(Nat) /\ d \in Seq(Nat) /\ x = a \o b
    BY <2>4
  <2> HIDE DEF a, b
  <2>7. (a \o b) \o d = a \o (b \o d)
    BY ONLY <2>6, ConcatAssociative, SMTT(30)
  <2> QED BY <1>1, <1>3, <2>3, <2>5, <2>6, <2>7 DEF a, b, d, n
<1>4. CASE ~ r.isLiteral
  <2>1. r.blockIdx \in 0 .. Word - 1 /\ r.blockIdx \in 0 .. NumBlocks(f) - 1
    BY <1>1, <1>2, <1>4, WireAssumption
  <2>2. Uint32(r.blockIdx) = r.blockIdx
    BY <2>1, SmallMod, WireAssumption DEF Uint32
  <2> DEFINE y == << 1, r.blockIdx >>
  <2>3. InstructionWrites(r) = << y >>
    BY <1>4, <2>2 DEF InstructionWrites
  <2>4. y \in Seq(Nat) /\ y = << 1 >> \o << r.blockIdx >>
    BY <1>1
  <2> HIDE DEF y
  <2>5. FlattenSeq(<< y >>) = y
    BY <2>4, FlattenOne
  <2> QED BY <1>1, <1>4, <2>1, <2>3, <2>4, <2>5
<1> QED BY <1>3, <1>4

LEMMA CellsNext ==
  ASSUME NEW list \in Seq(Instruction), list # << >>
  PROVE  CellsOf(list) = FlattenSeq(InstructionWrites(Head(list))) \o CellsOf(Tail(list))
<1> DEFINE x == Head(list)
           t == Tail(list)
           a == InstructionWrites(x)
           b == FlatMap(WritesOf, t)
           C == Seq(Nat)
           I == Instruction
<1>1. x \in I /\ t \in Seq(I)
  BY ConsParts
<1>2. Maps(WritesOf, I, Seq(C)) /\ list \in Seq(I) /\ list # << >>
  BY WritesMap
<1>3. FlatMap(WritesOf, list) = WritesOf[x] \o b
  <2> HIDE DEF I, C
  <2> QED BY ONLY <1>2, FlatMapCons, ZenonT(60) DEF x, b, t
<1>4. WritesOf[x] = a
  BY <1>1 DEF WritesOf
<1>5. a \in Seq(C) /\ b \in Seq(C)
  BY <1>1, InstructionWritesType, WritesMap
<1> HIDE DEF a, b
<1>6. FlattenSeq(a \o b) = FlattenSeq(a) \o FlattenSeq(b)
  BY <1>5, FlattenConcat
<1> HIDE DEF x, t
<1>7. CellsOf(list) = FlattenSeq(a) \o CellsOf(t)
  BY <1>3, <1>4, <1>6 DEF CellsOf, b
<1> QED BY <1>7 DEF a, x, t

LEMMA CellsNone == CellsOf(<< >>) = << >> /\ BatchCells(<< >>) = << >>
<1>1. FlatMap(WritesOf, << >>) = << >> /\ FlatMap(MessageOf, << >>) = << >>
  BY FlatMapNone
<1>2. FlattenSeq(<< >>) = << >>
  BY DEF FlattenSeq
<1> QED BY <1>1, <1>2 DEF CellsOf, BatchCells

\* A message is its count and its instructions.
LEMMA MessageCells ==
  ASSUME NEW b \in Seq(Instruction)
  PROVE  /\ InstructionsWrites(b) \in Seq(Seq(Nat))
         /\ << Uint32(Len(b)) >> \in Seq(Nat)
         /\ FlattenSeq(InstructionsWrites(b)) = << Uint32(Len(b)) >> \o CellsOf(b)
<1> DEFINE h == << Uint32(Len(b)) >>
           w == FlatMap(WritesOf, b)
           C == Seq(Nat)
<1>1. h \in C
  BY LenProperties, WireAssumption DEF Uint32
<1>2. w \in Seq(C)
  BY WritesMap
<1>3. w = FlattenSeq([k \in DOMAIN b |-> InstructionWrites(b[k])])
  <2>1. \A k \in DOMAIN b : b[k] \in Instruction
    OBVIOUS
  <2>2. Mapped(WritesOf, b) = [k \in DOMAIN b |-> InstructionWrites(b[k])]
    BY <2>1 DEF Mapped, WritesOf
  <2> QED BY <2>2 DEF FlatMap
<1> HIDE DEF h, w
<1>4. InstructionsWrites(b) = << h >> \o w
  BY <1>3 DEF InstructionsWrites, h
<1>5. << h >> \in Seq(C)
  <2> HIDE DEF C
  <2> QED BY <1>1
<1>6. << h >> \o w \in Seq(C)
  BY <1>2, <1>5, ConcatProperties
<1>7. FlattenSeq(<< h >> \o w) = h \o FlattenSeq(w)
  BY <1>1, <1>2, FlattenCons
<1> QED BY <1>1, <1>4, <1>6, <1>7 DEF h, w, CellsOf

LEMMA MessagesMap ==
  /\ Maps(MessageOf, Seq(Instruction), Seq(Seq(Nat)))
  /\ \A p \in Seq(Seq(Instruction)) :
       FlatMap(MessageOf, p) \in Seq(Seq(Nat)) /\ BatchCells(p) \in Seq(Nat)
<1>1. Maps(MessageOf, Seq(Instruction), Seq(Seq(Nat)))
  BY MessageCells DEF MessageOf, Maps
<1>2. ASSUME NEW p \in Seq(Seq(Instruction))
      PROVE  FlatMap(MessageOf, p) \in Seq(Seq(Nat)) /\ BatchCells(p) \in Seq(Nat)
  <2> DEFINE C == Seq(Nat)
             J == Seq(Instruction)
             w == FlatMap(MessageOf, p)
  <2>1. Maps(MessageOf, J, Seq(C)) /\ p \in Seq(J)
    BY <1>1, <1>2
  <2>2. w \in Seq(C)
    <3> HIDE DEF C, J
    <3> QED BY ONLY <2>1, FlatMapType, Zenon DEF w
  <2> HIDE DEF w
  <2>3. FlattenSeq(w) \in Seq(Nat)
    BY <2>2, FlattenType
  <2> QED BY <2>2, <2>3 DEF w, BatchCells
<1> QED BY <1>1, <1>2

LEMMA BatchNext ==
  ASSUME NEW p \in Seq(Seq(Instruction)), p # << >>
  PROVE  BatchCells(p) = FlattenSeq(InstructionsWrites(Head(p))) \o BatchCells(Tail(p))
<1> DEFINE x == Head(p)
           t == Tail(p)
           a == InstructionsWrites(x)
           b == FlatMap(MessageOf, t)
           C == Seq(Nat)
           J == Seq(Instruction)
<1>1. x \in J /\ t \in Seq(J)
  <2> HIDE DEF J
  <2>1. p \in Seq(J)
    BY DEF J
  <2> QED BY <2>1, ConsParts
<1>2. Maps(MessageOf, J, Seq(C)) /\ p \in Seq(J) /\ p # << >>
  BY MessagesMap
<1>3. FlatMap(MessageOf, p) = MessageOf[x] \o b
  <2> HIDE DEF J, C
  <2> QED BY ONLY <1>2, FlatMapCons, ZenonT(60) DEF x, b, t
<1>4. MessageOf[x] = a
  BY <1>1 DEF MessageOf
<1>5. a \in Seq(C) /\ b \in Seq(C)
  BY <1>1, MessageCells, MessagesMap
<1> HIDE DEF a, b
<1>6. FlattenSeq(a \o b) = FlattenSeq(a) \o FlattenSeq(b)
  BY <1>5, FlattenConcat
<1> HIDE DEF x, t
<1>7. BatchCells(p) = FlattenSeq(a) \o BatchCells(t)
  BY <1>3, <1>4, <1>6 DEF BatchCells, b
<1> QED BY <1>7 DEF a, x, t

LEMMA EndCellsType ==
  ASSUME NEW t
  PROVE  EndCells(t) \in Seq(Nat)
<1>1. Following \in Seq(Nat) /\ << 0 >> \in Seq(Nat)
  BY WireAssumption
<1>2. << 0 >> \o Following \in Seq(Nat)
  BY <1>1, ConcatProperties
<1> QED BY <1>1, <1>2 DEF EndCells

\* All that is sent for a transfer: its batches and what follows them.
LEMMA StreamCells ==
  ASSUME NEW t, t.batches \in Seq(Batch(t.basis, t.mode)), t.mode # "all" => Len(t.batches) = 1
  PROVE  /\ MessageWrites(t) \in Seq(Seq(Nat))
         /\ MessageWrites(t) \o << Following >> \in Seq(Seq(Nat))
         /\ Stream(t) \in Seq(Nat)
         /\ Stream(t) = BatchCells(t.batches) \o EndCells(t)
         /\ Len(Stream(t)) = Len(FlattenSeq(MessageWrites(t))) + Len(Following)
<1> DEFINE C == Seq(Nat)
           p == t.batches
           m == MessageWrites(t)
           w == FlatMap(MessageOf, p)
           end == << << 0 >> >>
           next == << Following >>
<1>1. p \in Seq(Seq(Instruction)) /\ w \in Seq(C) /\ BatchCells(p) \in Seq(Nat)
  BY BatchType, MessagesMap
<1>2. /\ Following \in Seq(Nat) /\ << 0 >> \in Seq(Nat)
      /\ FlattenSeq(next) = Following /\ FlattenSeq(end) = << 0 >>
  <2>1. Following \in Seq(Nat) /\ << 0 >> \in Seq(Nat)
    BY WireAssumption
  <2> QED BY <2>1, FlattenOne
<1>3. next \in Seq(C) /\ end \in Seq(C)
  <2> HIDE DEF C
  <2>1. Following \in C /\ << 0 >> \in C
    BY <1>2 DEF C
  <2> QED BY <2>1
<1>4. m \in Seq(C) /\ FlattenSeq(m) = IF t.mode = "all" THEN BatchCells(p) \o << 0 >> ELSE BatchCells(p)
  <2>1. CASE t.mode = "all"
    <3>1. w = FlattenSeq([k \in DOMAIN p |-> InstructionsWrites(p[k])])
      <4>1. \A k \in DOMAIN p : p[k] \in Seq(Instruction)
        BY <1>1
      <4>2. Mapped(MessageOf, p) = [k \in DOMAIN p |-> InstructionsWrites(p[k])]
        BY <4>1 DEF Mapped, MessageOf
      <4> QED BY <4>2 DEF FlatMap
    <3>2. m = w \o end
      BY <2>1, <3>1 DEF MessageWrites, BatchesWrites
    <3> HIDE DEF end
    <3>3. w \o end \in Seq(C)
      <4> HIDE DEF w, C
      <4> QED BY <1>1, <1>3, ConcatProperties
    <3>4. FlattenSeq(w \o end) = FlattenSeq(w) \o FlattenSeq(end)
      <4> HIDE DEF w
      <4> QED BY <1>1, <1>3, FlattenConcat
    <3> QED BY <1>2, <2>1, <3>2, <3>3, <3>4 DEF BatchCells
  <2>2. CASE t.mode # "all"
    <3> DEFINE b == p[1]
               J == Seq(Instruction)
    <3>1. b \in J /\ p = << b >> /\ m = InstructionsWrites(b)
      <4>1. p \in Seq(J) /\ Len(p) = 1
        BY <1>1, <2>2
      <4> HIDE DEF J
      <4>2. p[1] \in J /\ p = << p[1] >>
        BY <4>1
      <4> QED BY <2>2, <4>2 DEF MessageWrites
    <3> HIDE DEF b
    <3>2. MessageOf[b] = InstructionsWrites(b) /\ InstructionsWrites(b) \in Seq(C)
      BY <3>1, MessageCells DEF MessageOf
    <3>3. FlatMap(MessageOf, << b >>) = MessageOf[b]
      <4>1. Maps(MessageOf, J, Seq(C)) /\ b \in J
        BY <3>1, MessagesMap
      <4> HIDE DEF J, C
      <4> QED BY ONLY <4>1, FlatMapOne, ZenonT(60)
    <3> QED BY <2>2, <3>1, <3>2, <3>3 DEF BatchCells
  <2> QED BY <2>1, <2>2
<1>5. m \o next \in Seq(C) /\ FlattenSeq(m \o next) = FlattenSeq(m) \o Following
  <2>1. m \o next \in Seq(C)
    <3> HIDE DEF m, next, C
    <3> QED BY <1>3, <1>4, ConcatProperties
  <2>2. FlattenSeq(m \o next) = FlattenSeq(m) \o FlattenSeq(next)
    <3> HIDE DEF m, next
    <3> QED BY <1>3, <1>4, FlattenConcat
  <2> QED BY <1>2, <2>1, <2>2
<1>6. FlattenSeq(m) \in Seq(Nat)
  <2> HIDE DEF m
  <2> QED BY <1>4, FlattenType
<1>7. FlattenSeq(m) \o Following = BatchCells(p) \o EndCells(t)
  <2>1. CASE t.mode = "all"
    <3> DEFINE x == BatchCells(p)
               y == << 0 >>
    <3>1. x \in Seq(Nat) /\ y \in Seq(Nat) /\ Following \in Seq(Nat)
      BY <1>1, <1>2
    <3>2. FlattenSeq(m) = x \o y /\ EndCells(t) = y \o Following
      BY <1>4, <2>1 DEF EndCells
    <3> HIDE DEF x, y
    <3> DEFINE z == Following
    <3>3. Seqs(Nat, x, y, z)
      BY <3>1 DEF Seqs
    <3> HIDE DEF z
    <3>4. (x \o y) \o z = x \o (y \o z)
      BY ONLY <3>3, Associative, SMTT(30)
    <3> QED BY <3>2, <3>4 DEF x, z
  <2>2. CASE t.mode # "all"
    BY <1>4, <2>2 DEF EndCells
  <2> QED BY <2>1, <2>2
<1>8. Len(FlattenSeq(m) \o Following) = Len(FlattenSeq(m)) + Len(Following)
      /\ FlattenSeq(m) \o Following \in Seq(Nat)
  <2> DEFINE x == FlattenSeq(m)
  <2>1. x \in Seq(Nat) /\ Following \in Seq(Nat)
    BY <1>2, <1>6
  <2> HIDE DEF x
  <2>2. Len(x \o Following) = Len(x) + Len(Following) /\ x \o Following \in Seq(Nat)
    BY <2>1, ConcatProperties
  <2> QED BY <2>2 DEF x
<1> HIDE DEF m
<1> QED BY <1>4, <1>5, <1>7, <1>8 DEF Stream, m

-----------------------------------------------------------------------------
(* What is left of a transfer, and what it rebuilds *)

LEMMA RebuiltNext ==
  ASSUME NEW f \in Seq(Byte), NEW list \in Seq(Instruction), list # << >>
  PROVE  RebuiltFrom(f, list) = Apply(f, Head(list)) \o RebuiltFrom(f, Tail(list))
<1> DEFINE g == Applied(f)
           x == Head(list)
           I == Instruction
<1>1. Maps(g, I, Seq(Byte)) /\ list \in Seq(I) /\ list # << >>
  BY RebuiltMaps
<1>2. x \in I
  BY ConsParts
<1>3. g[x] = Apply(f, x)
  BY <1>2 DEF Applied
<1>4. FlatMap(g, list) = g[x] \o FlatMap(g, Tail(list))
  <2> HIDE DEF g, I
  <2> QED BY ONLY <1>1, FlatMapCons, ZenonT(60) DEF x
<1> QED BY <1>3, <1>4 DEF RebuiltFrom

LEMMA AllRebuiltNext ==
  ASSUME NEW f \in Seq(Byte), NEW p \in Seq(Seq(Instruction)), p # << >>
  PROVE  AllRebuilt(f, p) = RebuiltFrom(f, Head(p)) \o AllRebuilt(f, Tail(p))
<1> DEFINE g == BatchRebuilt(f)
           x == Head(p)
           J == Seq(Instruction)
<1>1. Maps(g, J, Seq(Byte)) /\ p \in Seq(J) /\ p # << >>
  BY RebuiltMaps
<1>2. x \in J
  <2> HIDE DEF J
  <2> QED BY <1>1, ConsParts
<1>3. g[x] = RebuiltFrom(f, x)
  BY <1>2 DEF BatchRebuilt
<1>4. FlatMap(g, p) = g[x] \o FlatMap(g, Tail(p))
  <2> HIDE DEF g, J
  <2>1. FlatMap(g, p) = g[Head(p)] \o FlatMap(g, Tail(p))
    BY ONLY <1>1, FlatMapCons
  <2> QED BY <2>1
<1> QED BY <1>3, <1>4 DEF AllRebuilt

LEMMA AllRebuiltType ==
  ASSUME NEW f \in Seq(Byte), NEW p \in Seq(Seq(Instruction))
  PROVE  AllRebuilt(f, p) \in Seq(Byte)
<1> DEFINE J == Seq(Instruction)
<1>1. Maps(BatchRebuilt(f), J, Seq(Byte)) /\ p \in Seq(J)
  BY RebuiltMaps
<1> HIDE DEF J
<1> QED BY ONLY <1>1, FlatMapType, Zenon DEF AllRebuilt

LEMMA RebuiltNone ==
  ASSUME NEW f
  PROVE  RebuiltFrom(f, << >>) = << >> /\ AllRebuilt(f, << >>) = << >>
BY FlatMapNone DEF RebuiltFrom, AllRebuilt

LEMMA RebuiltAppend ==
  ASSUME NEW f \in Seq(Byte), NEW list \in Seq(Instruction), NEW x \in Instruction
  PROVE  RebuiltFrom(f, Append(list, x)) = RebuiltFrom(f, list) \o Apply(f, x)
<1> DEFINE g == Applied(f)
           I == Instruction
           one == << x >>
<1>1. Maps(g, I, Seq(Byte)) /\ list \in Seq(I) /\ one \in Seq(I) /\ x \in I
  BY RebuiltMaps
<1>2. Append(list, x) = list \o one
  BY <1>1, AppendIsConcat
<1>3. g[x] = Apply(f, x)
  BY <1>1 DEF Applied
<1>4. FlatMap(g, one) = g[x]
  <2> HIDE DEF g, I
  <2> QED BY ONLY <1>1, FlatMapOne, ZenonT(60) DEF one
<1>5. FlatMap(g, list \o one) = FlatMap(g, list) \o FlatMap(g, one)
  <2> HIDE DEF g, I, one
  <2> QED BY ONLY <1>1, FlatMapConcat
<1> QED BY <1>2, <1>3, <1>4, <1>5 DEF RebuiltFrom

\* c and r are the cells and the bytes of the batches later; or of n
\* instructions and the batches behind them.
Coming(t, later, c, r) ==
  /\ later \in Seq(Batch(t.basis, t.mode))
  /\ c = BatchCells(later) \o EndCells(t) /\ r = AllRebuilt(t.basis, later)

Remaining(t, n, c, r) ==
  \E list \in Seq(Sendable(t.basis)), later \in Seq(Batch(t.basis, t.mode)) :
    /\ n = Len(list) /\ (t.mode # "all" => later = << >>)
    /\ c = CellsOf(list) \o (BatchCells(later) \o EndCells(t))
    /\ r = RebuiltFrom(t.basis, list) \o AllRebuilt(t.basis, later)

LEMMA ComingType ==
  ASSUME NEW t, t.basis \in Bases, NEW later, NEW c, NEW r, Coming(t, later, c, r)
  PROVE  c \in Seq(Nat) /\ r \in Seq(Byte)
<1>1. later \in Seq(Seq(Instruction)) /\ t.basis \in Seq(Byte)
  BY BatchType, SessionAssumption DEF Coming
<1>2. BatchCells(later) \in Seq(Nat) /\ EndCells(t) \in Seq(Nat) /\ AllRebuilt(t.basis, later) \in Seq(Byte)
  BY <1>1, MessagesMap, EndCellsType, AllRebuiltType
<1> QED BY <1>2, ConcatProperties DEF Coming

LEMMA ComingNone ==
  ASSUME NEW t, NEW c, NEW r, Coming(t, << >>, c, r)
  PROVE  c = EndCells(t) /\ r = << >>
<1>1. EndCells(t) \in Seq(Nat) /\ BatchCells(<< >>) = << >> /\ AllRebuilt(t.basis, << >>) = << >>
  BY EndCellsType, CellsNone, RebuiltNone
<1>2. << >> \o EndCells(t) = EndCells(t)
  BY <1>1
<1> QED BY <1>1, <1>2 DEF Coming

LEMMA RemainingType ==
  ASSUME NEW t, t.basis \in Bases, NEW n, NEW c, NEW r, Remaining(t, n, c, r)
  PROVE  n \in Nat /\ c \in Seq(Nat) /\ r \in Seq(Byte)
<1>1. PICK list \in Seq(Sendable(t.basis)), later \in Seq(Batch(t.basis, t.mode)) :
        /\ n = Len(list)
        /\ c = CellsOf(list) \o (BatchCells(later) \o EndCells(t))
        /\ r = RebuiltFrom(t.basis, list) \o AllRebuilt(t.basis, later)
  BY DEF Remaining
<1>2. later \in Seq(Seq(Instruction)) /\ t.basis \in Seq(Byte) /\ list \in Seq(Instruction)
  BY BatchType, SendableType, SessionAssumption
<1> DEFINE a == CellsOf(list)
           b == BatchCells(later)
           e == EndCells(t)
           x == RebuiltFrom(t.basis, list)
           y == AllRebuilt(t.basis, later)
<1>3. a \in Seq(Nat) /\ b \in Seq(Nat) /\ e \in Seq(Nat) /\ x \in Seq(Byte) /\ y \in Seq(Byte)
  BY <1>2, MessagesMap, WritesMap, EndCellsType, AllRebuiltType, RebuiltMaps
<1>4. c = a \o (b \o e) /\ r = x \o y /\ n \in Nat
  BY <1>1, <1>2, LenProperties
<1> HIDE DEF a, b, e, x, y
<1>5. b \o e \in Seq(Nat) /\ x \o y \in Seq(Byte)
  BY ONLY <1>3, ConcatProperties
<1>6. a \o (b \o e) \in Seq(Nat)
  BY ONLY <1>3, <1>5, ConcatProperties
<1> QED BY <1>4, <1>5, <1>6

\* After the last instruction of a batch come the batches behind it.
LEMMA RemainingNone ==
  ASSUME NEW t, t.basis \in Bases, NEW c, NEW r, Remaining(t, 0, c, r)
  PROVE  \E later : Coming(t, later, c, r) /\ (t.mode # "all" => later = << >>)
<1>1. PICK list \in Seq(Sendable(t.basis)), later \in Seq(Batch(t.basis, t.mode)) :
        /\ 0 = Len(list) /\ (t.mode # "all" => later = << >>)
        /\ c = CellsOf(list) \o (BatchCells(later) \o EndCells(t))
        /\ r = RebuiltFrom(t.basis, list) \o AllRebuilt(t.basis, later)
  BY DEF Remaining
<1>2. later \in Seq(Seq(Instruction)) /\ t.basis \in Seq(Byte) /\ list = << >>
  BY <1>1, BatchType, SessionAssumption
<1> DEFINE b == BatchCells(later)
           e == EndCells(t)
           y == AllRebuilt(t.basis, later)
<1>3. b \in Seq(Nat) /\ e \in Seq(Nat) /\ y \in Seq(Byte)
  BY <1>2, MessagesMap, EndCellsType, AllRebuiltType
<1>4. CellsOf(list) = << >> /\ RebuiltFrom(t.basis, list) = << >>
  BY <1>2, CellsNone, RebuiltNone
<1>5. c = << >> \o (b \o e) /\ r = << >> \o y
  BY <1>1, <1>4
<1> HIDE DEF b, e, y
<1>6. c = b \o e /\ r = y
  <2>1. b \o e \in Seq(Nat)
    BY ONLY <1>3, ConcatProperties
  <2> DEFINE v == b \o e
  <2>2. v \in Seq(Nat) /\ c = << >> \o v
    BY <1>5, <2>1
  <2> HIDE DEF v
  <2>3. << >> \o v = v /\ << >> \o y = y
    BY <1>3, <2>2
  <2> QED BY <1>5, <2>2, <2>3 DEF v
<1>7. Coming(t, later, c, r)
  BY <1>1, <1>6 DEF Coming, b, e, y
<1> QED BY <1>1, <1>7

\* A batch is its count and its instructions.
LEMMA ComingNext ==
  ASSUME NEW t, t.basis \in Bases, NEW later, NEW c, NEW r, Coming(t, later, c, r), later # << >>,
         t.mode # "all" => Len(later) = 1
  PROVE  \E n \in Nat : \E a :
           /\ c = << n >> \o a /\ Remaining(t, n, a, r) /\ (t.mode = "all" => n # 0)
<1> DEFINE f == t.basis
           B == Batch(f, t.mode)
           x == Head(later)
           more == Tail(later)
<1>1. later \in Seq(B) /\ later \in Seq(Seq(Instruction)) /\ f \in Seq(Byte)
  BY BatchType, SessionAssumption DEF Coming
<1>2. x \in B /\ more \in Seq(B) /\ Len(more) = Len(later) - 1
  <2> HIDE DEF B
  <2> QED BY <1>1, ConsParts
<1>3. /\ x \in Seq(Sendable(f)) /\ x \in Seq(Instruction) /\ Len(x) \in Nat /\ Len(x) < Word
      /\ t.mode = "all" => Len(x) # 0
  BY <1>2, SendableType, LenProperties DEF Batch
<1>4. more \in Seq(Seq(Instruction)) /\ (t.mode # "all" => more = << >>)
  <2>1. more \in Seq(Seq(Instruction))
    BY <1>2, BatchType
  <2>2. t.mode # "all" => Len(more) = 0
    BY <1>2
  <2> HIDE DEF more
  <2> QED BY <2>1, <2>2
<1>5. Uint32(Len(x)) = Len(x)
  <2>1. Len(x) \in 0 .. Word - 1
    BY <1>3, WireAssumption
  <2> QED BY <2>1, SmallMod, WireAssumption DEF Uint32
<1>6. FlattenSeq(InstructionsWrites(x)) = << Len(x) >> \o CellsOf(x)
  BY <1>3, <1>5, MessageCells
<1> DEFINE h == << Len(x) >>
           l == CellsOf(x)
           b == BatchCells(more)
           e == EndCells(t)
<1>7. BatchCells(later) = (h \o l) \o b /\ AllRebuilt(f, later) = RebuiltFrom(f, x) \o AllRebuilt(f, more)
  BY <1>1, <1>6, BatchNext, AllRebuiltNext
<1>8. h \in Seq(Nat) /\ l \in Seq(Nat) /\ b \in Seq(Nat) /\ e \in Seq(Nat)
  <2>1. h \in Seq(Nat)
    <3> HIDE DEF x
    <3> QED BY <1>3
  <2>2. l \in Seq(Nat) /\ b \in Seq(Nat)
    <3> HIDE DEF x, more
    <3> QED BY <1>3, <1>4, MessagesMap, WritesMap
  <2> QED BY <2>1, <2>2, EndCellsType
<1>9. c = ((h \o l) \o b) \o e /\ r = RebuiltFrom(f, x) \o AllRebuilt(f, more)
  BY <1>7 DEF Coming
<1>10. ((h \o l) \o b) \o e = h \o (l \o (b \o e))
  <2> HIDE DEF h, l, b, e
  <2>1. Seqs(Nat, h, l, b) /\ Seqs(Nat, l, b, e)
    BY <1>8 DEF Seqs
  <2>a. (h \o l) \o b = h \o (l \o b) /\ l \o b \in Seq(Nat)
    BY ONLY <2>1, Associative, SMTT(30)
  <2>b. (l \o b) \o e = l \o (b \o e)
    BY ONLY <2>1, Associative, SMTT(30)
  <2> DEFINE u == l \o b
  <2>2. /\ (h \o l) \o b = h \o u /\ u \in Seq(Nat)
        /\ u \o e = l \o (b \o e)
    BY <2>a, <2>b
  <2> HIDE DEF u
  <2>3. Seqs(Nat, h, u, e)
    BY <1>8, <2>2 DEF Seqs
  <2>4. (h \o u) \o e = h \o (u \o e)
    BY ONLY <2>3, Associative, SMTT(30)
  <2> QED BY <2>2, <2>4
<1>11. Remaining(t, Len(x), l \o (b \o e), r)
  BY <1>2, <1>3, <1>4, <1>9 DEF Remaining
<1> HIDE DEF l, b, e, x
<1> QED BY <1>3, <1>9, <1>10, <1>11 DEF h

\* The next of the instructions that remain, and those behind it.
FirstOf(t, n, c, r) ==
  \E x \in Sendable(t.basis) : \E a, b :
    /\ Remaining(t, n - 1, a, b)
    /\ c = FlattenSeq(InstructionWrites(x)) \o a /\ r = Apply(t.basis, x) \o b

LEMMA RemainingNext ==
  ASSUME NEW t, t.basis \in Bases, NEW n, NEW c, NEW r, Remaining(t, n, c, r), n # 0
  PROVE  FirstOf(t, n, c, r)
<1> DEFINE f == t.basis
           I == Sendable(f)
<1>1. PICK list \in Seq(I), later \in Seq(Batch(f, t.mode)) :
        /\ n = Len(list) /\ (t.mode # "all" => later = << >>)
        /\ c = CellsOf(list) \o (BatchCells(later) \o EndCells(t))
        /\ r = RebuiltFrom(f, list) \o AllRebuilt(f, later)
  BY DEF Remaining
<1> DEFINE x == Head(list)
           s == Tail(list)
<1>2. x \in I /\ s \in Seq(I) /\ Len(s) = n - 1 /\ list # << >>
  <2> HIDE DEF I
  <2>1. list # << >>
    BY <1>1
  <2> QED BY <1>1, <2>1, ConsParts
<1>3. /\ list \in Seq(Instruction) /\ s \in Seq(Instruction) /\ x \in Instruction
      /\ later \in Seq(Seq(Instruction)) /\ f \in Seq(Byte)
  <2>1. list \in Seq(Instruction) /\ s \in Seq(Instruction)
    BY <1>2, SendableType
  <2>2. x \in Instruction
    BY <1>2 DEF Sendable
  <2> QED BY <2>1, <2>2, BatchType, SessionAssumption
<1> DEFINE h == FlattenSeq(InstructionWrites(x))
           l == CellsOf(s)
           e == BatchCells(later) \o EndCells(t)
           p == Apply(f, x)
           q == RebuiltFrom(f, s)
           z == AllRebuilt(f, later)
<1>4. CellsOf(list) = h \o l /\ RebuiltFrom(f, list) = p \o q
  BY <1>2, <1>3, CellsNext, RebuiltNext
<1>5. h \in Seq(Nat) /\ l \in Seq(Nat) /\ p \in Seq(Byte) /\ q \in Seq(Byte) /\ z \in Seq(Byte)
  <2>1. h \in Seq(Nat)
    BY <1>3, InstructionWritesType, FlattenType
  <2> QED BY <1>3, <2>1, WritesMap, ApplyType, RebuiltMaps, AllRebuiltType
<1>6. e \in Seq(Nat)
  BY <1>3, MessagesMap, EndCellsType, ConcatProperties
<1>7. c = (h \o l) \o e /\ r = (p \o q) \o z
  BY <1>1, <1>4
<1>8. Remaining(t, n - 1, l \o e, q \o z)
  BY <1>1, <1>2 DEF Remaining
<1> HIDE DEF h, l, e, p, q, z
<1>9. (h \o l) \o e = h \o (l \o e)
  <2>1. Seqs(Nat, h, l, e)
    BY <1>5, <1>6 DEF Seqs
  <2> QED BY ONLY <2>1, Associative, SMTT(30)
<1>10. (p \o q) \o z = p \o (q \o z)
  <2>1. Seqs(Byte, p, q, z)
    BY <1>5 DEF Seqs
  <2> QED BY ONLY <2>1, Associative, SMTT(30)
<1> HIDE DEF x
<1> DEFINE a == l \o e
           b == q \o z
<1>11. Remaining(t, n - 1, a, b) /\ c = h \o a /\ r = p \o b /\ x \in I
  BY <1>2, <1>7, <1>8, <1>9, <1>10
<1> HIDE DEF a, b
<1> QED BY <1>11 DEF h, p, FirstOf

-----------------------------------------------------------------------------
(* What is sent is what rebuilds the source *)

LEMMA DeltasRebuild ==
  ASSUME NEW f \in Bases, NEW d \in Inputs, NEW delta \in Deltas(f, d)
  PROVE  /\ delta \in Seq(Sendable(f)) /\ Len(delta) < Word
         /\ RebuiltFrom(f, delta) = d
<1> DEFINE known == 0 .. NumBlocks(f) - 1
<1>1. f \in Seq(Byte) /\ d \in Seq(Byte) /\ NumBlocks(f) \in Nat /\ AreBlocks(f, known)
  <2>1. f \in Seq(Byte) /\ d \in Seq(Byte)
    BY SessionAssumption
  <2> QED BY <2>1, BlocksAtMostBytes DEF AreBlocks
<1>2. Len(delta) < Word
  BY FieldsAssumption
<1>3. ASSUME delta \in Seq(Sendable(f)), Rebuilds(f, d, delta, Len(d))
      PROVE  RebuiltFrom(f, delta) = d
  <2>1. delta \in Seq(Instruction) /\ Covers(f, d, delta, 0, Len(d))
    BY <1>3, SendableType DEF Rebuilds
  <2> QED BY <1>1, <2>1, CoversRebuilds
<1>4. CASE \E n \in Workers : delta = ParallelResult(f, known, d, n)
  <2>1. PICK n \in Workers : delta = ParallelResult(f, known, d, n)
    BY <1>4
  <2>2. n \in Int
    BY SessionAssumption
  <2> HIDE DEF known
  <2>3. delta \in Seq(Sendable(f)) /\ Rebuilds(f, d, delta, Len(d))
    BY <1>1, <2>1, <2>2, ParallelSendable, ParallelRebuilds
  <2> QED BY <1>2, <1>3, <2>3
<1>5. CASE delta = SearchResult(f, known, d)
  <2> HIDE DEF known
  <2>1. delta \in Seq(Sendable(f)) /\ Rebuilds(f, d, delta, Len(d))
    BY <1>1, <1>5, NumBlocksType, SearchSendable, SearchRebuilds
  <2> QED BY <1>2, <1>3, <2>1
<1>6. CASE delta = << Literal(d, 0) >> /\ Len(d) < BlockSize
  <2> DEFINE x == Literal(d, 0)
             g == Applied(f)
             I == Instruction
  <2>1. x \in Sendable(f) /\ x \in I
    BY <1>1, <1>6, BlockSizeAssumption, ChunkSizeAssumption DEF Literal, Sendable, Instruction, Most
  <2>2. Apply(f, x) = d
    BY DEF Apply, Literal
  <2>3. g[x] = Apply(f, x)
    BY <2>1 DEF Applied
  <2>4. Maps(g, I, Seq(Byte)) /\ x \in I
    BY <1>1, <2>1, RebuiltMaps
  <2> HIDE DEF x, g, I
  <2>5. FlatMap(g, << x >>) = g[x]
    BY ONLY <2>4, FlatMapOne, ZenonT(60)
  <2>6. delta = << x >>
    BY <1>6 DEF x
  <2>7. delta \in Seq(Sendable(f))
    BY <2>1, <2>6
  <2> QED BY <1>2, <2>2, <2>3, <2>5, <2>6, <2>7 DEF RebuiltFrom, g
<1> QED BY <1>4, <1>5, <1>6 DEF Deltas

\* What a transfer is: batches of instructions that fit the wire and rebuild
\* the source from the basis that was signed, and what is held of that now.
Sound(t) ==
  /\ t.basis \in Bases /\ t.source \in Seq(Byte) /\ t.mode \in {"stream", "all", "list"}
  /\ t.batches \in Seq(Batch(t.basis, t.mode)) /\ (t.mode # "all" => Len(t.batches) = 1)
  /\ AllRebuilt(t.basis, t.batches) = t.source
  /\ \E h \in Holds(t.basis) : t.held = h.held /\ t.blockLens = h.lens

LEMMA AnswerSound ==
  ASSUME NEW f \in Bases, NEW d \in Inputs, NEW mode \in {"stream", "all", "list"},
         NEW h \in Holds(f), NEW delta \in Deltas(f, d), NEW b \in Batchings(mode, delta)
  PROVE  Sound([mode |-> mode, batches |-> b, source |-> d,
                basis |-> f, held |-> h.held, blockLens |-> h.lens])
<1>1. f \in Seq(Byte) /\ d \in Seq(Byte)
  BY SessionAssumption
<1>2. /\ delta \in Seq(Sendable(f)) /\ Len(delta) < Word /\ RebuiltFrom(f, delta) = d
  BY DeltasRebuild
<1>3. b \in Seq(Batch(f, mode)) /\ (mode # "all" => Len(b) = 1) /\ AllRebuilt(f, b) = d
  BY <1>1, <1>2, BatchesRebuild
<1> QED BY <1>1, <1>3 DEF Sound

Receivable(f) == {r \in Instruction : ~ r.isLiteral => r.blockIdx \in 0 .. NumBlocks(f) - 1}

\* From such a basis every instruction restores what it stands for.
LEMMA HeldRestores ==
  ASSUME BasisHeld, Sound(transfer), NEW r \in Receivable(transfer.basis)
  PROVE  ~ OutOfRange(r) /\ Restored(r) = Apply(transfer.basis, r)
<1> DEFINE f == transfer.basis
           k == r.blockIdx
           g == transfer.held
           lens == transfer.blockLens
           s == k * BlockSize
           e == BlockEnd(f, k)
<1>1. /\ f \in Bases /\ f \in Seq(Byte)
      /\ \/ g = f /\ lens = << >>
         \/ /\ g \in Seq(Byte) /\ IsPrefix(f, g)
            /\ lens = [j \in 1 .. NumBlocks(f) |-> Len(Block(f, j - 1))]
  BY SessionAssumption DEF Sound, BasisHeld, StillHeld
<1>2. CASE r.isLiteral
  BY <1>2 DEF OutOfRange, Restored, Apply
<1>3. CASE ~ r.isLiteral
  <2>1. k \in 0 .. NumBlocks(f) - 1
    BY <1>3 DEF Receivable
  <2>2. /\ s \in Nat /\ s < Len(f) /\ e \in Nat /\ s < e /\ e <= Len(f)
        /\ Len(Block(f, k)) = e - s /\ NumBlocks(f) \in Nat /\ Len(f) \in Nat
        /\ e = Least(s + BlockSize, Len(f))
    <3>1. Len(f) \in Nat /\ e = Least(s + BlockSize, Len(f))
      BY <1>1, LenProperties DEF BlockEnd
    <3> QED BY <1>1, <2>1, <3>1, BlockBounds, BlockType, BlocksAtMostBytes
  <2>3. Start(k) = s /\ Block(f, k) = Slice(f, s, e)
    BY DEF Start, Block
  <2>4. CASE g = f /\ lens = << >>
    <3>1. BlockLen(k) = BlockSize
      <4>1. k \in Nat /\ ~ (k < Len(lens))
        BY <2>1, <2>2, <2>4
      <4> QED BY <4>1 DEF BlockLen
    <3> HIDE DEF s, e, f, k
    <3>2. Restored(r) = Slice(f, s, e)
      BY <1>3, <2>2, <2>3, <2>4, <3>1 DEF Restored, k
    <3> QED BY <1>3, <2>2, <2>3, <2>4, <3>2 DEF OutOfRange, Apply, k, f
  <2>5. CASE /\ g \in Seq(Byte) /\ IsPrefix(f, g)
             /\ lens = [j \in 1 .. NumBlocks(f) |-> Len(Block(f, j - 1))]
    <3>1. BlockLen(k) = e - s
      <4>1. Len(lens) = NumBlocks(f) /\ k + 1 \in 1 .. NumBlocks(f) /\ k + 1 - 1 = k /\ k < NumBlocks(f)
        BY <2>1, <2>2, <2>5
      <4> DEFINE at == k + 1
                 l == [j \in 1 .. NumBlocks(f) |-> Len(Block(f, j - 1))]
      <4>2. lens[k + 1] = Len(Block(f, k))
        <5>1. at \in 1 .. NumBlocks(f) /\ at - 1 = k
          BY <2>1, <2>2
        <5>2. lens = l
          BY <2>5, Zenon
        <5> HIDE DEF at, k
        <5>3. l[at] = Len(Block(f, at - 1))
          BY <5>1
        <5> HIDE DEF l
        <5>4. lens[at] = Len(Block(f, k))
          BY <5>1, <5>2, <5>3
        <5> QED BY <5>4 DEF at, k
      <4> QED BY <2>2, <4>1, <4>2 DEF BlockLen
    <3>2. /\ Len(g) \in Nat /\ Len(f) <= Len(g)
          /\ SubSeq(f, 1, Len(f)) = SubSeq(g, 1, Len(f))
      BY <1>1, <2>5, LenProperties DEF IsPrefix
    <3> HIDE DEF s, e, f, k, g
    <3>3. Least(s + (e - s), Len(g)) = e
      BY <2>2, <3>2 DEF Least
    <3>4. Restored(r) = Slice(g, s, e)
      BY <1>3, <2>3, <3>1, <3>3 DEF Restored, k, g
    <3>5. Slice(g, s, e) = Slice(f, s, e)
      <4> DEFINE u == Slice(f, s, e)
                 v == Slice(g, s, e)
      <4>1. /\ u \in Seq(Byte) /\ Len(u) = e - s /\ \A j \in 1 .. e - s : u[j] = f[s + j]
        <5>1. e <= Len(f) /\ s <= e /\ s \in Nat /\ e \in Nat /\ f \in Seq(Byte)
          BY <1>1, <2>2
        <5> QED BY ONLY <5>1, SliceType
      <4>2. /\ v \in Seq(Byte) /\ Len(v) = e - s /\ \A j \in 1 .. e - s : v[j] = g[s + j]
        <5>1. e <= Len(g) /\ s <= e /\ s \in Nat /\ e \in Nat /\ g \in Seq(Byte)
          BY <2>2, <2>5, <3>2
        <5> QED BY ONLY <5>1, SliceType
      <4>3. \A j \in 1 .. Len(f) : f[j] = g[j]
        <5>1. /\ \A j \in 1 .. Len(f) : SubSeq(f, 1, Len(f))[j] = f[j]
              /\ \A j \in 1 .. Len(f) : SubSeq(g, 1, Len(f))[j] = g[j]
          <6>1. f \in Seq(Byte) /\ g \in Seq(Byte) /\ Len(f) \in Nat /\ Len(f) <= Len(f) /\ Len(f) <= Len(g)
            BY <1>1, <2>2, <2>5, <3>2
          <6> QED BY ONLY <6>1, PrefixType
        <5> QED BY <3>2, <5>1
      <4>4. \A j \in 1 .. e - s : u[j] = v[j]
        <5>1. \A j \in 1 .. e - s : s + j \in 1 .. Len(f)
          BY <2>2
        <5> QED BY <4>1, <4>2, <4>3, <5>1
      <4> HIDE DEF u, v
      <4>5. u = v
        BY <4>1, <4>2, <4>4, SeqEqual
      <4> QED BY <4>5 DEF u, v
    <3> QED BY <1>3, <2>2, <2>3, <3>2, <3>4, <3>5 DEF OutOfRange, Apply, k, f, g
  <2> QED BY <1>1, <2>4, <2>5
<1> QED BY <1>2, <1>3

-----------------------------------------------------------------------------
(* The receiver *)

\* What the receiver has rebuilt so far.
Done(t, at, list, out) ==
  IF t.mode # "list" \/ at = "returned" THEN out ELSE RebuiltFrom(t.basis, list)

\* The bytes done are those of the source up to the bytes left.
Gives(t, done, left) ==
  BasisHeld => done \in Seq(Byte) /\ left \in Seq(Byte) /\ t.source = done \o left

\* Where the receiver is, with n instructions of the batch to come, the one
\* that is being read among them: c are the cells and r the bytes behind it.
Place(t, at, err, p, n, len, in, done) ==
  LET ahead == Ahead(Stream(t), p)
  IN  /\ at = "header" =>
           \E later, r : /\ Coming(t, later, ahead, r) /\ (t.mode # "all" => Len(later) = 1)
                         /\ Gives(t, done, r)
      /\ at = "next" => \E r : Remaining(t, n, ahead, r) /\ Gives(t, done, r)
      /\ at = "len" =>
           \E d \in Seq(Byte) : \E c, r :
             /\ Remaining(t, n - 1, c, r)
             /\ ahead = << Len(d) >> \o (d \o c) /\ Gives(t, done, d \o r)
      /\ at = "data" =>
           \E d \in Seq(Byte) : \E c, r :
             /\ Remaining(t, n - 1, c, r)
             /\ len = Len(d) /\ ahead = d \o c /\ Gives(t, done, d \o r)
      /\ at = "idx" =>
           \E b \in 0 .. NumBlocks(t.basis) - 1 : \E c, r :
             /\ Remaining(t, n - 1, c, r)
             /\ ahead = << b >> \o c /\ Gives(t, done, Block(t.basis, b) \o r)
      /\ at = "call" =>
           \E d \in Seq(Byte) : \E c, r :
             /\ Remaining(t, n - 1, c, r)
             /\ in.isLiteral => len = Len(in.data) + Len(d)
             /\ ~ in.isLiteral => d = << >>
             /\ ahead = d \o c /\ Gives(t, done, Apply(t.basis, in) \o (d \o r))
      /\ at = "rebuild" => t.mode = "list" /\ ahead = Following /\ Gives(t, done, << >>)
      /\ at = "returned" /\ err = "nil" => ahead = Following /\ Gives(t, done, << >>)

\* What has been written out is the beginning of the source.
Starts(out, d) == BasisHeld => \E r \in Seq(Byte) : out \in Seq(Byte) /\ d = out \o r

\* The buffer of a stream has room for what is read of a literal at once.
Buffered(t, at, len, cap, in) ==
  /\ cap \in Nat /\ cap <= ChunkSize
  /\ at = "data" \/ (at = "call" /\ in.isLiteral) =>
       len \in Nat /\ (t.mode # "list" => Least(len, ChunkSize) <= cap)

Stages == {"header", "next", "len", "data", "idx", "call", "rebuild", "returned"}

Receiving ==
  /\ pc \in Stages /\ outcome # "signature"
  /\ Sound(transfer)
  /\ Written(Nat, Stream(transfer), writer, wire, writes)
  /\ pos \in Nat /\ pos <= Len(Stream(transfer))
  /\ count \in Nat /\ i \in Nat
  /\ insts \in Seq(Receivable(transfer.basis))
  /\ pc = "call" => inst \in Receivable(transfer.basis)
  /\ transfer.mode = "list" => pc # "call" /\ (pc # "returned" => output = << >>)
  /\ Starts(output, transfer.source)
  /\ Place(transfer, pc, outcome, pos, count - i, dataLen, inst,
           Done(transfer, pc, insts, output))
  /\ Buffered(transfer, pc, dataLen, capBuf, inst)

\* Before the answer, or when none comes.
Waiting ==
  /\ pc \in {"signature", "returned"} /\ outcome # "nil" /\ (pc = "signature" => outcome = "none")
  /\ transfer.source = << >> /\ writes = << >> /\ writer = "writing" /\ wire = << >>
  /\ pos = 0 /\ count = 0 /\ i = 0 /\ dataLen = 0 /\ capBuf = 0
  /\ insts = << >> /\ output = << >>

ReceiverInv == IF pc = "signature" \/ outcome = "signature" THEN Waiting ELSE Receiving

LEMMA SoundStream ==
  ASSUME NEW t, Sound(t)
  PROVE  /\ t.basis \in Bases /\ t.basis \in Seq(Byte) /\ t.source \in Seq(Byte)
         /\ MessageWrites(t) \o << Following >> \in Seq(Seq(Nat))
         /\ Stream(t) \in Seq(Nat)
         /\ Stream(t) = BatchCells(t.batches) \o EndCells(t)
         /\ Len(Stream(t)) = Len(FlattenSeq(MessageWrites(t))) + Len(Following)
BY StreamCells, SessionAssumption DEF Sound

LEMMA SenderStep ==
  ASSUME Receiving, Write \/ WriteFails
  PROVE  Receiving'
<1>1. UNCHANGED << transfer, decoderVars, pc, output, outcome >>
  BY DEF Write, WriteFails
<1>2. Written(Nat, Stream(transfer), writer, wire, writes)'
  <2>1. Written(Nat, Stream(transfer), writer, wire, writes)
    BY DEF Receiving
  <2> DEFINE s == Stream(transfer)
  <2>2. s' = s
    BY <1>1 DEF Stream, MessageWrites, BatchesWrites, InstructionsWrites
  <2>3. CASE Write
    <3> DEFINE by == writer'
               u == wire \o Head(writes)
    <3>1. Written(Nat, s, "writing", wire, writes) /\ writes # << >>
          /\ wire' = u /\ writes' = Tail(writes)
      BY <2>1, <2>3 DEF Write
    <3> HIDE DEF s, by
    <3>2. Written(Nat, s, by, wire \o Head(writes), Tail(writes))
      BY ONLY <3>1, WriteKeeps
    <3> QED BY <2>2, <3>1, <3>2 DEF s, by, Written
  <2>4. CASE WriteFails
    <3>0. writer = "writing" /\ writes # << >> /\ writer' = "failed" /\ writes' = writes
      BY <2>4 DEF WriteFails
    <3>1. PICK n \in 0 .. Len(Head(writes)) - 1 : wire' = wire \o Slice(Head(writes), 0, n)
      BY <2>4 DEF WriteFails
    <3>2. Written(Nat, s, "writing", wire, writes) /\ writes # << >>
          /\ n \in 0 .. Len(Head(writes)) - 1
      BY <2>1, <3>0
    <3> HIDE DEF s
    <3>3. Written(Nat, s, "failed", wire \o Slice(Head(writes), 0, n), writes)
      BY ONLY <3>2, FailKeeps
    <3> QED BY <2>2, <3>0, <3>1, <3>3 DEF s, Written
  <2> QED BY <2>3, <2>4
<1>3. transfer' = transfer /\ pos' = pos /\ count' = count /\ i' = i /\ dataLen' = dataLen
      /\ capBuf' = capBuf /\ inst' = inst /\ insts' = insts /\ pc' = pc /\ output' = output
      /\ outcome' = outcome
  BY <1>1 DEF decoderVars
<1> QED BY <1>2, <1>3 DEF Receiving

\* What a step of the receiver leaves to show.
LEMMA ReceiverStep ==
  ASSUME Receiving, UNCHANGED senderVars, pc' \in Stages, outcome' # "signature",
         pos' \in Nat, pos' <= Len(Stream(transfer)), count' \in Nat, i' \in Nat,
         insts' \in Seq(Receivable(transfer.basis)),
         pc' = "call" => inst' \in Receivable(transfer.basis),
         transfer.mode = "list" => pc' # "call" /\ (pc' # "returned" => output' = << >>),
         Starts(output', transfer.source),
         Place(transfer, pc', outcome', pos', count' - i', dataLen', inst',
               Done(transfer, pc', insts', output')),
         Buffered(transfer, pc', dataLen', capBuf', inst')
  PROVE  Receiving'
<1>1. transfer' = transfer /\ writes' = writes /\ writer' = writer /\ wire' = wire
  BY DEF senderVars
<1>2. Sound(transfer) /\ Written(Nat, Stream(transfer), writer, wire, writes)
  BY DEF Receiving
<1> QED BY <1>1, <1>2 DEF Receiving

\* What the receiver gets when the cells a lie ahead.
LEMMA ReceiverReads ==
  ASSUME Receiving, NEW a \in Seq(Nat), NEW r \in Seq(Nat),
         Ahead(Stream(transfer), pos) = a \o r, Arrived(Len(a))
  PROVE  /\ pos + Len(a) \in Nat /\ pos + Len(a) <= Len(Stream(transfer))
         /\ Ahead(Stream(transfer), pos + Len(a)) = r
         /\ Slice(wire, pos, pos + Len(a)) = a
         /\ \A k \in 1 .. Len(a) : wire[pos + k] = a[k]
<1> DEFINE s == Stream(transfer)
<1>1. Written(Nat, s, writer, wire, writes) /\ pos + Len(a) <= Len(wire)
  BY DEF Receiving, Arrived
<1>2. Lies(Nat, s, pos, a, r)
  BY SoundStream DEF Receiving, Lies
<1> HIDE DEF s
<1>3. /\ pos + Len(a) \in Nat /\ pos + Len(a) <= Len(s)
      /\ Ahead(s, pos + Len(a)) = r
      /\ Slice(wire, pos, pos + Len(a)) = a
      /\ \A k \in 1 .. Len(a) : wire[pos + k] = a[k]
  BY ONLY <1>1, <1>2, Reads, SMT
<1> QED BY <1>3 DEF s

\* A field is one cell.
LEMMA ReceiverReadsField ==
  ASSUME Receiving, NEW x \in Nat, NEW r \in Seq(Nat),
         Ahead(Stream(transfer), pos) = << x >> \o r, Arrived(1)
  PROVE  /\ pos + 1 \in Nat /\ pos + 1 <= Len(Stream(transfer))
         /\ Ahead(Stream(transfer), pos + 1) = r /\ Cell = x
<1> DEFINE a == << x >>
<1>1. a \in Seq(Nat) /\ Len(a) = 1 /\ a[1] = x
  OBVIOUS
<1>2. Ahead(Stream(transfer), pos) = a \o r /\ Arrived(Len(a))
  BY <1>1, Zenon
<1> HIDE DEF a
<1>3. /\ pos + Len(a) \in Nat /\ pos + Len(a) <= Len(Stream(transfer))
      /\ Ahead(Stream(transfer), pos + Len(a)) = r
      /\ \A k \in 1 .. Len(a) : wire[pos + k] = a[k]
  BY <1>1, <1>2, ReceiverReads
<1> QED BY <1>1, <1>3 DEF Cell

LEMMA ReadFailsStep ==
  ASSUME Receiving, ReadFails
  PROVE  Receiving'
<1>1. /\ UNCHANGED senderVars /\ pc' = "returned" /\ outcome' = "read" /\ output' = output
      /\ pos' = pos /\ count' = count /\ i' = i /\ dataLen' = dataLen
      /\ capBuf' = capBuf /\ inst' = inst /\ insts' = insts
  BY DEF ReadFails, Return, ReadError, decoderVars
<1>2. Buffered(transfer, pc', dataLen', capBuf', inst')
  BY <1>1 DEF Receiving, Buffered
<1>3. Place(transfer, pc', outcome', pos', count' - i', dataLen', inst',
            Done(transfer, pc', insts', output'))
  BY <1>1 DEF Place
<1> QED BY <1>1, <1>2, <1>3, ReceiverStep DEF Receiving, Stages

\* At the header lies the next batch or the end of the message.
LEMMA ReadHeaderStep ==
  ASSUME Receiving, ReadHeader
  PROVE  Receiving'
<1> DEFINE t == transfer
           s == Stream(t)
           done == Done(t, pc, insts, output)
<1>1. /\ pc = "header" /\ Arrived(1) /\ UNCHANGED senderVars
      /\ pos' = pos + 1 /\ count' = Cell /\ i' = 0 /\ capBuf' = 0
      /\ insts' = insts /\ output' = output /\ inst' = inst /\ dataLen' = dataLen
      /\ IF t.mode = "all" /\ Cell = 0 THEN pc' = "returned" /\ outcome' = "nil"
         ELSE pc' = "next" /\ outcome' = outcome
  BY DEF ReadHeader, Return, Goto
<1>2. PICK later, r : /\ Coming(t, later, Ahead(s, pos), r) /\ (t.mode # "all" => Len(later) = 1)
                      /\ Gives(t, done, r)
  BY <1>1 DEF Receiving, Place
<1>3. Sound(t) /\ t.basis \in Bases /\ pos \in Nat
  BY DEF Receiving, Sound
<1>4. Buffered(t, pc', dataLen', capBuf', inst')
  <2>1. pc' # "data" /\ pc' # "call" /\ capBuf' = 0
    BY <1>1
  <2> QED BY <2>1, ChunkSizeAssumption DEF Buffered
<1>5. Starts(output', t.source) /\ insts' \in Seq(Receivable(t.basis))
      /\ (t.mode = "list" => output' = << >>)
  BY <1>1 DEF Receiving
<1>6. CASE later = << >>
  <2>1. t.mode = "all" /\ Ahead(s, pos) = << 0 >> \o Following /\ r = << >>
    <3>1. Len(later) # 1
      BY <1>6
    <3> QED BY <1>2, <1>6, <3>1, ComingNone DEF EndCells
  <2>2. Following \in Seq(Nat)
    BY WireAssumption
  <2>3. pos + 1 \in Nat /\ pos + 1 <= Len(s) /\ Ahead(s, pos + 1) = Following /\ Cell = 0
    BY <1>1, <2>1, <2>2, ReceiverReadsField
  <2>4. pc' = "returned" /\ outcome' = "nil" /\ done = output
        /\ Done(t, pc', insts', output') = output
    BY <1>1, <2>1, <2>3 DEF Done
  <2> HIDE DEF t, s, done
  <2>5. Place(t, pc', outcome', pos', count' - i', dataLen', inst', Done(t, pc', insts', output'))
    BY <1>1, <1>2, <2>1, <2>3, <2>4 DEF Place, s
  <2>6. /\ pc' \in Stages /\ outcome' # "signature" /\ pc' # "call" /\ count' \in Nat /\ i' \in Nat
        /\ pos' \in Nat /\ pos' <= Len(s)
    BY <1>1, <2>3, <2>4 DEF Stages
  <2> QED BY <1>1, <1>4, <1>5, <2>5, <2>6, ReceiverStep DEF t, s
<1>7. CASE later # << >>
  <2>1. PICK n \in Nat : \E a : /\ Ahead(s, pos) = << n >> \o a /\ Remaining(t, n, a, r)
                                /\ (t.mode = "all" => n # 0)
    <3> HIDE DEF t, s
    <3> QED BY <1>2, <1>3, <1>7, ComingNext, SMTT(30)
  <2>2. PICK a : /\ Ahead(s, pos) = << n >> \o a /\ Remaining(t, n, a, r)
                 /\ (t.mode = "all" => n # 0)
    BY <2>1
  <2>3. a \in Seq(Nat)
    BY <1>3, <2>2, RemainingType
  <2>4. pos + 1 \in Nat /\ pos + 1 <= Len(s) /\ Ahead(s, pos + 1) = a /\ Cell = n
    BY <1>1, <2>2, <2>3, ReceiverReadsField
  <2>5. /\ pc' = "next" /\ outcome' = outcome /\ count' = n /\ i' = 0 /\ count' - i' = n
        /\ done = Done(t, pc', insts', output')
    BY <1>1, <2>2, <2>4 DEF Done
  <2>6. outcome # "signature"
    BY DEF Receiving
  <2> HIDE DEF t, s, done
  <2>7. Place(t, pc', outcome', pos', count' - i', dataLen', inst', Done(t, pc', insts', output'))
    BY <1>1, <1>2, <2>2, <2>4, <2>5 DEF Place, s
  <2>8. /\ pc' \in Stages /\ outcome' # "signature" /\ pc' # "call" /\ count' \in Nat /\ i' \in Nat
        /\ pos' \in Nat /\ pos' <= Len(s)
    BY <1>1, <2>4, <2>5, <2>6 DEF Stages
  <2> QED BY <1>1, <1>4, <1>5, <2>7, <2>8, ReceiverStep DEF t, s
<1> QED BY <1>6, <1>7

LEMMA ReadFlagStep ==
  ASSUME Receiving, ReadFlag
  PROVE  Receiving'
<1> DEFINE t == transfer
           s == Stream(t)
           f == t.basis
           n == count - i
           done == Done(t, pc, insts, output)
<1>1. /\ pc = "next" /\ i < count /\ Arrived(1) /\ UNCHANGED senderVars
      /\ pos' = pos + 1 /\ count' = count /\ i' = i /\ capBuf' = capBuf
      /\ insts' = insts /\ output' = output /\ inst' = inst /\ dataLen' = dataLen
      /\ pc' = (IF Cell = 0 THEN "len" ELSE "idx") /\ outcome' = outcome
  BY DEF ReadFlag, Goto
<1>2. PICK r : Remaining(t, n, Ahead(s, pos), r) /\ Gives(t, done, r)
  BY <1>1 DEF Receiving, Place
<1>3. /\ Sound(t) /\ f \in Bases /\ f \in Seq(Byte) /\ pos \in Nat /\ count \in Nat /\ i \in Nat
      /\ outcome # "signature" /\ insts \in Seq(Receivable(f)) /\ Starts(output, t.source)
      /\ (t.mode = "list" => output = << >>)
      /\ capBuf \in Nat /\ capBuf <= ChunkSize
  BY <1>1, SessionAssumption DEF Receiving, Sound, Buffered
<1>4. n # 0
  BY <1>1, <1>3
<1>5. PICK x \in Sendable(f) : \E c, b :
        /\ Remaining(t, n - 1, c, b)
        /\ Ahead(s, pos) = FlattenSeq(InstructionWrites(x)) \o c /\ r = Apply(f, x) \o b
  <2> DEFINE l == Ahead(s, pos)
  <2>1. t.basis \in Bases /\ Remaining(t, n, l, r) /\ n # 0
    BY <1>2, <1>3, <1>4
  <2> HIDE DEF t, n, l
  <2>2. FirstOf(t, n, l, r)
    BY ONLY <2>1, RemainingNext
  <2> QED BY <2>2 DEF FirstOf, l, t
<1>6. PICK c, b :
        /\ Remaining(t, n - 1, c, b)
        /\ Ahead(s, pos) = FlattenSeq(InstructionWrites(x)) \o c /\ r = Apply(f, x) \o b
  BY <1>5
<1>7. c \in Seq(Nat) /\ b \in Seq(Byte)
  BY <1>3, <1>6, RemainingType
<1>8. Done(t, pc', insts', output') = done
  BY <1>1 DEF Done
<1>9. Buffered(t, pc', dataLen', capBuf', inst')
  BY <1>1, <1>3 DEF Buffered
<1>10. ASSUME pos + 1 \in Nat, pos + 1 <= Len(s),
              Place(t, pc', outcome', pos', count' - i', dataLen', inst', Done(t, pc', insts', output'))
       PROVE  Receiving'
  <2>1. /\ pc' \in Stages /\ outcome' # "signature" /\ pc' # "call" /\ count' \in Nat /\ i' \in Nat
        /\ pos' \in Nat /\ pos' <= Len(s) /\ insts' \in Seq(Receivable(f)) /\ Starts(output', t.source)
        /\ (t.mode = "list" => output' = << >>)
    BY <1>1, <1>3, <1>10 DEF Stages
  <2> QED BY <1>1, <1>9, <1>10, <2>1, ReceiverStep DEF t, s, f
<1>11. CASE x.isLiteral
  <2> DEFINE d == x.data
             y == << Len(d) >>
  <2>1. /\ d \in Seq(Byte) /\ d \in Seq(Nat) /\ Len(d) \in Nat
        /\ FlattenSeq(InstructionWrites(x)) = << 0 >> \o (y \o d)
        /\ Apply(f, x) = d
    <3>1. d \in Seq(Byte) /\ FlattenSeq(InstructionWrites(x)) = << 0 >> \o (y \o d)
      BY <1>3, <1>11, InstructionCells
    <3> QED BY <1>11, <3>1, BytesAreNaturals, LenProperties DEF Apply
  <2>2. y \in Seq(Nat) /\ << 0 >> \in Seq(Nat)
    BY <2>1
  <2> HIDE DEF d, y
  <2> DEFINE z == << 0 >>
  <2>3. (z \o (y \o d)) \o c = z \o (y \o (d \o c)) /\ y \o (d \o c) \in Seq(Nat)
    <3> HIDE DEF z
    <3>1. Seqs(Nat, y, d, c)
      BY <1>7, <2>1, <2>2 DEF Seqs
    <3>2. (y \o d) \o c = y \o (d \o c) /\ y \o d \in Seq(Nat) /\ y \o (d \o c) \in Seq(Nat)
      BY ONLY <3>1, Associative, SMTT(30)
    <3> DEFINE u == y \o d
    <3>3. Seqs(Nat, z, u, c)
      BY <1>7, <2>2, <3>2 DEF Seqs, z
    <3> HIDE DEF u
    <3>4. (z \o u) \o c = z \o (u \o c)
      BY ONLY <3>3, Associative, SMTT(30)
    <3> QED BY <3>2, <3>4 DEF u
  <2> DEFINE v == y \o (d \o c)
  <2>4. Ahead(s, pos) = << 0 >> \o v /\ v \in Seq(Nat)
    BY <1>6, <2>1, <2>3
  <2> HIDE DEF v, z
  <2>5. pos + 1 \in Nat /\ pos + 1 <= Len(s) /\ Ahead(s, pos + 1) = v /\ Cell = 0
    BY <1>1, <2>4, ReceiverReadsField
  <2>6. pc' = "len" /\ count' - i' = n
    BY <1>1, <2>5
  <2> HIDE DEF t, s, n, done, f
  <2>7. Place(t, pc', outcome', pos', count' - i', dataLen', inst', Done(t, pc', insts', output'))
    <3>1. Remaining(t, n - 1, c, b) /\ Gives(t, done, d \o b) /\ d \in Seq(Byte)
          /\ Ahead(s, pos') = << Len(d) >> \o (d \o c)
      BY <1>1, <1>2, <1>6, <2>1, <2>5 DEF v, y
    <3> QED BY <1>8, <2>6, <3>1 DEF Place, s
  <2> QED BY <1>10, <2>5, <2>7
<1>12. CASE ~ x.isLiteral
  <2> DEFINE k == x.blockIdx
             y == << k >>
  <2>1. /\ k \in 0 .. NumBlocks(f) - 1 /\ k \in Nat /\ Apply(f, x) = Block(f, k)
        /\ FlattenSeq(InstructionWrites(x)) = << 1 >> \o y
    <3>1. x \in Instruction /\ k \in 0 .. NumBlocks(f) - 1
          /\ FlattenSeq(InstructionWrites(x)) = << 1 >> \o y
      BY <1>3, <1>12, InstructionCells
    <3> QED BY <1>12, <3>1 DEF Apply, Instruction
  <2>2. y \in Seq(Nat) /\ << 1 >> \in Seq(Nat)
    BY <2>1
  <2> HIDE DEF k, y
  <2> DEFINE z == << 1 >>
  <2>3. (z \o y) \o c = z \o (y \o c) /\ y \o c \in Seq(Nat)
    <3>1. Seqs(Nat, z, y, c)
      BY <1>7, <2>2 DEF Seqs
    <3> HIDE DEF z
    <3> QED BY ONLY <3>1, Associative, SMTT(30)
  <2> DEFINE v == y \o c
  <2>4. Ahead(s, pos) = << 1 >> \o v /\ v \in Seq(Nat)
    BY <1>6, <2>1, <2>3
  <2> HIDE DEF v, z
  <2>5. pos + 1 \in Nat /\ pos + 1 <= Len(s) /\ Ahead(s, pos + 1) = v /\ Cell = 1
    BY <1>1, <2>4, ReceiverReadsField
  <2>6. pc' = "idx" /\ count' - i' = n
    BY <1>1, <2>5
  <2> HIDE DEF t, s, n, done, f
  <2>7. Place(t, pc', outcome', pos', count' - i', dataLen', inst', Done(t, pc', insts', output'))
    <3>1. Remaining(t, n - 1, c, b) /\ Gives(t, done, Block(f, k) \o b)
          /\ k \in 0 .. NumBlocks(f) - 1 /\ Ahead(s, pos') = << k >> \o c
      BY <1>1, <1>2, <1>6, <2>1, <2>5 DEF v, y
    <3> QED BY <1>8, <2>6, <3>1 DEF Place, s, f
  <2> QED BY <1>10, <2>5, <2>7
<1> QED BY <1>11, <1>12

\* A stream starts on its next batch, or returns; a list is rebuilt.
LEMMA AllDecodedStep ==
  ASSUME Receiving, AllDecoded
  PROVE  Receiving'
<1> DEFINE t == transfer
           s == Stream(t)
           done == Done(t, pc, insts, output)
           done1 == Done(t, pc', insts', output')
<1>1. /\ pc = "next" /\ i = count /\ UNCHANGED senderVars
      /\ pos' = pos /\ count' = count /\ i' = i /\ capBuf' = capBuf
      /\ insts' = insts /\ output' = output /\ inst' = inst /\ dataLen' = dataLen
  BY DEF AllDecoded, decoderVars
<1>2. PICK r : Remaining(t, count - i, Ahead(s, pos), r) /\ Gives(t, done, r)
  BY <1>1 DEF Receiving, Place
<1>3. /\ Sound(t) /\ t.basis \in Bases /\ pos \in Nat /\ pos <= Len(s) /\ count \in Nat /\ i \in Nat
      /\ outcome # "signature" /\ insts \in Seq(Receivable(t.basis)) /\ Starts(output, t.source)
      /\ (t.mode = "list" => output = << >>)
      /\ capBuf \in Nat /\ capBuf <= ChunkSize /\ t.mode \in {"stream", "all", "list"}
  BY <1>1 DEF Receiving, Sound, Buffered
<1>4. PICK later : Coming(t, later, Ahead(s, pos), r) /\ (t.mode # "all" => later = << >>)
  <2>1. Remaining(t, 0, Ahead(s, pos), r)
    <3>1. count - i = 0
      BY <1>1, <1>3
    <3> QED BY <1>2, <3>1
  <2> HIDE DEF t, s
  <2> QED BY <1>3, <2>1, RemainingNone
<1>5. t.mode # "all" => Ahead(s, pos) = Following /\ r = << >>
  <2>1. ASSUME t.mode # "all"
        PROVE  Ahead(s, pos) = Following /\ r = << >>
    <3>1. Coming(t, << >>, Ahead(s, pos), r)
      BY <1>4, <2>1
    <3> HIDE DEF t, s
    <3>2. Ahead(s, pos) = EndCells(t) /\ r = << >>
      BY <3>1, ComingNone
    <3> QED BY <2>1, <3>2 DEF EndCells
  <2> QED BY <2>1
<1>6. ASSUME pc' \in {"header", "rebuild", "returned"}, outcome' # "signature",
             Place(t, pc', outcome', pos', count' - i', dataLen', inst', done1)
      PROVE  Receiving'
  <2>1. Buffered(t, pc', dataLen', capBuf', inst')
    BY <1>1, <1>3, <1>6 DEF Buffered
  <2>2. /\ pc' \in Stages /\ pc' # "call" /\ count' \in Nat /\ i' \in Nat
        /\ pos' \in Nat /\ pos' <= Len(s) /\ insts' \in Seq(Receivable(t.basis)) /\ Starts(output', t.source)
        /\ (t.mode = "list" => output' = << >>)
    BY <1>1, <1>3, <1>6 DEF Stages
  <2> QED BY <1>1, <1>6, <2>1, <2>2, ReceiverStep DEF t, s
<1>7. CASE t.mode = "stream"
  <2>1. pc' = "returned" /\ outcome' = "nil"
    BY <1>7 DEF AllDecoded, Return
  <2>2. done = output /\ done1 = output
    BY <1>1, <1>7, <2>1 DEF Done
  <2>3. Ahead(s, pos') = Following /\ Gives(t, done1, << >>)
    BY <1>1, <1>2, <1>5, <1>7, <2>2
  <2> HIDE DEF t, s, done, done1
  <2>4. Place(t, pc', outcome', pos', count' - i', dataLen', inst', done1)
    BY <2>1, <2>3 DEF Place, s
  <2> QED BY <1>6, <2>1, <2>4
<1>8. CASE t.mode = "all"
  <2>1. pc' = "header" /\ outcome' = outcome
    BY <1>8 DEF AllDecoded, Goto
  <2>2. done = output /\ done1 = output
    BY <1>1, <1>8 DEF Done
  <2>3. Coming(t, later, Ahead(s, pos'), r) /\ Gives(t, done1, r)
    BY <1>1, <1>2, <1>4, <2>2
  <2> HIDE DEF t, s, done, done1
  <2>4. Place(t, pc', outcome', pos', count' - i', dataLen', inst', done1)
    BY <1>8, <2>1, <2>3 DEF Place, s
  <2> QED BY <1>3, <1>6, <2>1, <2>4
<1>9. CASE t.mode = "list"
  <2>1. pc' = "rebuild" /\ outcome' = outcome
    BY <1>9 DEF AllDecoded, Goto
  <2>2. done1 = done
    BY <1>1, <1>9, <2>1 DEF Done
  <2>3. Ahead(s, pos') = Following /\ Gives(t, done1, << >>)
    BY <1>1, <1>2, <1>5, <1>9, <2>2
  <2> HIDE DEF t, s, done, done1
  <2>4. Place(t, pc', outcome', pos', count' - i', dataLen', inst', done1)
    BY <1>9, <2>1, <2>3 DEF Place, s
  <2> QED BY <1>3, <1>6, <2>1, <2>4
<1> QED BY <1>3, <1>7, <1>8, <1>9

LEMMA ReadLenStep ==
  ASSUME Receiving, ReadLen
  PROVE  Receiving'
<1> DEFINE t == transfer
           s == Stream(t)
           done == Done(t, pc, insts, output)
           done1 == Done(t, pc', insts', output')
<1>1. /\ pc = "len" /\ Arrived(1) /\ UNCHANGED senderVars
      /\ pos' = pos + 1 /\ count' = count /\ i' = i /\ dataLen' = Cell
      /\ insts' = insts /\ output' = output /\ inst' = inst
      /\ pc' = "data" /\ outcome' = outcome
      /\ capBuf' = (IF t.mode # "list" THEN Grown(Cell) ELSE capBuf)
  BY DEF ReadLen, Goto, Streaming
<1>2. PICK d \in Seq(Byte) : \E c, r :
        /\ Remaining(t, count - i - 1, c, r)
        /\ Ahead(s, pos) = << Len(d) >> \o (d \o c) /\ Gives(t, done, d \o r)
  BY <1>1 DEF Receiving, Place
<1>3. PICK c, r :
        /\ Remaining(t, count - i - 1, c, r)
        /\ Ahead(s, pos) = << Len(d) >> \o (d \o c) /\ Gives(t, done, d \o r)
  BY <1>2
<1>4. /\ Sound(t) /\ t.basis \in Bases /\ pos \in Nat /\ count \in Nat /\ i \in Nat
      /\ outcome # "signature" /\ insts \in Seq(Receivable(t.basis)) /\ Starts(output, t.source)
      /\ (t.mode = "list" => output = << >>)
      /\ capBuf \in Nat /\ capBuf <= ChunkSize
  BY <1>1 DEF Receiving, Sound, Buffered
<1>5. c \in Seq(Nat)
  BY <1>3, <1>4, RemainingType
<1> DEFINE v == d \o c
<1>6. Len(d) \in Nat /\ v \in Seq(Nat)
  <2>1. d \in Seq(Nat)
    BY BytesAreNaturals
  <2> QED BY <1>5, <2>1, LenProperties, ConcatProperties
<1>7. Ahead(s, pos) = << Len(d) >> \o v
  BY <1>3
<1> HIDE DEF v
<1>8. pos + 1 \in Nat /\ pos + 1 <= Len(s) /\ Ahead(s, pos + 1) = v /\ Cell = Len(d)
  BY <1>1, <1>6, <1>7, ReceiverReadsField
<1>9. Buffered(t, pc', dataLen', capBuf', inst')
  BY <1>1, <1>4, <1>6, <1>8, ChunkSizeAssumption DEF Buffered, Grown, Least, Most
<1>10. done1 = done
  BY <1>1 DEF Done
<1>11. /\ pc' \in Stages /\ outcome' # "signature" /\ pc' # "call" /\ count' \in Nat /\ i' \in Nat
       /\ pos' \in Nat /\ pos' <= Len(s) /\ insts' \in Seq(Receivable(t.basis)) /\ Starts(output', t.source)
       /\ (t.mode = "list" => output' = << >>)
  BY <1>1, <1>4, <1>8 DEF Stages
<1>12. Place(t, pc', outcome', pos', count' - i', dataLen', inst', done1)
  <2>1. /\ Remaining(t, count' - i' - 1, c, r) /\ dataLen' = Len(d)
        /\ Ahead(s, pos') = d \o c /\ Gives(t, done1, d \o r)
    BY <1>1, <1>3, <1>8, <1>10 DEF v
  <2> HIDE DEF t, s, done1
  <2> QED BY <1>1, <2>1 DEF Place, s
<1> HIDE DEF done1
<1> QED BY <1>1, <1>9, <1>11, <1>12, ReceiverStep DEF t, s, done1

LEMMA SplitAt ==
  ASSUME NEW S, NEW d \in Seq(S), NEW n \in Nat, n <= Len(d)
  PROVE  /\ Slice(d, 0, n) \in Seq(S) /\ Len(Slice(d, 0, n)) = n
         /\ Slice(d, n, Len(d)) \in Seq(S) /\ Len(Slice(d, n, Len(d))) = Len(d) - n
         /\ d = Slice(d, 0, n) \o Slice(d, n, Len(d))
<1> DEFINE m == Len(d)
           x == Slice(d, 0, n)
           y == Slice(d, n, m)
<1>1. m \in Nat /\ n <= m /\ m <= Len(d) /\ 0 <= n /\ 0 \in Nat /\ d \in Seq(S)
  BY LenProperties
<1>2. x \in Seq(S) /\ Len(x) = n - 0
  BY <1>1, SliceType
<1>3. y \in Seq(S) /\ Len(y) = m - n
  <2> HIDE DEF m
  <2> QED BY ONLY <1>1, SliceType DEF y
<1>4. x \o y = d
  <2>1. SubSeq(d, 1, n) \o SubSeq(d, n + 1, Len(d)) = SubSeq(d, 1, Len(d))
    <3>1. 1 \in 1 .. Len(d) + 1 /\ n \in 1 - 1 .. Len(d) /\ Len(d) \in n .. Len(d)
      BY <1>1
    <3> QED BY <3>1, ConcatAdjacentSubSeq
  <2>2. SubSeq(d, 1, Len(d)) = d
    BY SubSeqFull
  <2>3. x = SubSeq(d, 1, n) /\ y = SubSeq(d, n + 1, Len(d))
    BY DEF Slice
  <2> QED BY <2>1, <2>2, <2>3
<1>5. Len(x) = n
  BY <1>2
<1> HIDE DEF x, y
<1>6. x \in Seq(S) /\ Len(x) = n /\ y \in Seq(S) /\ Len(y) = m - n /\ d = x \o y
  BY <1>2, <1>3, <1>4, <1>5
<1> QED BY <1>6 DEF x, y, m

\* A portion of a literal is given to fn, or all of it added to the list.
LEMMA ReadDataStep ==
  ASSUME Receiving, ReadData
  PROVE  Receiving'
<1> DEFINE t == transfer
           s == Stream(t)
           f == t.basis
           m == Portion
           data == Slice(wire, pos, pos + m)
           done == Done(t, pc, insts, output)
           done1 == Done(t, pc', insts', output')
<1>1. /\ pc = "data" /\ Arrived(m) /\ UNCHANGED senderVars
      /\ pos' = pos + m /\ count' = count /\ dataLen' = dataLen /\ capBuf' = capBuf
      /\ output' = output /\ outcome' = outcome
      /\ IF t.mode = "list"
         THEN insts' = Append(insts, Literal(data, 0)) /\ i' = i + 1 /\ pc' = "next" /\ inst' = inst
         ELSE IF dataLen > 0
         THEN inst' = Literal(data, i) /\ pc' = "call" /\ i' = i /\ insts' = insts
         ELSE i' = i + 1 /\ pc' = "next" /\ inst' = inst /\ insts' = insts
  BY DEF ReadData, Goto, Streaming
<1>2. PICK d \in Seq(Byte) : \E c, r :
        /\ Remaining(t, count - i - 1, c, r)
        /\ dataLen = Len(d) /\ Ahead(s, pos) = d \o c /\ Gives(t, done, d \o r)
  BY <1>1 DEF Receiving, Place
<1>3. PICK c, r :
        /\ Remaining(t, count - i - 1, c, r)
        /\ dataLen = Len(d) /\ Ahead(s, pos) = d \o c /\ Gives(t, done, d \o r)
  BY <1>2
<1>4. /\ Sound(t) /\ f \in Bases /\ f \in Seq(Byte) /\ pos \in Nat /\ count \in Nat /\ i \in Nat
      /\ outcome # "signature" /\ insts \in Seq(Receivable(f)) /\ Starts(output, t.source)
      /\ (t.mode = "list" => output = << >>)
      /\ capBuf \in Nat /\ capBuf <= ChunkSize
      /\ t.mode # "list" => Least(dataLen, ChunkSize) <= capBuf
  BY <1>1, SessionAssumption DEF Receiving, Sound, Buffered
<1>5. c \in Seq(Nat) /\ r \in Seq(Byte) /\ Len(d) \in Nat
  BY <1>3, <1>4, RemainingType, LenProperties
<1>6. /\ m \in Nat /\ m <= Len(d) /\ (t.mode = "list" => m = Len(d))
      /\ dataLen = 0 => Len(d) = 0 /\ m = 0
  BY <1>3, <1>5, ChunkSizeAssumption DEF Portion, Streaming, Least
<1> DEFINE x == Slice(d, 0, m)
           y == Slice(d, m, Len(d))
<1>7. /\ x \in Seq(Byte) /\ y \in Seq(Byte) /\ x \in Seq(Nat) /\ y \in Seq(Nat)
      /\ Len(x) = m /\ Len(y) = Len(d) - m /\ d = x \o y
  <2>1. /\ x \in Seq(Byte) /\ y \in Seq(Byte)
        /\ Len(x) = m /\ Len(y) = Len(d) - m /\ d = x \o y
    <3> HIDE DEF m
    <3> QED BY <1>6, SplitAt
  <2> HIDE DEF x, y
  <2> QED BY <2>1, BytesAreNaturals
<1> HIDE DEF x, y, m
<1>8. /\ d \o c = x \o (y \o c) /\ y \o c \in Seq(Nat)
      /\ d \o r = x \o (y \o r)
  <2>1. Seqs(Nat, x, y, c) /\ Seqs(Byte, x, y, r)
    BY <1>5, <1>7 DEF Seqs
  <2>2. (x \o y) \o c = x \o (y \o c) /\ y \o c \in Seq(Nat)
    BY ONLY <2>1, Associative, SMTT(30)
  <2>3. (x \o y) \o r = x \o (y \o r)
    BY ONLY <2>1, Associative, SMTT(30)
  <2> QED BY <1>7, <2>2, <2>3
<1> DEFINE v == y \o c
<1>9. Ahead(s, pos) = x \o v /\ v \in Seq(Nat) /\ Arrived(Len(x))
  BY <1>1, <1>3, <1>7, <1>8
<1> HIDE DEF v
<1>10. /\ pos + m \in Nat /\ pos + m <= Len(s) /\ Ahead(s, pos + m) = v /\ data = x
  <2>1. /\ pos + Len(x) \in Nat /\ pos + Len(x) <= Len(s)
        /\ Ahead(s, pos + Len(x)) = v /\ Slice(wire, pos, pos + Len(x)) = x
    BY <1>7, <1>9, ReceiverReads
  <2> QED BY <1>7, <2>1
<1>11. ASSUME pc' \in Stages, i' \in Nat, insts' \in Seq(Receivable(f)),
              pc' = "call" => inst' \in Receivable(f) /\ t.mode # "list", pc' # "data",
              Place(t, pc', outcome', pos', count' - i', dataLen', inst', done1)
       PROVE  Receiving'
  <2>1. Buffered(t, pc', dataLen', capBuf', inst')
    BY <1>1, <1>3, <1>4, <1>5, <1>11 DEF Buffered
  <2>2. /\ outcome' # "signature" /\ count' \in Nat
        /\ pos' \in Nat /\ pos' <= Len(s) /\ Starts(output', t.source)
        /\ (t.mode = "list" => pc' # "call" /\ output' = << >>)
    BY <1>1, <1>4, <1>10, <1>11
  <2> QED BY <1>1, <1>11, <2>1, <2>2, ReceiverStep DEF t, s, f
<1>12. CASE t.mode = "list"
  <2>1. /\ insts' = Append(insts, Literal(x, 0)) /\ i' = i + 1 /\ pc' = "next"
        /\ count' - i' = count - i - 1
    BY <1>1, <1>4, <1>10, <1>12
  <2>2. x = d /\ y = << >> /\ v = c
    <3>1. Len(y) = 0
      BY <1>5, <1>6, <1>7, <1>12
    <3>2. y = << >>
      BY <1>7, <3>1
    <3>3. x \o << >> = x /\ << >> \o c = c
      BY <1>5, <1>7
    <3> QED BY <1>7, <3>2, <3>3 DEF v
  <2> DEFINE l == Literal(d, 0)
  <2>3. l \in Receivable(f) /\ l \in Instruction /\ Apply(f, l) = d
    BY DEF Literal, Receivable, Instruction, Apply
  <2> HIDE DEF l
  <2>4. insts' = Append(insts, l) /\ insts \in Seq(Instruction)
    <3>1. Receivable(f) \subseteq Instruction
      BY DEF Receivable
    <3> QED BY <1>4, <2>1, <2>2, <3>1 DEF l
  <2>5. insts' \in Seq(Receivable(f))
    BY <1>4, <2>3, <2>4
  <2>6. done = RebuiltFrom(f, insts) /\ done1 = RebuiltFrom(f, insts')
    BY <1>1, <1>12, <2>1 DEF Done
  <2>7. done1 = done \o d
    BY <1>4, <2>3, <2>4, <2>6, RebuiltAppend
  <2>8. Gives(t, done1, r)
    <3>1. BasisHeld => done \in Seq(Byte) /\ t.source = done \o (d \o r)
      BY <1>3 DEF Gives
    <3> HIDE DEF done, done1, t
    <3>2. ASSUME BasisHeld
          PROVE  done1 \in Seq(Byte) /\ t.source = done1 \o r
      <4>1. Seqs(Byte, done, d, r)
        BY <1>5, <3>1, <3>2 DEF Seqs
      <4>2. (done \o d) \o r = done \o (d \o r) /\ done \o d \in Seq(Byte)
        BY ONLY <4>1, Associative, SMTT(30)
      <4> QED BY <2>7, <3>1, <3>2, <4>2
    <3> QED BY <1>5, <3>2 DEF Gives
  <2> HIDE DEF t, s, done, done1, f
  <2>9. Place(t, pc', outcome', pos', count' - i', dataLen', inst', done1)
    <3>1. Remaining(t, count' - i', Ahead(s, pos'), r)
      BY <1>1, <1>3, <1>10, <2>1, <2>2
    <3> QED BY <2>1, <2>8, <3>1 DEF Place, s
  <2> QED BY <1>4, <1>11, <2>1, <2>5, <2>9 DEF Stages
<1>13. CASE t.mode # "list" /\ dataLen > 0
  <2> DEFINE l == Literal(x, i)
  <2>1. /\ inst' = l /\ insts' = insts /\ i' = i /\ pc' = "call"
        /\ count' - i' = count - i
    BY <1>1, <1>10, <1>13
  <2>2. l \in Receivable(f) /\ Apply(f, l) = x /\ l.isLiteral /\ Len(l.data) = m
    BY <1>4, <1>7 DEF Literal, Receivable, Instruction, Apply
  <2>3. done1 = done
    BY <1>1, <1>13, <2>1 DEF Done
  <2> HIDE DEF t, s, done, done1, f, l
  <2>4. Place(t, pc', outcome', pos', count' - i', dataLen', inst', done1)
    <3>1. /\ Remaining(t, count' - i' - 1, c, r) /\ y \in Seq(Byte)
          /\ inst'.isLiteral /\ dataLen' = Len(inst'.data) + Len(y)
          /\ Ahead(s, pos') = y \o c /\ Gives(t, done1, Apply(t.basis, inst') \o (y \o r))
      <4>1. Len(d) = m + Len(y)
        BY <1>5, <1>6, <1>7
      <4> QED BY <1>1, <1>3, <1>7, <1>8, <1>10, <2>1, <2>2, <2>3, <4>1 DEF v, f
    <3> QED BY <2>1, <3>1 DEF Place, s
  <2> QED BY <1>4, <1>11, <1>13, <2>1, <2>2, <2>4 DEF Stages
<1>14. CASE t.mode # "list" /\ ~ (dataLen > 0)
  <2>1. /\ inst' = inst /\ insts' = insts /\ i' = i + 1 /\ pc' = "next"
        /\ count' - i' = count - i - 1 /\ Len(d) = 0 /\ m = 0
    BY <1>1, <1>3, <1>4, <1>5, <1>6, <1>14
  <2>2. d = << >> /\ x = << >> /\ y = << >>
    <3>1. Len(x) = 0 /\ Len(y) = 0
      BY <1>7, <2>1
    <3>2. x = << >> /\ y = << >>
      BY <1>7, <3>1
    <3> QED BY <2>1, <3>2
  <2>3. v = c /\ d \o r = r
    BY <1>5, <2>2 DEF v
  <2>4. done1 = done
    BY <1>1, <1>14, <2>1 DEF Done
  <2> HIDE DEF t, s, done, done1, f
  <2>5. Place(t, pc', outcome', pos', count' - i', dataLen', inst', done1)
    <3>1. Remaining(t, count' - i', Ahead(s, pos'), r) /\ Gives(t, done1, r)
      BY <1>1, <1>3, <1>10, <2>1, <2>3, <2>4
    <3> QED BY <2>1, <3>1 DEF Place, s
  <2> QED BY <1>4, <1>11, <2>1, <2>5 DEF Stages
<1> QED BY <1>12, <1>13, <1>14

LEMMA ReadIdxStep ==
  ASSUME Receiving, ReadIdx
  PROVE  Receiving'
<1> DEFINE t == transfer
           s == Stream(t)
           f == t.basis
           done == Done(t, pc, insts, output)
           done1 == Done(t, pc', insts', output')
<1>1. /\ pc = "idx" /\ Arrived(1) /\ UNCHANGED senderVars
      /\ pos' = pos + 1 /\ count' = count /\ dataLen' = dataLen /\ capBuf' = capBuf
      /\ output' = output /\ outcome' = outcome
      /\ IF t.mode # "list"
         THEN inst' = Match(Cell, i) /\ pc' = "call" /\ i' = i /\ insts' = insts
         ELSE insts' = Append(insts, Match(Cell, 0)) /\ i' = i + 1 /\ pc' = "next" /\ inst' = inst
  BY DEF ReadIdx, Goto, Streaming
<1>2. PICK k \in 0 .. NumBlocks(f) - 1 : \E c, r :
        /\ Remaining(t, count - i - 1, c, r)
        /\ Ahead(s, pos) = << k >> \o c /\ Gives(t, done, Block(f, k) \o r)
  BY <1>1 DEF Receiving, Place
<1>3. PICK c, r :
        /\ Remaining(t, count - i - 1, c, r)
        /\ Ahead(s, pos) = << k >> \o c /\ Gives(t, done, Block(f, k) \o r)
  BY <1>2
<1>4. /\ Sound(t) /\ f \in Bases /\ f \in Seq(Byte) /\ pos \in Nat /\ count \in Nat /\ i \in Nat
      /\ outcome # "signature" /\ insts \in Seq(Receivable(f)) /\ Starts(output, t.source)
      /\ (t.mode = "list" => output = << >>)
      /\ capBuf \in Nat /\ capBuf <= ChunkSize
  BY <1>1, SessionAssumption DEF Receiving, Sound, Buffered
<1>5. c \in Seq(Nat) /\ r \in Seq(Byte) /\ k \in Nat
  <2>1. NumBlocks(f) \in Nat
    BY <1>4, BlocksAtMostBytes
  <2> QED BY <1>3, <1>4, <2>1, RemainingType
<1>6. pos + 1 \in Nat /\ pos + 1 <= Len(s) /\ Ahead(s, pos + 1) = c /\ Cell = k
  BY <1>1, <1>3, <1>5, ReceiverReadsField
<1>7. ASSUME pc' \in Stages, i' \in Nat, insts' \in Seq(Receivable(f)),
             pc' = "call" => inst' \in Receivable(f) /\ t.mode # "list" /\ ~ inst'.isLiteral,
             pc' # "data",
             Place(t, pc', outcome', pos', count' - i', dataLen', inst', done1)
      PROVE  Receiving'
  <2>1. Buffered(t, pc', dataLen', capBuf', inst')
    BY <1>1, <1>4, <1>7 DEF Buffered
  <2>2. /\ outcome' # "signature" /\ count' \in Nat
        /\ pos' \in Nat /\ pos' <= Len(s) /\ Starts(output', t.source)
        /\ (t.mode = "list" => pc' # "call" /\ output' = << >>)
    BY <1>1, <1>4, <1>6, <1>7
  <2> QED BY <1>1, <1>7, <2>1, <2>2, ReceiverStep DEF t, s, f
<1>8. CASE t.mode = "list"
  <2> DEFINE l == Match(k, 0)
  <2>1. insts' = Append(insts, l) /\ i' = i + 1 /\ pc' = "next" /\ count' - i' = count - i - 1
    BY <1>1, <1>4, <1>6, <1>8
  <2>2. l \in Receivable(f) /\ l \in Instruction /\ Apply(f, l) = Block(f, k)
    BY <1>2, <1>5 DEF Match, Receivable, Instruction, Apply
  <2> HIDE DEF l
  <2>3. insts \in Seq(Instruction)
    <3>1. Receivable(f) \subseteq Instruction
      BY DEF Receivable
    <3> QED BY <1>4, <3>1
  <2>4. insts' \in Seq(Receivable(f))
    BY <1>4, <2>1, <2>2
  <2>5. done = RebuiltFrom(f, insts) /\ done1 = RebuiltFrom(f, insts')
    BY <1>1, <1>8, <2>1 DEF Done
  <2>6. done1 = done \o Block(f, k) /\ Block(f, k) \in Seq(Byte)
    BY <1>4, <1>5, <2>1, <2>2, <2>3, <2>5, RebuiltAppend, BlockIsBytes
  <2>7. Gives(t, done1, r)
    <3>1. BasisHeld => done \in Seq(Byte) /\ t.source = done \o (Block(f, k) \o r)
      BY <1>3 DEF Gives
    <3> DEFINE x == Block(f, k)
    <3> HIDE DEF done, done1, t, f, x
    <3>2. ASSUME BasisHeld
          PROVE  done1 \in Seq(Byte) /\ t.source = done1 \o r
      <4>1. Seqs(Byte, done, x, r)
        BY <1>5, <2>6, <3>1, <3>2 DEF Seqs, x
      <4>2. (done \o x) \o r = done \o (x \o r) /\ done \o x \in Seq(Byte)
        BY ONLY <4>1, Associative, SMTT(30)
      <4> QED BY <2>6, <3>1, <3>2, <4>2 DEF x
    <3> QED BY <1>5, <3>2 DEF Gives
  <2> HIDE DEF t, s, done, done1, f
  <2>8. Place(t, pc', outcome', pos', count' - i', dataLen', inst', done1)
    <3>1. Remaining(t, count' - i', Ahead(s, pos'), r)
      BY <1>1, <1>3, <1>6, <2>1
    <3> QED BY <2>1, <2>7, <3>1 DEF Place, s
  <2> QED BY <1>4, <1>7, <2>1, <2>4, <2>8 DEF Stages
<1>9. CASE t.mode # "list"
  <2> DEFINE l == Match(k, i)
  <2>1. inst' = l /\ insts' = insts /\ i' = i /\ pc' = "call" /\ count' - i' = count - i
    BY <1>1, <1>6, <1>9
  <2>2. l \in Receivable(f) /\ Apply(f, l) = Block(f, k) /\ ~ l.isLiteral
    BY <1>2, <1>4, <1>5 DEF Match, Receivable, Instruction, Apply
  <2>3. done1 = done
    BY <1>1, <1>9, <2>1 DEF Done
  <2>4. << >> \o c = c /\ << >> \o r = r /\ << >> \in Seq(Byte)
    BY <1>5
  <2> HIDE DEF t, s, done, done1, f, l
  <2>5. Place(t, pc', outcome', pos', count' - i', dataLen', inst', done1)
    <3> DEFINE d == << >>
    <3>1. /\ Remaining(t, count' - i' - 1, c, r) /\ d \in Seq(Byte)
          /\ ~ inst'.isLiteral /\ d = << >>
          /\ Ahead(s, pos') = d \o c /\ Gives(t, done1, Apply(t.basis, inst') \o (d \o r))
      BY <1>1, <1>3, <1>6, <2>1, <2>2, <2>3, <2>4 DEF f
    <3> HIDE DEF d
    <3> QED BY <2>1, <3>1 DEF Place, s
  <2> QED BY <1>4, <1>7, <1>9, <2>1, <2>2, <2>5 DEF Stages
<1> QED BY <1>8, <1>9

\* fn writes what an instruction stands for, or a part of it, or nothing.
LEMMA WriteInstructionStep ==
  ASSUME Receiving, WriteInstruction
  PROVE  Receiving'
<1> DEFINE t == transfer
           s == Stream(t)
           f == t.basis
           x == Restored(inst)
           done == Done(t, pc, insts, output)
           done1 == Done(t, pc', insts', output')
<1>1. /\ pc = "call" /\ UNCHANGED senderVars
      /\ pos' = pos /\ count' = count /\ capBuf' = capBuf /\ inst' = inst /\ insts' = insts
  BY DEF WriteInstruction
<1>2. PICK d \in Seq(Byte) : \E c, r :
        /\ Remaining(t, count - i - 1, c, r)
        /\ inst.isLiteral => dataLen = Len(inst.data) + Len(d)
        /\ ~ inst.isLiteral => d = << >>
        /\ Ahead(s, pos) = d \o c /\ Gives(t, done, Apply(f, inst) \o (d \o r))
  BY <1>1 DEF Receiving, Place
<1>3. PICK c, r :
        /\ Remaining(t, count - i - 1, c, r)
        /\ inst.isLiteral => dataLen = Len(inst.data) + Len(d)
        /\ ~ inst.isLiteral => d = << >>
        /\ Ahead(s, pos) = d \o c /\ Gives(t, done, Apply(f, inst) \o (d \o r))
  BY <1>2
<1>4. /\ Sound(t) /\ f \in Bases /\ f \in Seq(Byte) /\ pos \in Nat /\ pos <= Len(s)
      /\ count \in Nat /\ i \in Nat /\ t.mode # "list"
      /\ outcome # "signature" /\ insts \in Seq(Receivable(f)) /\ Starts(output, t.source)
      /\ capBuf \in Nat /\ capBuf <= ChunkSize /\ inst \in Receivable(f) /\ inst \in Instruction
      /\ inst.isLiteral => dataLen \in Nat /\ Least(dataLen, ChunkSize) <= capBuf
  BY <1>1, SessionAssumption DEF Receiving, Sound, Buffered, Receivable
<1>5. done = output /\ done1 = output'
  BY <1>4 DEF Done
<1> DEFINE z == d \o r
<1>6. c \in Seq(Nat) /\ r \in Seq(Byte) /\ z \in Seq(Byte) /\ Len(d) \in Nat
      /\ (~ inst.isLiteral => z = r /\ d \o c = c)
  <2>1. c \in Seq(Nat) /\ r \in Seq(Byte) /\ Len(d) \in Nat
    BY <1>3, <1>4, RemainingType, LenProperties
  <2>2. d \in Seq(Byte) /\ d \o r \in Seq(Byte)
    BY <2>1, ConcatProperties
  <2>3. << >> \o c = c /\ << >> \o r = r
    BY <2>1
  <2>4. ~ inst.isLiteral => d = << >>
    BY <1>3
  <2> HIDE DEF t, s, f, done
  <2> QED BY <2>1, <2>2, <2>3, <2>4
<1>7. BasisHeld => /\ x = Apply(f, inst) /\ x \in Seq(Byte) /\ output \in Seq(Byte)
                   /\ t.source = output \o (x \o z)
  <2>1. BasisHeld => output \in Seq(Byte) /\ t.source = output \o (Apply(f, inst) \o z)
    BY <1>3, <1>5 DEF Gives
  <2>2. Apply(f, inst) \in Seq(Byte)
    BY <1>4, ApplyType
  <2>3. BasisHeld => x = Apply(f, inst)
    BY <1>4, HeldRestores
  <2> HIDE DEF t, f, x, z
  <2> QED BY <2>1, <2>2, <2>3
<1> HIDE DEF x, z
<1>8. ASSUME pc' \in {"next", "data", "returned"}, i' \in Nat, outcome' # "signature",
             pc' = "data" => dataLen' \in Nat /\ Least(dataLen', ChunkSize) <= capBuf,
             Starts(output', t.source),
             Place(t, pc', outcome', pos', count' - i', dataLen', inst', done1)
      PROVE  Receiving'
  <2>1. Buffered(t, pc', dataLen', capBuf', inst')
    BY <1>1, <1>4, <1>8 DEF Buffered
  <2>2. /\ pc' \in Stages /\ pc' # "call" /\ count' \in Nat
        /\ pos' \in Nat /\ pos' <= Len(s) /\ insts' \in Seq(Receivable(f))
    BY <1>1, <1>4, <1>8 DEF Stages
  <2> QED BY <1>1, <1>4, <1>8, <2>1, <2>2, ReceiverStep DEF t, s, f
<1>9. CASE OutOfRange(inst) /\ Return("range") /\ UNCHANGED << output, i, dataLen >>
  <2>1. pc' = "returned" /\ outcome' = "range" /\ output' = output /\ i' = i
    BY <1>9 DEF Return
  <2>2. Place(t, pc', outcome', pos', count' - i', dataLen', inst', done1)
    BY <2>1 DEF Place
  <2> QED BY <1>4, <1>8, <2>1, <2>2
<1>10. CASE output' = output \o x /\ AfterCall
  <2>1. BasisHeld => /\ output' \in Seq(Byte) /\ t.source = output' \o z
    <3> HIDE DEF t
    <3>1. ASSUME BasisHeld
          PROVE  /\ output' \in Seq(Byte) /\ t.source = output' \o z
      <4>1. Seqs(Byte, output, x, z)
        BY <1>6, <1>7, <3>1 DEF Seqs
      <4>2. (output \o x) \o z = output \o (x \o z) /\ output \o x \in Seq(Byte)
        BY ONLY <4>1, Associative, SMTT(30)
      <4> QED BY <1>7, <1>10, <3>1, <4>2
    <3> QED BY <3>1
  <2>2. Starts(output', t.source) /\ Gives(t, done1, z)
    BY <1>5, <1>6, <2>1 DEF Starts, Gives
  <2>3. CASE inst.isLiteral
    <3>1. pc' = "data" /\ outcome' = outcome /\ i' = i /\ dataLen' = Len(d)
          /\ dataLen' \in Nat /\ Least(dataLen', ChunkSize) <= capBuf
      <4>1. pc' = "data" /\ outcome' = outcome /\ i' = i /\ dataLen' = dataLen - Len(inst.data)
        BY <1>10, <2>3 DEF AfterCall, Goto, LeftAfterCall
      <4>2. Len(inst.data) \in Nat
        BY <1>4, LenProperties DEF Instruction
      <4>3. dataLen' = Len(d) /\ dataLen' <= dataLen
        BY <1>3, <1>6, <2>3, <4>1, <4>2
      <4> QED BY <1>4, <1>6, <2>3, <4>1, <4>3, ChunkSizeAssumption DEF Least
    <3> HIDE DEF t, s, done, done1, f
    <3>2. Place(t, pc', outcome', pos', count' - i', dataLen', inst', done1)
      <4>1. /\ Remaining(t, count' - i' - 1, c, r)
            /\ dataLen' = Len(d) /\ Ahead(s, pos') = d \o c /\ Gives(t, done1, d \o r)
        BY <1>1, <1>3, <2>2, <3>1 DEF z
      <4> QED BY <3>1, <4>1 DEF Place, s
    <3> QED BY <1>4, <1>8, <2>2, <3>1, <3>2
  <2>4. CASE ~ inst.isLiteral
    <3>1. pc' = "next" /\ outcome' = outcome /\ i' = i + 1 /\ i' \in Nat
          /\ count' - i' = count - i - 1
      BY <1>1, <1>4, <1>10, <2>4 DEF AfterCall, Goto
    <3> HIDE DEF t, s, done, done1, f
    <3>2. Place(t, pc', outcome', pos', count' - i', dataLen', inst', done1)
      <4>1. Remaining(t, count' - i', Ahead(s, pos'), r) /\ Gives(t, done1, r)
        BY <1>1, <1>3, <1>6, <2>2, <2>4, <3>1
      <4> QED BY <3>1, <4>1 DEF Place, s
    <3> QED BY <1>4, <1>8, <2>2, <3>1, <3>2
  <2> QED BY <2>3, <2>4
<1>11. CASE /\ \E n \in 0 .. Len(x) - 1 : output' = output \o Slice(x, 0, n)
            /\ Return("write") /\ UNCHANGED << i, dataLen >>
  <2>1. pc' = "returned" /\ outcome' = "write" /\ i' = i
    BY <1>11 DEF Return
  <2>2. PICK n \in 0 .. Len(x) - 1 : output' = output \o Slice(x, 0, n)
    BY <1>11
  <2>3. Starts(output', t.source)
    <3> HIDE DEF t
    <3> SUFFICES ASSUME BasisHeld
                 PROVE  \E e \in Seq(Byte) : output' \in Seq(Byte) /\ t.source = output' \o e
      BY DEF Starts
    <3> DEFINE a == Slice(x, 0, n)
               b == Slice(x, n, Len(x))
    <3>1. a \in Seq(Byte) /\ b \in Seq(Byte) /\ x = a \o b
      <4>1. x \in Seq(Byte) /\ Len(x) \in Nat /\ n \in Nat /\ n <= Len(x)
        BY <1>7, LenProperties
      <4>2. a \in Seq(Byte) /\ b \in Seq(Byte) /\ a \o b = x
        BY <4>1, SplitAt
      <4> QED BY <4>2
    <3>2. output' = output \o a
      BY <2>2
    <3> HIDE DEF a, b
    <3>3. Seqs(Byte, a, b, z)
      BY <1>6, <3>1 DEF Seqs
    <3>4. (a \o b) \o z = a \o (b \o z) /\ b \o z \in Seq(Byte)
      BY ONLY <3>3, Associative, SMTT(30)
    <3> DEFINE e == b \o z
    <3>5. Seqs(Byte, output, a, e)
      BY <1>7, <3>1, <3>4 DEF Seqs
    <3>6. e \in Seq(Byte) /\ t.source = output \o (a \o e)
      BY <1>7, <3>1, <3>4
    <3> HIDE DEF e
    <3>7. (output \o a) \o e = output \o (a \o e) /\ output \o a \in Seq(Byte)
      BY ONLY <3>5, Associative, SMTT(30)
    <3> QED BY <3>2, <3>6, <3>7
  <2>4. Place(t, pc', outcome', pos', count' - i', dataLen', inst', done1)
    BY <2>1 DEF Place
  <2> QED BY <1>4, <1>8, <2>1, <2>3, <2>4
<1> QED BY <1>9, <1>10, <1>11 DEF WriteInstruction, x

\* The list restores the source whole, or an error is returned.
LEMMA ReconstructStep ==
  ASSUME Receiving, Reconstruct
  PROVE  Receiving'
<1> DEFINE t == transfer
           s == Stream(t)
           f == t.basis
           done == Done(t, pc, insts, output)
           done1 == Done(t, pc', insts', output')
<1>1. /\ pc = "rebuild" /\ UNCHANGED senderVars
      /\ pos' = pos /\ count' = count /\ i' = i /\ dataLen' = dataLen
      /\ capBuf' = capBuf /\ inst' = inst /\ insts' = insts
  BY DEF Reconstruct, decoderVars
<1>2. t.mode = "list" /\ Ahead(s, pos) = Following /\ Gives(t, done, << >>)
  BY <1>1 DEF Receiving, Place
<1>3. /\ Sound(t) /\ f \in Bases /\ f \in Seq(Byte) /\ pos \in Nat /\ pos <= Len(s)
      /\ count \in Nat /\ i \in Nat /\ t.source \in Seq(Byte)
      /\ outcome # "signature" /\ insts \in Seq(Receivable(f)) /\ Starts(output, t.source)
      /\ capBuf \in Nat /\ capBuf <= ChunkSize
  BY <1>1, SessionAssumption DEF Receiving, Sound, Buffered
<1>4. ASSUME pc' = "returned", outcome' # "signature", Starts(output', t.source),
             Place(t, pc', outcome', pos', count' - i', dataLen', inst', done1)
      PROVE  Receiving'
  <2>1. Buffered(t, pc', dataLen', capBuf', inst')
    BY <1>1, <1>3, <1>4 DEF Buffered
  <2>2. /\ pc' \in Stages /\ pc' # "call" /\ count' \in Nat /\ i' \in Nat
        /\ pos' \in Nat /\ pos' <= Len(s) /\ insts' \in Seq(Receivable(f))
    BY <1>1, <1>3, <1>4 DEF Stages
  <2> QED BY <1>1, <1>4, <2>1, <2>2, ReceiverStep DEF t, s, f
<1>5. CASE \E k \in DOMAIN insts : OutOfRange(insts[k])
  <2>1. pc' = "returned" /\ outcome' = "range" /\ output' = output
    BY <1>5 DEF Reconstruct, Return
  <2>2. Place(t, pc', outcome', pos', count' - i', dataLen', inst', done1)
    BY <2>1 DEF Place
  <2> QED BY <1>3, <1>4, <2>1, <2>2
<1>6. CASE ~ \E k \in DOMAIN insts : OutOfRange(insts[k])
  <2>1. /\ pc' = "returned" /\ outcome' = "nil"
        /\ output' = FlattenSeq([k \in DOMAIN insts |-> Restored(insts[k])])
    BY <1>6 DEF Reconstruct, Return
  <2>2. done = RebuiltFrom(f, insts) /\ done1 = output'
    BY <1>1, <1>2, <2>1 DEF Done
  <2>3. BasisHeld => output' = done
    <3> SUFFICES ASSUME BasisHeld
                 PROVE  output' = done
      OBVIOUS
    <3>1. \A k \in DOMAIN insts : insts[k] \in Receivable(f) /\ insts[k] \in Instruction
      BY <1>3 DEF Receivable
    <3>2. \A k \in DOMAIN insts : Restored(insts[k]) = Applied(f)[insts[k]]
      <4> TAKE k \in DOMAIN insts
      <4>1. insts[k] \in Receivable(f) /\ Applied(f)[insts[k]] = Apply(f, insts[k])
        BY <3>1 DEF Applied
      <4> QED BY <1>3, <4>1, HeldRestores
    <3>3. [k \in DOMAIN insts |-> Restored(insts[k])] = Mapped(Applied(f), insts)
      BY <3>2 DEF Mapped
    <3> QED BY <2>1, <2>2, <3>3 DEF RebuiltFrom, FlatMap
  <2>4. BasisHeld => done \in Seq(Byte) /\ t.source = done \o << >>
    BY <1>2 DEF Gives
  <2>5. << >> \in Seq(Byte)
    OBVIOUS
  <2>6. Starts(output', t.source) /\ Gives(t, done1, << >>)
    <3> HIDE DEF t, done, done1
    <3> QED BY <2>2, <2>3, <2>4, <2>5 DEF Starts, Gives
  <2> HIDE DEF t, s, done, done1, f
  <2>7. Place(t, pc', outcome', pos', count' - i', dataLen', inst', done1)
    <3>1. Ahead(s, pos') = Following
      BY <1>1, <1>2
    <3> QED BY <2>1, <2>6, <3>1 DEF Place, s
  <2> QED BY <1>4, <2>1, <2>6, <2>7
<1> QED BY <1>5, <1>6

LEMMA ReceivingStep ==
  ASSUME Receiving, Write \/ WriteFails \/ Decoding \/ Rebuilding
  PROVE  Receiving'
BY SenderStep, ReadFailsStep, ReadHeaderStep, ReadFlagStep, AllDecodedStep, ReadLenStep, ReadDataStep,
   ReadIdxStep, WriteInstructionStep, ReconstructStep DEF Decoding, Rebuilding

LEMMA ReceivingUnchanged ==
  ASSUME ReceiverInv, UNCHANGED receiverVars
  PROVE  ReceiverInv'
<1>1. /\ transfer' = transfer /\ writes' = writes /\ writer' = writer /\ wire' = wire
      /\ pos' = pos /\ count' = count /\ i' = i /\ dataLen' = dataLen /\ capBuf' = capBuf
      /\ inst' = inst /\ insts' = insts /\ pc' = pc /\ output' = output /\ outcome' = outcome
  BY DEF receiverVars, senderVars, decoderVars
<1> QED BY <1>1 DEF ReceiverInv, Waiting, Receiving

\* With the answer the receiver waits at the header of what is sent.
LEMMA AnswerStep ==
  ASSUME ReceiverInv, Answer
  PROVE  Receiving'
<1>1. pc = "signature" /\ Waiting
  BY DEF Answer, ReceiverInv
<1>2. PICK f \in Bases, d \in Inputs, mode \in {"stream", "all", "list"} :
        \E h \in Holds(f), delta \in Deltas(f, d) : \E b \in Batchings(mode, delta) :
          Begin([mode |-> mode, batches |-> b, source |-> d,
                 basis |-> f, held |-> h.held, blockLens |-> h.lens])
  BY DEF Answer
<1>3. PICK h \in Holds(f), delta \in Deltas(f, d) : \E b \in Batchings(mode, delta) :
          Begin([mode |-> mode, batches |-> b, source |-> d,
                 basis |-> f, held |-> h.held, blockLens |-> h.lens])
  BY <1>2
<1>4. PICK b \in Batchings(mode, delta) :
          Begin([mode |-> mode, batches |-> b, source |-> d,
                 basis |-> f, held |-> h.held, blockLens |-> h.lens])
  BY <1>3
<1> DEFINE t == [mode |-> mode, batches |-> b, source |-> d,
                 basis |-> f, held |-> h.held, blockLens |-> h.lens]
<1>5. Sound(t)
  BY AnswerSound
<1>6. Begin(t)
  BY <1>4
<1> HIDE DEF t
<1> DEFINE ws == MessageWrites(t) \o << Following >>
           s == Stream(t)
<1>7. /\ transfer' = t /\ writes' = ws /\ pc' = "header" /\ writer' = writer /\ wire' = << >>
      /\ pos' = 0 /\ count' = 0 /\ i' = 0 /\ dataLen' = 0 /\ capBuf' = 0
      /\ insts' = << >> /\ output' = << >> /\ outcome' = outcome
  BY <1>1, <1>6 DEF Begin, decoderVars, Waiting
<1>8. /\ t.basis \in Bases /\ t.basis \in Seq(Byte) /\ t.source \in Seq(Byte)
      /\ ws \in Seq(Seq(Nat)) /\ s \in Seq(Nat)
      /\ s = BatchCells(t.batches) \o EndCells(t) /\ 0 <= Len(s)
  BY <1>5, SoundStream, LenProperties
<1>9. Written(Nat, s, writer', wire', writes')
  <2> DEFINE by == writer'
  <2>1. FlattenSeq(ws) = s
    BY DEF Stream
  <2>2. ws \in Seq(Seq(Nat))
    BY <1>8
  <2> HIDE DEF ws, s, by
  <2>3. Written(Nat, FlattenSeq(ws), by, << >>, ws)
    BY ONLY <2>2, WrittenAtFirst
  <2> QED BY <1>7, <2>1, <2>3 DEF by
<1>10. Done(t, pc', insts', output') = << >>
  BY <1>7, RebuiltNone DEF Done
<1>11. << >> \o t.source = t.source /\ << >> \in Seq(Byte)
  BY <1>8
<1>12. Starts(output', t.source) /\ Gives(t, << >>, t.source)
  BY <1>7, <1>8, <1>11 DEF Starts, Gives
<1>13. Place(t, pc', outcome', pos', count' - i', dataLen', inst', Done(t, pc', insts', output'))
  <2>1. Ahead(s, 0) = s
    <3> HIDE DEF s
    <3> QED BY <1>8, AheadOfAll
  <2>2. Coming(t, t.batches, Ahead(s, pos'), t.source) /\ (t.mode # "all" => Len(t.batches) = 1)
    BY <1>5, <1>7, <1>8, <2>1 DEF Sound, Coming
  <2> HIDE DEF ws
  <2> QED BY <1>7, <1>10, <1>12, <2>2 DEF Place
<1>14. Buffered(t, pc', dataLen', capBuf', inst')
  BY <1>7, ChunkSizeAssumption DEF Buffered
<1>15. outcome # "signature"
  BY <1>1 DEF Answer, Waiting, ReceiverInv
<1>16. insts' \in Seq(Receivable(t.basis)) /\ pos' \in Nat /\ pos' <= Len(s) /\ count' \in Nat /\ i' \in Nat
       /\ pc' \in Stages /\ pc' # "call" /\ output' = << >> /\ outcome' # "signature"
  BY <1>7, <1>8, <1>15 DEF Stages
<1> HIDE DEF s, ws
<1> QED BY <1>5, <1>7, <1>9, <1>12, <1>13, <1>14, <1>16 DEF Receiving, s

LEMMA WaitingStep ==
  ASSUME Waiting, pc = "signature" \/ outcome = "signature"
  PROVE  /\ ~ (Write \/ WriteFails \/ Decoding \/ Rebuilding)
         /\ NoAnswer => Waiting' /\ outcome' = "signature"
<1>1. ~ Write /\ ~ WriteFails
  BY DEF Waiting, Write, WriteFails
<1>2. ~ Decoding
  BY DEF Waiting, Decoding, ReadFails, ReadHeader, ReadFlag, ReadLen, ReadData, ReadIdx, AllDecoded
<1>3. ~ Rebuilding
  BY DEF Waiting, Rebuilding, WriteInstruction, Reconstruct
<1>4. NoAnswer => Waiting' /\ outcome' = "signature"
  BY DEF Waiting, NoAnswer, Return, senderVars, decoderVars
<1> QED BY <1>1, <1>2, <1>3, <1>4

\* The receiver always is where the invariant says, wherever a connection or
\* its output broke.
THEOREM AnswerConnection == Spec => []ReceiverInv
<1>1. Init => ReceiverInv
  BY DEF Init, ReceiverInit, ReceiverInv, Waiting
<1>2. ReceiverInv /\ [Next]_vars => ReceiverInv'
  <2> SUFFICES ASSUME ReceiverInv, [Next]_vars
               PROVE  ReceiverInv'
    OBVIOUS
  <2>1. CASE UNCHANGED receiverVars
    BY <2>1, ReceivingUnchanged
  <2>2. CASE Answer
    <3>1. Receiving'
      BY <2>2, AnswerStep
    <3> QED BY <3>1 DEF ReceiverInv, Receiving, Stages
  <2>3. CASE NoAnswer
    <3>1. Waiting /\ pc = "signature"
      BY <2>3 DEF NoAnswer, ReceiverInv
    <3>2. Waiting' /\ outcome' = "signature"
      BY <2>3, <3>1, WaitingStep
    <3> QED BY <3>2 DEF ReceiverInv
  <2>4. CASE Write \/ WriteFails \/ Decoding \/ Rebuilding
    <3>1. Receiving
      BY <2>4, WaitingStep DEF ReceiverInv
    <3>2. Receiving'
      BY <2>4, <3>1, ReceivingStep
    <3> QED BY <3>2 DEF ReceiverInv, Receiving, Stages
  <2>5. [Next]_vars => \/ UNCHANGED receiverVars \/ Answer \/ NoAnswer
                       \/ Write \/ WriteFails \/ Decoding \/ Rebuilding
    BY DEF Next, Rest, vars
  <2> QED BY <2>1, <2>2, <2>3, <2>4, <2>5
<1> QED BY <1>1, <1>2, PTL DEF Spec

\* The buffer of a streaming receiver never exceeds CHUNK_SIZE, and every
\* portion of a literal fits in it (wire.go, DecodeInstructionsStream).
THEOREM BufferBounded == Spec => []BufferHolds
<1>1. ReceiverInv => BufferHolds
  BY DEF ReceiverInv, Waiting, Receiving, Buffered, BufferHolds, Portion, Streaming
<1> QED BY <1>1, AnswerConnection, PTL

\* Wherever it stops, what ApplyDeltaStream or Reconstruct has written out is
\* the beginning of the new file, if the basis is still what was signed.
THEOREM OutputBegins ==
  ASSUME BasisHeld
  PROVE  Spec => []OutputIsPrefix
<1>1. ReceiverInv => OutputIsPrefix
  <2>1. ASSUME NEW d \in Seq(Byte), NEW out \in Seq(Byte), NEW r \in Seq(Byte), d = out \o r
        PROVE  IsPrefix(out, d)
    <3>1. Len(d) = Len(out) + Len(r) /\ Len(out) \in Nat /\ Len(r) \in Nat
      BY <2>1, ConcatProperties, LenProperties
    <3>2. SubSeq(d, 1, Len(out)) = out
      BY <2>1
    <3>3. SubSeq(out, 1, Len(out)) = out
      BY SubSeqFull
    <3> QED BY <3>1, <3>2, <3>3 DEF IsPrefix
  <2>2. ASSUME Receiving
        PROVE  OutputIsPrefix
    <3>1. transfer.source \in Seq(Byte)
      BY <2>2 DEF Receiving, Sound
    <3>2. PICK r \in Seq(Byte) : output \in Seq(Byte) /\ transfer.source = output \o r
      BY <2>2 DEF Receiving, Starts
    <3> QED BY <2>1, <3>1, <3>2 DEF OutputIsPrefix
  <2>3. ASSUME Waiting
        PROVE  OutputIsPrefix
    <3>1. << >> \in Seq(Byte) /\ << >> = << >> \o << >>
      OBVIOUS
    <3> QED BY <2>1, <2>3, <3>1 DEF Waiting, OutputIsPrefix
  <2> QED BY <2>2, <2>3 DEF ReceiverInv
<1> QED BY <1>1, AnswerConnection, PTL

\* A receiver that returns no error has rebuilt the new file and has read the
\* message to its end, not a cell further.
THEOREM TransferRebuilds ==
  ASSUME BasisHeld
  PROVE  Spec => []WholeOnSuccess
<1>1. ReceiverInv => WholeOnSuccess
  <2>1. ASSUME Receiving, pc = "returned", outcome = "nil"
        PROVE  output = transfer.source /\ pos = MessageLength
    <3> DEFINE s == Stream(transfer)
    <3>1. /\ Ahead(s, pos) = Following /\ Gives(transfer, output, << >>)
          /\ Sound(transfer) /\ pos \in Nat /\ pos <= Len(s)
      BY <2>1 DEF Receiving, Place, Done
    <3>2. output = transfer.source
      <4>1. output \in Seq(Byte) /\ transfer.source = output \o << >>
        BY <3>1 DEF Gives
      <4> QED BY <4>1
    <3>3. /\ s \in Seq(Nat) /\ Len(s) = Len(FlattenSeq(MessageWrites(transfer))) + Len(Following)
      BY <3>1, SoundStream
    <3> HIDE DEF s
    <3>4. Len(Ahead(s, pos)) = Len(s) - pos /\ Len(s) \in Nat
      BY <3>1, <3>3, AheadType, LenProperties
    <3>5. FlattenSeq(MessageWrites(transfer)) \in Seq(Nat)
      <4>1. MessageWrites(transfer) \in Seq(Seq(Nat))
        BY <3>1, StreamCells DEF Sound
      <4> QED BY <4>1, FlattenType
    <3> DEFINE n == Len(FlattenSeq(MessageWrites(transfer)))
    <3>6. n \in Int
      BY <3>5, LenProperties
    <3>7. pos = n
      <4>1. Len(Following) \in Nat
        BY WireAssumption, LenProperties
      <4> HIDE DEF n
      <4>2. Len(s) = n + Len(Following) /\ Len(Following) = Len(s) - pos
        BY <3>1, <3>3, <3>4 DEF n
      <4> QED BY <3>1, <3>4, <3>6, <4>1, <4>2
    <3> QED BY <3>2, <3>7 DEF MessageLength
  <2> QED BY <2>1 DEF ReceiverInv, Waiting, WholeOnSuccess
<1> QED BY <1>1, AnswerConnection, PTL
=============================================================================
