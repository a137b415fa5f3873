---------------------------- MODULE SignatureProofs ----------------------------
(***************************************************************************)
(* Signature generation, for every file, announced size, block size, batch *)
(* width and number of goroutines.                                         *)
(*                                                                         *)
(* The invariant that carries the proofs has a part for each path.  The    *)
(* reader's says how far the file is read, that the batch buffer holds the *)
(* bytes after the batches before, and which sums are written.  The        *)
(* goroutines' says that those launched keep to their ranges, that the     *)
(* WaitGroup counts the others and those still running, and that a range   *)
(* is hashed as far as its goroutine has come.                             *)
(***************************************************************************)
EXTENDS SignatureParallel, BlocksProofs, FiniteSetTheorems

CallInv ==
  /\ pc \in {"idle", "read", "hash", "returned", "launch", "wait"}
  /\ file \in Seq(Byte) /\ fileSize \in Nat
  /\ width \in Nat \ {0} /\ procs \in Nat \ {0}
  /\ pc \notin {"launch", "wait"} => running = {}

\* Where the blocks read so far end.
Through == Least((base + filled) * BlockSize, fileSize)

ReadInv ==
  pc \in {"read", "hash"} =>
    /\ base \in Nat /\ base <= Count
    /\ filled \in Nat /\ filled <= BatchCount
    /\ pc = "hash" => base < Count /\ filled = BatchCount
    /\ Through <= Len(file)
    /\ total \in Nat /\ (base < Count => Fed = Through)
    /\ batchBuf \in [1 .. width * BlockSize -> Nat]
    /\ base < Count => \A i \in 1 .. total : batchBuf[i] = file[base * BlockSize + i]
    /\ sums = [k \in 1 .. Count |->
                 IF k <= base THEN BlockSum(Announced, k - 1) ELSE Blank]

RangeInv ==
  /\ Count \in Nat \ {0} /\ fileSize = Len(file)
  /\ w \in 0 .. NumWorkers
  /\ running \subseteq 0 .. w - 1
  /\ wg = Cardinality(running) + NumWorkers - w
  /\ start \in [0 .. NumWorkers - 1 -> Nat] /\ end \in [0 .. NumWorkers - 1 -> Nat]
  /\ \A v \in 0 .. w - 1 :
       /\ end[v] = EndBlock(v) /\ StartBlock(v) <= start[v]
       /\ v \notin running => start[v] >= end[v]

HashedInv ==
  /\ sums = [k \in 1 .. Count |-> sums[k]]
  /\ \A v \in 0 .. w - 1 : \A idx \in StartBlock(v) .. EndBlock(v) - 1 :
       idx < start[v] => sums[idx + 1] = BlockSum(file, idx)

WorkInv ==
  pc \in {"launch", "wait"} =>
    RangeInv /\ HashedInv /\ outcome = "none" /\ (pc = "wait" => w = NumWorkers)

IInv == CallInv /\ ReadInv /\ WorkInv /\ PartialTrue /\ SignatureExact

-----------------------------------------------------------------------------
(* The operators *)

LEMMA CountBounds ==
  ASSUME fileSize \in Nat
  PROVE  Count \in Nat /\ (Count - 1) * BlockSize < fileSize /\ fileSize <= Count * BlockSize
BY RoundedDivision, BlockSizeAssumption DEF Count

\* Block i of the announced size: where it starts, ends and how long it is.
LEMMA BlockGeometry ==
  ASSUME fileSize \in Nat, NEW i \in Nat, i < Count
  PROVE  /\ i * BlockSize \in Nat /\ i * BlockSize < fileSize
         /\ (i + 1) * BlockSize = i * BlockSize + BlockSize
         /\ BlockBytes(i) \in 1 .. BlockSize
         /\ i * BlockSize + BlockBytes(i) = Least((i + 1) * BlockSize, fileSize)
<1>1. Count \in Nat /\ (Count - 1) * BlockSize < fileSize
  BY CountBounds
<1>2. i * BlockSize <= (Count - 1) * BlockSize
  BY <1>1, ScaleMonotone, BlockSizeAssumption
<1>3. /\ i * BlockSize \in Nat /\ (Count - 1) * BlockSize \in Int
      /\ (i + 1) * BlockSize = i * BlockSize + BlockSize
  BY <1>1, BlockSizeAssumption
<1> QED BY <1>1, <1>2, <1>3, BlockSizeAssumption DEF BlockBytes, Least

\* Slices of two sequences that agree, one shifted against the other.
LEMMA SlicesAgree ==
  ASSUME NEW S, NEW T, NEW f \in Seq(S), NEW g \in Seq(T),
         NEW o \in Nat, NEW lo \in Nat, NEW hi \in Nat,
         lo <= hi, hi <= Len(g), o + hi <= Len(f),
         \A i \in lo + 1 .. hi : g[i] = f[o + i]
  PROVE  Slice(g, lo, hi) = Slice(f, o + lo, o + hi)
<1> DEFINE x == o + lo
           y == o + hi
<1>1. x \in Nat /\ y \in Nat /\ x <= y /\ y <= Len(f) /\ y - x = hi - lo
  BY LenProperties
<1>2. /\ Slice(g, lo, hi) \in Seq(T) /\ Len(Slice(g, lo, hi)) = hi - lo
      /\ \A i \in 1 .. hi - lo : Slice(g, lo, hi)[i] = g[lo + i]
  <2>1. g \in Seq(T) /\ lo \in Nat /\ hi \in Nat /\ lo <= hi /\ hi <= Len(g)
    OBVIOUS
  <2> QED BY ONLY <2>1, SliceType, ZenonT(60)
<1>3. /\ Slice(f, x, y) \in Seq(S) /\ Len(Slice(f, x, y)) = y - x
      /\ \A i \in 1 .. y - x : Slice(f, x, y)[i] = f[x + i]
  <2> HIDE DEF x, y
  <2>1. f \in Seq(S) /\ x \in Nat /\ y \in Nat /\ x <= y /\ y <= Len(f)
    BY <1>1
  <2> QED BY ONLY <2>1, SliceType, ZenonT(60)
<1>4. ASSUME NEW i \in 1 .. hi - lo
      PROVE  Slice(g, lo, hi)[i] = Slice(f, x, y)[i]
  <2>1. Slice(g, lo, hi)[i] = g[lo + i] /\ Slice(f, x, y)[i] = f[x + i]
    BY <1>1, <1>2, <1>3
  <2>2. g[lo + i] = f[o + (lo + i)] /\ o + (lo + i) = x + i
    OBVIOUS
  <2> QED BY <2>1, <2>2
<1>5. Slice(g, lo, hi) \in Seq(S \cup T) /\ Slice(f, x, y) \in Seq(S \cup T)
  <2> HIDE DEF x, y
  <2> QED BY <1>2, <1>3
<1>6. Slice(g, lo, hi) = Slice(f, x, y)
  <2> HIDE DEF x, y
  <2> QED BY <1>1, <1>2, <1>3, <1>4, <1>5, SeqEqual
<1> QED BY <1>6 DEF x, y

\* The sum of a block that was read is that of the block of the announced bytes.
LEMMA AnnouncedBlock ==
  ASSUME file \in Seq(Byte), fileSize \in Nat, NEW i \in Nat, i < Count,
         i * BlockSize + BlockBytes(i) <= Len(file)
  PROVE  BlockSum(Announced, i) =
           SumOf(i, Slice(file, i * BlockSize, i * BlockSize + BlockBytes(i)), BlockBytes(i))
<1> DEFINE a == Least(fileSize, Len(file))
           lo == i * BlockSize
           hi == i * BlockSize + BlockBytes(i)
<1>1. a \in Nat /\ a <= Len(file) /\ 0 <= a
  BY LenProperties DEF Least
<1>2. Announced = Slice(file, 0, a)
  BY DEF Announced
<1>3. Announced \in Seq(Byte) /\ Len(Announced) = a
  <2> HIDE DEF a
  <2>1. Slice(file, 0, a) \in Seq(Byte) /\ Len(Slice(file, 0, a)) = a - 0
    BY <1>1, SliceType, ZenonT(60)
  <2> QED BY <2>1, <1>1, <1>2
<1>4. /\ lo \in Nat /\ hi \in Nat /\ lo < hi /\ hi = Least(lo + BlockSize, fileSize)
      /\ hi - lo = BlockBytes(i)
  BY BlockGeometry, BlockSizeAssumption
<1>5. BlockEnd(Announced, i) = hi /\ hi <= a
  BY <1>1, <1>3, <1>4, BlockSizeAssumption, LenProperties DEF BlockEnd, Least
<1>6. Block(Announced, i) = Slice(file, lo, hi)
  <2>1. Block(Announced, i) = Slice(Slice(file, 0, a), lo, hi)
    BY <1>2, <1>5 DEF Block
  <2> HIDE DEF a, lo, hi
  <2>2. Slice(Slice(file, 0, a), lo, hi) = Slice(file, 0 + lo, 0 + hi)
    BY <1>1, <1>4, <1>5, SliceSlice
  <2> QED BY <2>1, <2>2, <1>4
<1> HIDE DEF a
<1> QED BY <1>4, <1>5, <1>6 DEF BlockSum, SumOf

-----------------------------------------------------------------------------
(* The reader *)

LEMMA ReaderHead ==
  ASSUME IInv, pc \in {"read", "hash"}, base < Count
  PROVE  /\ file \in Seq(Byte) /\ fileSize \in Nat /\ width \in Nat \ {0}
         /\ base \in Nat /\ filled \in Nat /\ total \in Nat /\ Count \in Nat
         /\ BatchCount \in 1 .. width /\ base + BatchCount <= Count
         /\ filled <= BatchCount
         /\ base * BlockSize \in Nat /\ base * BlockSize < fileSize
         /\ (base + filled) * BlockSize = base * BlockSize + filled * BlockSize
         /\ total <= filled * BlockSize /\ filled * BlockSize \in Nat
         /\ total <= width * BlockSize /\ width * BlockSize \in Nat
         /\ Fed = Through /\ Fed <= Len(file) /\ Fed = base * BlockSize + total
         /\ batchBuf \in Seq(Nat) /\ Len(batchBuf) = width * BlockSize
<1>1. /\ file \in Seq(Byte) /\ fileSize \in Nat /\ width \in Nat \ {0}
      /\ base \in Nat /\ filled \in Nat /\ total \in Nat /\ Count \in Nat
      /\ filled <= BatchCount /\ Fed = Through /\ Fed <= Len(file)
      /\ batchBuf \in [1 .. width * BlockSize -> Nat]
  BY CountBounds DEF IInv, CallInv, ReadInv
<1>2. BatchCount \in 1 .. width /\ base + BatchCount <= Count
  BY <1>1 DEF BatchCount, Least
<1>3. base * BlockSize \in Nat /\ base * BlockSize < fileSize
  BY <1>1, BlockGeometry
<1>4. /\ (base + filled) * BlockSize = base * BlockSize + filled * BlockSize
      /\ filled * BlockSize \in Nat /\ width * BlockSize \in Nat
      /\ (base + filled) * BlockSize \in Nat
  BY <1>1, BlockSizeAssumption
<1>5. Fed = base * BlockSize + total /\ total <= filled * BlockSize
  BY <1>1, <1>3, <1>4 DEF Fed, Through, Least
<1>6. filled * BlockSize <= width * BlockSize
  BY <1>1, <1>2, ScaleMonotone, BlockSizeAssumption
<1>7. batchBuf \in Seq(Nat) /\ Len(batchBuf) = width * BlockSize
  BY <1>1, <1>4
<1> QED BY <1>1, <1>2, <1>3, <1>4, <1>5, <1>6, <1>7

LEMMA ReadBlockStep ==
  ASSUME IInv, ReadBlock, UNCHANGED workVars
  PROVE  IInv'
<1> DEFINE i == base + filled
           want == BlockBytes(i)
           n == Least(want, Most(Len(file) - Fed, 0))
<1>0. /\ pc = "read" /\ base < Count /\ filled < BatchCount
      /\ UNCHANGED << calls, file, fails, fileSize, width, base, sums >>
      /\ UNCHANGED << procs, w, wg, start, end, running >>
  BY DEF ReadBlock, callVars, workVars
<1>1. /\ file \in Seq(Byte) /\ fileSize \in Nat /\ width \in Nat \ {0}
      /\ base \in Nat /\ filled \in Nat /\ total \in Nat /\ Count \in Nat
      /\ BatchCount \in 1 .. width /\ base + BatchCount <= Count
      /\ base * BlockSize \in Nat /\ base * BlockSize < fileSize
      /\ (base + filled) * BlockSize = base * BlockSize + filled * BlockSize
      /\ total <= filled * BlockSize /\ filled * BlockSize \in Nat
      /\ width * BlockSize \in Nat
      /\ Fed = Through /\ Fed <= Len(file) /\ Fed = base * BlockSize + total
      /\ Len(file) \in Nat
  BY <1>0, ReaderHead, LenProperties
<1>2. /\ i \in Nat /\ i < Count
      /\ i * BlockSize \in Nat /\ i * BlockSize < fileSize
      /\ (i + 1) * BlockSize = i * BlockSize + BlockSize
      /\ want \in 1 .. BlockSize
      /\ i * BlockSize + want = Least((i + 1) * BlockSize, fileSize)
  <2>1. i \in Nat /\ i < Count
    BY <1>0, <1>1
  <2> HIDE DEF i
  <2> QED BY <2>1, <1>1, BlockGeometry
<1>3. Fed = i * BlockSize /\ total = filled * BlockSize
  BY <1>1, <1>2, SMTT(30) DEF Through, Least
<1>4. total + want <= width * BlockSize
  <2>1. (filled + 1) * BlockSize <= width * BlockSize
    BY <1>0, <1>1, ScaleMonotone, BlockSizeAssumption
  <2>2. (filled + 1) * BlockSize = filled * BlockSize + BlockSize
    BY <1>1, BlockSizeAssumption
  <2>3. want <= BlockSize /\ want \in Nat /\ BlockSize \in Nat
    BY <1>2, BlockSizeAssumption
  <2> HIDE DEF want
  <2> QED BY <1>1, <1>3, <2>1, <2>2, <2>3
<1>5. PICK r \in FullReads(want) :
        /\ batchBuf' = Stored(r.n)
        /\ IF Failed(r)
           THEN /\ pc' = "returned" /\ outcome' = r.err
                /\ UNCHANGED << total, filled >>
           ELSE /\ total' = total + want /\ filled' = filled + 1
                /\ UNCHANGED << pc, outcome >>
  BY DEF ReadBlock
<1>6. n \in Nat /\ n <= want /\ Fed + n <= Len(file) /\ Fed \in Nat
  <2>1. Fed \in Nat /\ Fed <= Len(file) /\ Len(file) \in Nat
    BY <1>1, <1>2, <1>3
  <2>2. want \in Nat
    BY <1>2
  <2> HIDE DEF want
  <2> QED BY <2>1, <2>2 DEF Least, Most
<1>7. /\ r.n \in 0 .. n
      /\ r.err \in {"nil", "eof", "io"}
      /\ r.err = "nil" => r.n = want
  <2>1. CASE r = [n |-> n, err |-> IF n < want THEN "eof" ELSE "nil"]
    <3> HIDE DEF n, want
    <3> QED BY <2>1, <1>6, <1>2
  <2>2. CASE r \in {[n |-> k, err |-> "io"] : k \in {m \in 0 .. n : fails /\ m < want}}
    <3> HIDE DEF n, want
    <3> QED BY <2>2
  <2> QED BY <1>5, <2>1, <2>2 DEF FullReads
<1>8. ReadInv
  BY DEF IInv
<1>9. /\ batchBuf' \in [1 .. width * BlockSize -> Nat]
      /\ \A j \in 1 .. total + r.n : batchBuf'[j] = file[base * BlockSize + j]
  <2> DEFINE N == r.n
  <2>1. /\ batchBuf \in [1 .. width * BlockSize -> Nat]
        /\ \A j \in 1 .. total : batchBuf[j] = file[base * BlockSize + j]
    BY <1>0, <1>8 DEF ReadInv
  <2>2. N \in Nat /\ total + N <= width * BlockSize /\ Fed + N <= Len(file)
    <3>1. N \in Nat /\ N <= n /\ n <= want /\ want \in Nat /\ n \in Nat
      <4>1. N \in 0 .. n /\ n \in Nat /\ n <= want /\ want \in 1 .. BlockSize
        BY <1>2, <1>6, <1>7
      <4> HIDE DEF N, n, want
      <4> QED BY <4>1, BlockSizeAssumption
    <3>2. total + N <= width * BlockSize
      <4> DEFINE room == width * BlockSize
      <4>1. room \in Nat /\ total \in Nat /\ total + want <= room
        BY <1>1, <1>4
      <4> HIDE DEF room, N, n, want
      <4>2. total + N <= room
        BY <3>1, <4>1
      <4> QED BY <4>2 DEF room
    <3>3. Fed + N <= Len(file)
      <4>1. Fed \in Nat /\ Fed + n <= Len(file) /\ Len(file) \in Nat
        BY <1>1, <1>6
      <4>2. N \in Nat /\ N <= n /\ n \in Nat
        BY <3>1
      <4> HIDE DEF N, n, want
      <4> QED BY <4>1, <4>2
    <3> QED BY <3>1, <3>2, <3>3
  <2>3. batchBuf' = [j \in 1 .. width * BlockSize |->
                       IF j \in total + 1 .. total + N THEN file[Fed + j - total] ELSE batchBuf[j]]
    BY <1>5, <2>1 DEF Stored
  <2> HIDE DEF N, want, n, i
  <2>4. ASSUME NEW j \in total + 1 .. total + N
        PROVE  file[Fed + j - total] \in Nat /\ Fed + j - total = base * BlockSize + j
    <3> DEFINE b == base * BlockSize
    <3>1. b \in Nat /\ total \in Nat /\ Fed = b + total /\ Len(file) \in Nat
      BY <1>1
    <3> HIDE DEF b
    <3>2. Fed + j - total = b + j /\ b + j \in 1 .. Len(file)
      BY <3>1, <2>2
    <3>3. file[b + j] \in Nat
      BY <3>2, <1>1, ElementOfSeq, ByteAssumption
    <3> QED BY <3>2, <3>3 DEF b
  <2>5. batchBuf' \in [1 .. width * BlockSize -> Nat]
    BY <2>1, <2>3, <2>4
  <2>6. ASSUME NEW j \in 1 .. total + N
        PROVE  batchBuf'[j] = file[base * BlockSize + j]
    <3>1. j \in 1 .. width * BlockSize
      BY <1>1, <2>2, SMTT(30)
    <3>2. CASE j <= total
      BY <3>1, <3>2, <2>1, <2>3, <1>1
    <3>3. CASE j > total
      <4>1. j \in total + 1 .. total + N
        BY <3>3, <1>1, <2>2
      <4> QED BY <4>1, <3>1, <2>3, <2>4
    <3> QED BY <3>2, <3>3, <1>1
  <2> QED BY <2>5, <2>6 DEF N
<1>10. /\ Count' = Count /\ BatchCount' = BatchCount /\ Announced' = Announced
  BY <1>0 DEF Count, BatchCount, Announced
<1>11. sums = [k \in 1 .. Count |-> IF k <= base THEN BlockSum(Announced, k - 1) ELSE Blank]
  BY <1>0, <1>8 DEF ReadInv
<1>12. CASE Failed(r)
  <2>1. pc' = "returned" /\ outcome' \in {"eof", "io"}
    BY <1>5, <1>7, <1>12 DEF Failed
  <2>2. PartialTrue'
    BY <1>0, <1>10, <1>11 DEF PartialTrue
  <2> QED BY <2>1, <2>2, <1>0 DEF IInv, CallInv, ReadInv, WorkInv, SignatureExact
<1>13. CASE ~ Failed(r)
  <2>1. total' = total + want /\ filled' = filled + 1 /\ pc' = pc /\ outcome' = outcome
    BY <1>5, <1>13
  <2>2. r.n = want
    BY <1>7, <1>13 DEF Failed
  <2>3. filled' \in Nat /\ filled' <= BatchCount'
    BY <1>0, <1>1, <1>10, <2>1
  <2>4. Through' = i * BlockSize + want
    <3>1. base' + filled' = i + 1
      BY <1>0, <1>1, <2>1
    <3> HIDE DEF i, want
    <3> QED BY <3>1, <1>0, <1>2 DEF Through
  <2>5. Through' <= Len(file') /\ total' \in Nat /\ Fed' = Through'
    <3>1. Fed' = base * BlockSize + total'
      BY <1>0 DEF Fed
    <3>2. Fed + want <= Len(file)
      BY <1>6, <1>7, <2>2, <1>1, <1>2, SMTT(30)
    <3>3. Fed = base * BlockSize + total /\ Fed = i * BlockSize
      BY <1>1, <1>3
    <3>4. want \in Nat /\ total \in Nat /\ base * BlockSize \in Nat
      BY <1>1, <1>2, SMTT(30)
    <3> DEFINE b == base * BlockSize
               x == i * BlockSize
    <3> HIDE DEF i, want, n, b, x
    <3> QED BY <1>0, <2>1, <2>4, <3>1, <3>2, <3>3, <3>4 DEF b, x
  <2>6. \A j \in 1 .. total' : batchBuf'[j] = file'[base' * BlockSize + j]
    BY <1>0, <1>9, <2>1, <2>2
  <2>7. ReadInv'
    <3> HIDE DEF i, want, n
    <3> QED BY <1>0, <1>1, <1>9, <1>10, <1>11, <2>1, <2>3, <2>5, <2>6, SMTT(30) DEF ReadInv
  <2>8. PartialTrue'
    BY <1>0, <1>10, <1>11 DEF PartialTrue
  <2> QED BY <1>0, <2>1, <2>7, <2>8 DEF IInv, CallInv, WorkInv, SignatureExact
<1> QED BY <1>12, <1>13

LEMMA FilledStep ==
  ASSUME IInv, Filled, UNCHANGED workVars
  PROVE  IInv'
<1>1. /\ pc = "read" /\ base < Count /\ filled = BatchCount /\ pc' = "hash"
      /\ UNCHANGED << calls, file, fails, fileSize, width, base, filled, total, batchBuf,
                      sums, outcome, procs, w, wg, start, end, running >>
  BY DEF Filled, callVars, workVars
<1>2. /\ Count' = Count /\ BatchCount' = BatchCount /\ Announced' = Announced
      /\ Through' = Through /\ Fed' = Fed
  BY <1>1 DEF Count, BatchCount, Announced, Through, Fed
<1>3. ReadInv'
  BY <1>1, <1>2 DEF IInv, ReadInv
<1>4. PartialTrue'
  BY <1>1, <1>2 DEF IInv, ReadInv, PartialTrue
<1> QED BY <1>1, <1>3, <1>4 DEF IInv, CallInv, WorkInv, SignatureExact

\* Whichever code hashes it, a block of the batch gets the sum of that block of
\* the announced bytes: the vector code only when it would read no stale byte.
LEMMA BatchSums ==
  ASSUME IInv, pc = "hash", NEW b \in 0 .. BatchCount - 1
  PROVE  /\ ScalarSum(b) = BlockSum(Announced, base + b)
         /\ AllFull => VectorSum(b) = BlockSum(Announced, base + b)
<1> DEFINE i == base + b
           from == base * BlockSize
           lo == b * BlockSize
           size == BlockBytes(i)
<1>0. base < Count /\ filled = BatchCount /\ Through <= Len(file)
  BY DEF IInv, ReadInv
<1>1. /\ file \in Seq(Byte) /\ fileSize \in Nat /\ width \in Nat \ {0}
      /\ base \in Nat /\ filled \in Nat /\ total \in Nat /\ Count \in Nat
      /\ BatchCount \in 1 .. width /\ base + BatchCount <= Count
      /\ from \in Nat /\ from < fileSize
      /\ (base + filled) * BlockSize = from + filled * BlockSize
      /\ total <= width * BlockSize /\ filled * BlockSize \in Nat
      /\ Fed = Through /\ Fed = from + total
      /\ batchBuf \in Seq(Nat) /\ Len(batchBuf) = width * BlockSize
      /\ Len(file) \in Nat
  BY <1>0, ReaderHead, LenProperties
<1>2. i \in Nat /\ i < Count /\ b \in Nat /\ i + 1 <= base + filled
  BY <1>0, <1>1
<1>3. /\ i * BlockSize \in Nat /\ (i + 1) * BlockSize = i * BlockSize + BlockSize
      /\ size \in 1 .. BlockSize
      /\ i * BlockSize + size = Least((i + 1) * BlockSize, fileSize)
  <2> HIDE DEF i
  <2> QED BY <1>1, <1>2, BlockGeometry
<1>4. /\ lo \in Nat /\ (b + 1) * BlockSize = lo + BlockSize /\ i * BlockSize = from + lo
      /\ (i + 1) * BlockSize <= (base + filled) * BlockSize
  <2>1. (i + 1) * BlockSize <= (base + filled) * BlockSize
    <3> HIDE DEF i
    <3> QED BY <1>1, <1>2, ScaleMonotone, BlockSizeAssumption
  <2> QED BY <2>1, <1>1, <1>2, BlockSizeAssumption
<1>5. i * BlockSize + size <= Through /\ lo + size <= total
  <2> DEFINE e == i * BlockSize
             e1 == (i + 1) * BlockSize
             t == (base + filled) * BlockSize
  <2>1. /\ Through = Least(t, fileSize) /\ e1 <= t /\ e + size = Least(e1, fileSize)
        /\ e = from + lo /\ e1 = e + BlockSize /\ e \in Nat /\ t \in Nat
    BY <1>1, <1>3, <1>4, BlockSizeAssumption DEF Through
  <2>2. from \in Nat /\ lo \in Nat /\ Through = from + total
    BY <1>1, <1>4
  <2> HIDE DEF e, e1, t, size, from, lo
  <2>3. e + size <= Through
    BY <2>1, <1>1, <1>3, BlockSizeAssumption, SMTT(30) DEF Least
  <2>4. lo + size <= total
    BY <2>1, <2>2, <2>3, <1>1, <1>3
  <2> QED BY <2>3, <2>4 DEF e
<1>6. Slice(batchBuf, lo, lo + size) = Slice(file, i * BlockSize, i * BlockSize + size)
  <2>1. \A j \in 1 .. total : batchBuf[j] = file[from + j]
    BY <1>0 DEF IInv, ReadInv
  <2> DEFINE hi == lo + size
             e == i * BlockSize
  <2>2. /\ hi \in Nat /\ lo \in Nat /\ lo <= hi /\ hi <= total
        /\ e = from + lo /\ e + size = from + hi /\ from + hi <= Through
    <3>1. lo \in Nat /\ from \in Nat /\ e = from + lo
      BY <1>1, <1>4
    <3>2. size \in Nat /\ e + size <= Through /\ lo + size <= total
      BY <1>3, <1>5
    <3> HIDE DEF e, from, lo, size
    <3> QED BY <3>1, <3>2
  <2> HIDE DEF i, from, lo, size, hi, e
  <2>3. from + hi <= Len(file) /\ hi <= Len(batchBuf)
    <3>1. from \in Nat /\ Len(file) \in Nat /\ total \in Nat /\ Through = from + total
      BY <1>1
    <3>3. Through <= Len(file)
      BY <1>0
    <3>2. total <= Len(batchBuf) /\ Len(batchBuf) \in Nat
      BY <1>1, LenProperties
    <3> QED BY <2>2, <3>1, <3>2, <3>3
  <2>4. \A j \in lo + 1 .. hi : batchBuf[j] = file[from + j]
    BY <2>1, <2>2, <1>1, SMTT(30)
  <2>5. Slice(batchBuf, lo, hi) = Slice(file, from + lo, from + hi)
    <3>1. file \in Seq(Byte) /\ batchBuf \in Seq(Nat) /\ from \in Nat
      BY <1>1
    <3> QED BY <3>1, <2>2, <2>3, <2>4, SlicesAgree
  <2> QED BY <2>2, <2>5 DEF hi, e
<1>7. BlockSum(Announced, i) = SumOf(i, Slice(batchBuf, lo, lo + size), size)
  <2>1. i * BlockSize + size <= Len(file)
    <3> HIDE DEF i, size
    <3> QED BY <1>0, <1>1, <1>3, <1>5, SMTT(30)
  <2> HIDE DEF i
  <2> QED BY <2>1, <1>1, <1>2, <1>6, AnnouncedBlock
<1>8. ScalarSum(b) = BlockSum(Announced, i)
  BY <1>7 DEF ScalarSum
<1>9. ASSUME AllFull
      PROVE  VectorSum(b) = BlockSum(Announced, i)
  <2>1. size = BlockSize
    <3>1. filled = width /\ total = width * BlockSize
      BY <1>0, <1>9 DEF AllFull
    <3>2. Through = (base + filled) * BlockSize
      <4>1. Through = from + width * BlockSize
        BY <3>1, <1>1
      <4>2. (base + filled) * BlockSize = from + width * BlockSize
        BY <3>1, <1>1
      <4> QED BY <4>1, <4>2
    <3>3. (i + 1) * BlockSize <= fileSize
      <4> DEFINE t == (base + filled) * BlockSize
                 e1 == (i + 1) * BlockSize
      <4>1. t \in Nat /\ e1 \in Int /\ e1 <= t /\ t = Least(t, fileSize)
        BY <3>2, <1>1, <1>3, <1>4, BlockSizeAssumption DEF Through
      <4> HIDE DEF t, e1
      <4>2. e1 <= fileSize
        BY <4>1, <1>1 DEF Least
      <4> QED BY <4>2 DEF e1
    <3> HIDE DEF i, size
    <3> QED BY <3>3, <1>1, <1>3, BlockSizeAssumption DEF Least
  <2>2. (b + 1) * BlockSize = lo + size
    BY <2>1, <1>4
  <2> QED BY <2>2, <1>7 DEF VectorSum
<1> QED BY <1>8, <1>9

LEMMA HashBatchStep ==
  ASSUME IInv, HashBatch, UNCHANGED workVars
  PROVE  IInv'
<1>1. /\ pc = "hash" /\ pc' = "read"
      /\ base' = base + BatchCount /\ filled' = 0 /\ total' = 0
      /\ UNCHANGED << calls, file, fails, fileSize, width, batchBuf,
                      outcome, procs, w, wg, start, end, running >>
      /\ sums' = [k \in DOMAIN sums |->
                    IF k - 1 \notin base .. base + BatchCount - 1 THEN sums[k]
                    ELSE IF AllFull THEN VectorSum(k - 1 - base) ELSE ScalarSum(k - 1 - base)]
  BY DEF HashBatch, callVars, workVars
<1>2. /\ base < Count /\ filled = BatchCount /\ Through <= Len(file)
      /\ sums = [k \in 1 .. Count |-> IF k <= base THEN BlockSum(Announced, k - 1) ELSE Blank]
      /\ batchBuf \in [1 .. width * BlockSize -> Nat]
  BY <1>1 DEF IInv, ReadInv
<1>3. /\ file \in Seq(Byte) /\ fileSize \in Nat /\ width \in Nat \ {0}
      /\ base \in Nat /\ Count \in Nat
      /\ BatchCount \in 1 .. width /\ base + BatchCount <= Count
  BY <1>1, <1>2, ReaderHead
<1>4. Count' = Count /\ Announced' = Announced
  BY <1>1 DEF Count, Announced
<1>5. sums' = [k \in 1 .. Count |->
                 IF k <= base + BatchCount THEN BlockSum(Announced, k - 1) ELSE Blank]
  <2> DEFINE new(k) == IF k - 1 \notin base .. base + BatchCount - 1 THEN sums[k]
                       ELSE IF AllFull THEN VectorSum(k - 1 - base) ELSE ScalarSum(k - 1 - base)
             want(k) == IF k <= base + BatchCount THEN BlockSum(Announced, k - 1) ELSE Blank
  <2>1. ASSUME NEW k \in 1 .. Count
        PROVE  new(k) = want(k)
    <3>1. CASE k - 1 \in base .. base + BatchCount - 1
      <4> DEFINE b == k - 1 - base
      <4>1. b \in 0 .. BatchCount - 1 /\ base + b = k - 1 /\ k <= base + BatchCount
        BY <3>1, <1>3
      <4>2. new(k) = IF AllFull THEN VectorSum(b) ELSE ScalarSum(b)
        BY <3>1
      <4>3. want(k) = BlockSum(Announced, k - 1)
        BY <4>1
      <4> HIDE DEF b, new, want
      <4> QED BY <4>1, <4>2, <4>3, <1>1, BatchSums
    <3>2. CASE k - 1 \notin base .. base + BatchCount - 1
      <4>1. new(k) = sums[k] /\ sums[k] = IF k <= base THEN BlockSum(Announced, k - 1) ELSE Blank
        BY <3>2, <1>2
      <4>2. k <= base <=> k <= base + BatchCount
        BY <3>2, <1>3
      <4> HIDE DEF new
      <4> QED BY <4>1, <4>2
    <3> QED BY <3>1, <3>2
  <2>2. DOMAIN sums = 1 .. Count
    BY <1>2
  <2>3. sums' = [k \in 1 .. Count |-> new(k)]
    BY <1>1, <2>2
  <2> HIDE DEF new, want
  <2>4. sums' = [k \in 1 .. Count |-> want(k)]
    BY <2>1, <2>3
  <2> QED BY <2>4 DEF want
<1>6. Through' = Through
  BY <1>1, <1>2, <1>3 DEF Through
<1>7. /\ base' \in Nat /\ base' <= Count /\ filled' \in Nat /\ filled' <= BatchCount'
  <2>1. base' \in Nat /\ base' <= Count
    BY <1>1, <1>3
  <2> QED BY <2>1, <1>1, <1>3, <1>4 DEF BatchCount, Least
<1>8. base' < Count => Fed' = Through'
  <2> SUFFICES ASSUME base' < Count
               PROVE  Fed' = Through'
    OBVIOUS
  <2>1. base' \in Nat
    BY <1>7
  <2>2. base' * BlockSize \in Nat /\ base' * BlockSize < fileSize
    BY <2>1, <1>3, BlockGeometry
  <2>3. Through' = base' * BlockSize /\ Fed' = base' * BlockSize
    BY <2>1, <2>2, <1>1, <1>3 DEF Through, Fed, Least
  <2> QED BY <2>3
<1>9. ReadInv'
  BY <1>1, <1>2, <1>4, <1>5, <1>6, <1>7, <1>8 DEF ReadInv
<1>10. PartialTrue'
  BY <1>1, <1>4, <1>5 DEF PartialTrue
<1> QED BY <1>1, <1>9, <1>10 DEF IInv, CallInv, WorkInv, SignatureExact

LEMMA AllHashedStep ==
  ASSUME IInv, AllHashed, UNCHANGED workVars
  PROVE  IInv'
<1>1. /\ pc = "read" /\ base >= Count /\ pc' = "returned" /\ outcome' = "nil"
      /\ UNCHANGED << calls, file, fails, fileSize, width, base, filled, total, batchBuf,
                      sums, procs, w, wg, start, end, running >>
  BY DEF AllHashed, callVars, workVars
<1>2. /\ file \in Seq(Byte) /\ fileSize \in Nat /\ Count \in Nat /\ Len(file) \in Nat
      /\ base \in Nat /\ base <= Count /\ filled \in Nat /\ filled <= BatchCount
      /\ Through <= Len(file)
      /\ sums = [k \in 1 .. Count |-> IF k <= base THEN BlockSum(Announced, k - 1) ELSE Blank]
  BY <1>1, CountBounds, LenProperties DEF IInv, CallInv, ReadInv
<1>3. base = Count /\ filled = 0
  BY <1>1, <1>2 DEF IInv, CallInv, BatchCount, Least
<1>4. Len(file) >= fileSize
  <2>1. fileSize <= base * BlockSize /\ base * BlockSize \in Nat
    BY <1>2, <1>3, CountBounds, BlockSizeAssumption
  <2>2. Through = Least(base * BlockSize, fileSize)
    BY <1>2, <1>3 DEF Through
  <2> QED BY <2>1, <2>2, <1>2 DEF Least
<1>5. Len(Announced) = fileSize
  <2>1. Announced = Slice(file, 0, fileSize)
    BY <1>2, <1>4 DEF Announced, Least
  <2>2. Len(Slice(file, 0, fileSize)) = fileSize - 0
    <3>1. file \in Seq(Byte) /\ 0 \in Nat /\ 0 <= fileSize /\ fileSize <= Len(file)
      BY <1>2, <1>4
    <3> QED BY <3>1, <1>2, SliceType, ZenonT(60)
  <2> QED BY <2>1, <2>2, <1>2
<1>6. sums = Signature(Announced)
  <2>1. NumBlocks(Announced) = Count
    BY <1>5 DEF NumBlocks, Count
  <2>2. sums = [k \in 1 .. Count |-> BlockSum(Announced, k - 1)]
    BY <1>2, <1>3
  <2> QED BY <2>1, <2>2 DEF Signature
<1>7. SignatureExact'
  <2>1. Announced' = Announced
    BY <1>1 DEF Announced
  <2>2. sums' = Signature(Announced')
    BY <2>1, <1>1, <1>6
  <2> QED BY <2>2, <1>1, <1>4 DEF SignatureExact
<1>8. PartialTrue'
  BY <1>1 DEF PartialTrue
<1> QED BY <1>1, <1>7, <1>8 DEF IInv, CallInv, ReadInv, WorkInv

-----------------------------------------------------------------------------
(* The calls *)

LEMMA InitIInv == Init => IInv
<1> SUFFICES ASSUME Init PROVE IInv
  OBVIOUS
<1>1. /\ pc = "idle" /\ file = << >> /\ fileSize = 0 /\ width = 1 /\ procs = 1
      /\ running = {} /\ outcome = "none"
  BY DEF Init, ReaderInit
<1> QED BY <1>1, EmptySeq DEF IInv, CallInv, ReadInv, WorkInv, PartialTrue, SignatureExact

LEMMA ReaderCallStep ==
  ASSUME IInv, AtRest, UNCHANGED workVars,
         NEW f \in Files, NEW size \in Nat, NEW b \in Widths, NEW mayFail,
         GenerateSignatureReader(f, mayFail, size, b)
  PROVE  IInv'
<1>1. /\ pc' = "read" /\ outcome' = "none" /\ file' = f /\ fileSize' = size /\ width' = b
      /\ base' = 0 /\ filled' = 0 /\ total' = 0
      /\ batchBuf' = [i \in 1 .. b * BlockSize |-> 0]
      /\ sums' = [k \in 1 .. (size + BlockSize - 1) \div BlockSize |-> Blank]
      /\ UNCHANGED << procs, running >>
  BY DEF GenerateSignatureReader, workVars
<1>2. f \in Seq(Byte) /\ b \in Nat \ {0} /\ Len(f) \in Nat
  BY SignatureAssumption, LenProperties
<1>3. Count' = (size + BlockSize - 1) \div BlockSize /\ Count' \in Nat
  BY <1>1, RoundedDivision, BlockSizeAssumption DEF Count
<1>4. BatchCount' \in Nat
  BY <1>1, <1>2, <1>3 DEF BatchCount, Least
<1>5. Through' = 0 /\ Fed' = 0
  BY <1>1, BlockSizeAssumption DEF Through, Fed, Least
<1>6. batchBuf' \in [1 .. width' * BlockSize -> Nat]
  BY <1>1
<1>7. sums' = [k \in 1 .. Count' |-> IF k <= base' THEN BlockSum(Announced, k - 1)' ELSE Blank]
  BY <1>1, <1>3
<1>8. ReadInv'
  BY <1>1, <1>2, <1>3, <1>4, <1>5, <1>6, <1>7 DEF ReadInv
<1>9. PartialTrue'
  BY <1>1, <1>3, <1>7 DEF PartialTrue
<1>10. CallInv'
  BY <1>1, <1>2 DEF IInv, CallInv, AtRest
<1> QED BY <1>1, <1>8, <1>9, <1>10 DEF IInv, WorkInv, SignatureExact

LEMMA NoSignatureStep ==
  ASSUME IInv, AtRest, UNCHANGED workVars,
         NEW f \in Files, NEW size \in Nat, NEW err \in {"unknown", "neither"},
         NoSignature(f, size, err)
  PROVE  IInv'
<1>1. /\ pc' = "returned" /\ outcome' = err /\ file' = f /\ fileSize' = size
      /\ UNCHANGED << width, procs, running >>
  BY DEF NoSignature, workVars
<1>2. f \in Seq(Byte)
  BY SignatureAssumption
<1> QED BY <1>1, <1>2
        DEF IInv, CallInv, AtRest, ReadInv, WorkInv, PartialTrue, SignatureExact

LEMMA CallReaderStep ==
  ASSUME IInv, NEW f \in Files, NEW algo, NEW b \in Widths, NEW size \in FileSizes(f),
         CallReader(f, size, algo, b)
  PROVE  IInv'
<1>1. AtRest /\ UNCHANGED workVars /\ size \in Nat
  BY SignatureAssumption DEF CallReader
<1>2. CASE algo \in Known
  BY <1>1, <1>2, ReaderCallStep DEF CallReader
<1>3. CASE algo \notin Known
  BY <1>1, <1>3, NoSignatureStep DEF CallReader
<1> QED BY <1>2, <1>3

LEMMA ParallelCallStep ==
  ASSUME IInv, NEW f \in Files, NEW algo, NEW p \in Procs, NEW b \in Widths,
         GenerateSignatureParallel(f, algo, p, b)
  PROVE  IInv'
<1>1. AtRest /\ f \in Seq(Byte) /\ Len(f) \in Nat /\ NumBlocks(f) \in Nat
  BY SignatureAssumption, LenProperties, RoundedDivision, BlockSizeAssumption
     DEF GenerateSignatureParallel, NumBlocks
<1>2. CASE algo \notin Known
  <2> DEFINE err == IF NumBlocks(f) <= 1 THEN "neither" ELSE "unknown"
  <2>1. NoSignature(f, Len(f), err) /\ UNCHANGED workVars
    BY <1>2 DEF GenerateSignatureParallel
  <2>2. err \in {"unknown", "neither"}
    OBVIOUS
  <2> HIDE DEF err
  <2> QED BY <2>1, <2>2, <1>1, NoSignatureStep
<1>3. CASE algo \in Known /\ NumBlocks(f) <= 1
  <2>1. GenerateSignature(f, b) /\ UNCHANGED workVars
    BY <1>3 DEF GenerateSignatureParallel
  <2> QED BY <2>1, <1>1, ReaderCallStep DEF GenerateSignature
<1>4. CASE algo \in Known /\ ~ NumBlocks(f) <= 1
  <2>1. /\ file' = f /\ fileSize' = Len(f) /\ procs' = p /\ width' = b
        /\ sums' = [k \in 1 .. NumBlocks(f) |-> Blank] /\ outcome' = "none"
        /\ w' = 0 /\ wg' = Least(p, NumBlocks(f))
        /\ start' = [v \in 0 .. wg' - 1 |-> 0] /\ end' = start'
        /\ pc' = "launch" /\ running' = running
    BY <1>4 DEF GenerateSignatureParallel
  <2>2. Count' = NumBlocks(f) /\ NumBlocks(f) \in Nat \ {0}
    BY <2>1, <1>1, <1>4 DEF Count, NumBlocks
  <2>3. NumWorkers' = wg' /\ wg' \in Nat \ {0} /\ p \in Nat \ {0} /\ b \in Nat \ {0}
    BY <2>1, <2>2, ParallelAssumption, SignatureAssumption DEF NumWorkers, Least
  <2>4. running' = {} /\ Cardinality(running') = 0
    BY <2>1, <1>1, FS_EmptySet DEF AtRest, IInv, CallInv
  <2>5. CallInv'
    BY <2>1, <2>3, <1>1 DEF CallInv
  <2>6. RangeInv'
    BY <2>1, <2>2, <2>3, <2>4 DEF RangeInv
  <2>7. HashedInv'
    BY <2>1, <2>2 DEF HashedInv
  <2> QED BY <2>1, <2>5, <2>6, <2>7
          DEF IInv, ReadInv, WorkInv, PartialTrue, SignatureExact
<1> QED BY <1>2, <1>3, <1>4

-----------------------------------------------------------------------------
(* The goroutines *)

\* The ranges of the goroutines are apart and together are all the blocks.
LEMMA Ranges ==
  ASSUME Count \in Nat \ {0}, procs \in Nat \ {0}
  PROVE  /\ NumWorkers \in 1 .. Count
         /\ \A v \in Nat : /\ StartBlock(v) \in Nat
                           /\ EndBlock(v) \in Nat /\ EndBlock(v) <= Count
         /\ \A u, v \in Nat : u < v => EndBlock(u) <= StartBlock(v)
         /\ \A idx \in 0 .. Count - 1 : \E v \in 0 .. NumWorkers - 1 :
              idx \in StartBlock(v) .. EndBlock(v) - 1
<1> DEFINE n == NumWorkers
           c == BlocksPerWorker
<1>1. n \in 1 .. Count
  BY DEF NumWorkers, Least
<1>2. c \in Nat \ {0} /\ Count <= c * n
  <2> DEFINE k == Count
  <2>1. k \in Nat \ {0} /\ n \in Nat \ {0} /\ c = (k + n - 1) \div n
    BY <1>1 DEF BlocksPerWorker
  <2> HIDE DEF k, n, c
  <2>2. c \in Nat /\ k <= c * n
    BY <2>1, RoundedDivision
  <2>3. c # 0
    BY <2>1, <2>2
  <2> QED BY <2>2, <2>3 DEF k
<1>3. ASSUME NEW v \in Nat
      PROVE  /\ StartBlock(v) = v * c /\ v * c \in Nat
             /\ EndBlock(v) = Least(v * c + c, Count)
  BY <1>2 DEF StartBlock, EndBlock
<1>4. ASSUME NEW v \in Nat
      PROVE  StartBlock(v) \in Nat /\ EndBlock(v) \in Nat /\ EndBlock(v) <= Count
  <2> HIDE DEF c
  <2> QED BY <1>2, <1>3 DEF Least
<1>5. ASSUME NEW u \in Nat, NEW v \in Nat, u < v
      PROVE  EndBlock(u) <= StartBlock(v)
  <2> HIDE DEF c
  <2>1. (u + 1) * c <= v * c /\ (u + 1) * c = u * c + c
    BY <1>2, <1>5, ScaleMonotone
  <2>2. /\ EndBlock(u) = Least(u * c + c, Count) /\ StartBlock(v) = v * c
        /\ u * c \in Nat /\ v * c \in Nat
    BY <1>3
  <2> QED BY <2>1, <2>2, <1>2 DEF Least
<1>6. ASSUME NEW idx \in 0 .. Count - 1
      PROVE  \E v \in 0 .. n - 1 : idx \in StartBlock(v) .. EndBlock(v) - 1
  <2> DEFINE v == idx \div c
  <2> HIDE DEF c
  <2>1. v \in Nat /\ v * c <= idx /\ idx < v * c + c
    BY <1>2
  <2>2. v < n
    <3> SUFFICES ASSUME n <= v PROVE FALSE
      BY <1>1, <2>1
    <3>1. n * c <= v * c
      <4> HIDE DEF n, v
      <4> QED BY <2>1, <1>1, <1>2, ScaleMonotone
    <3>2. n * c = c * n
      <4> HIDE DEF n
      <4> QED BY <1>1, <1>2
    <3> HIDE DEF n, v
    <3> QED BY <3>1, <3>2, <2>1, <1>1, <1>2
  <2>3. idx \in StartBlock(v) .. EndBlock(v) - 1
    <3>1. StartBlock(v) = v * c /\ EndBlock(v) = Least(v * c + c, Count) /\ v * c \in Nat
      BY <2>1, <1>3
    <3> HIDE DEF v
    <3> QED BY <3>1, <2>1, <1>2 DEF Least
  <2> HIDE DEF v
  <2> QED BY <2>1, <2>2, <2>3, <1>1
<1> HIDE DEF n, c
<1> QED BY <1>1, <1>4, <1>5, <1>6 DEF n

\* Who is launched and running: the facts the steps of the goroutines need.
LEMMA WorkHead ==
  ASSUME IInv, pc \in {"launch", "wait"}
  PROVE  /\ file \in Seq(Byte) /\ fileSize = Len(file) /\ Len(file) \in Nat
         /\ Count \in Nat \ {0} /\ NumBlocks(file) = Count
         /\ width \in Nat \ {0} /\ procs \in Nat \ {0}
         /\ NumWorkers \in 1 .. Count /\ w \in 0 .. NumWorkers
         /\ running \subseteq 0 .. w - 1 /\ IsFiniteSet(running)
         /\ wg = Cardinality(running) + NumWorkers - w
         /\ start \in [0 .. NumWorkers - 1 -> Nat] /\ end \in [0 .. NumWorkers - 1 -> Nat]
         /\ RangeInv /\ HashedInv
<1>1. CallInv /\ RangeInv /\ HashedInv
  BY DEF IInv, WorkInv
<1>2. NumWorkers \in 1 .. Count
  BY <1>1, Ranges DEF CallInv, RangeInv
<1>3. NumBlocks(file) = Count
  BY <1>1 DEF RangeInv, Count, NumBlocks
<1>4. IsFiniteSet(running)
  <2>1. IsFiniteSet(0 .. w - 1)
    BY <1>1, <1>2, FS_Interval DEF RangeInv
  <2> QED BY <2>1, <1>1, FS_Subset DEF RangeInv
<1> QED BY <1>1, <1>2, <1>3, <1>4, LenProperties DEF CallInv, RangeInv

\* What holds of the calls and of the reader while goroutines work.
LEMMA WorkFrame ==
  ASSUME IInv, pc \in {"launch", "wait"}, pc' \in {"launch", "wait"},
         UNCHANGED << callVars, procs >>, outcome' = outcome,
         RangeInv', HashedInv', pc' = "wait" => w' = NumWorkers'
  PROVE  IInv'
<1>1. UNCHANGED << file, fileSize, width, procs >> /\ outcome' = "none"
  BY DEF callVars, IInv, WorkInv
<1> QED BY <1>1 DEF IInv, CallInv, ReadInv, WorkInv, PartialTrue, SignatureExact

LEMMA LaunchStep ==
  ASSUME IInv, Launch
  PROVE  IInv'
<1>1. /\ pc = "launch" /\ w < NumWorkers /\ pc' = "launch" /\ w' = w + 1
      /\ wg' = CountAfterLaunch(w)
      /\ start' = [start EXCEPT ![w] = StartBlock(w)]
      /\ end' = [end EXCEPT ![w] = EndBlock(w)]
      /\ running' = IF StartBlock(w) < EndBlock(w) THEN running \cup {w} ELSE running
      /\ UNCHANGED << callVars, procs >> /\ UNCHANGED << file, fileSize, sums, outcome >>
  BY DEF Launch, callVars
<1>2. /\ file \in Seq(Byte) /\ fileSize = Len(file) /\ procs \in Nat \ {0}
      /\ Count \in Nat \ {0} /\ NumWorkers \in 1 .. Count /\ w \in 0 .. NumWorkers - 1
      /\ running \subseteq 0 .. w - 1 /\ IsFiniteSet(running)
      /\ wg = Cardinality(running) + NumWorkers - w
      /\ start \in [0 .. NumWorkers - 1 -> Nat] /\ end \in [0 .. NumWorkers - 1 -> Nat]
      /\ RangeInv /\ HashedInv
  BY <1>1, WorkHead
<1>3. /\ Count' = Count /\ NumWorkers' = NumWorkers
      /\ \A v : StartBlock(v)' = StartBlock(v) /\ EndBlock(v)' = EndBlock(v)
  BY <1>1 DEF Count, NumWorkers, StartBlock, EndBlock, BlocksPerWorker
<1>4. StartBlock(w) \in Nat /\ EndBlock(w) \in Nat
  <2>1. w \in Nat
    BY <1>2
  <2> QED BY <2>1, <1>2, Ranges
<1>5. wg' = Cardinality(running') + NumWorkers' - w'
  <2>1. Cardinality(running) \in Nat
    BY <1>2, FS_CardinalityType
  <2>2. CASE StartBlock(w) < EndBlock(w)
    <3>1. Cardinality(running') = Cardinality(running) + 1
      <4>1. running' = running \cup {w} /\ w \notin running
        BY <1>1, <1>2, <2>2
      <4> QED BY <4>1, <1>2, FS_AddElement
    <3> QED BY <3>1, <2>1, <2>2, <1>1, <1>2, <1>3, <1>4, SMTT(30) DEF CountAfterLaunch
  <2>3. CASE ~ StartBlock(w) < EndBlock(w)
    <3>1. running' = running /\ wg' = wg - 1
      BY <1>1, <1>4, <2>3 DEF CountAfterLaunch
    <3> QED BY <3>1, <2>1, <1>1, <1>2, <1>3
  <2> QED BY <2>2, <2>3
<1>6. ASSUME NEW v \in 0 .. w' - 1
      PROVE  /\ end'[v] = EndBlock(v) /\ StartBlock(v) <= start'[v]
             /\ v \notin running' => start'[v] >= end'[v]
             /\ v = w => start'[v] = StartBlock(v)
             /\ v # w => start'[v] = start[v] /\ v \in 0 .. w - 1
  <2>1. CASE v = w
    BY <2>1, <1>1, <1>2, <1>4
  <2>2. CASE v # w
    BY <2>2, <1>1, <1>2 DEF RangeInv
  <2> QED BY <2>1, <2>2
<1>7. RangeInv'
  <2>1. start' \in [0 .. NumWorkers - 1 -> Nat] /\ end' \in [0 .. NumWorkers - 1 -> Nat]
    BY <1>1, <1>2, <1>4
  <2>2. running' \subseteq 0 .. w' - 1 /\ w' \in 0 .. NumWorkers
    BY <1>1, <1>2
  <2> QED BY <2>1, <2>2, <1>1, <1>2, <1>3, <1>5, <1>6 DEF RangeInv
<1>8. HashedInv'
  <2>1. ASSUME NEW v \in 0 .. w' - 1, NEW idx \in StartBlock(v) .. EndBlock(v) - 1,
               idx < start'[v]
        PROVE  sums'[idx + 1] = BlockSum(file, idx)
    <3>1. CASE v = w
      <4>1. idx >= start'[v]
        BY <3>1, <1>4, <1>6
      <4>2. start'[v] \in Nat /\ idx \in Nat
        BY <3>1, <1>4, <1>6
      <4> QED BY <4>1, <4>2, <2>1
    <3>2. CASE v # w
      <4>1. v \in 0 .. w - 1 /\ start'[v] = start[v]
        BY <3>2, <1>6
      <4> QED BY <4>1, <2>1, <1>1, <1>2 DEF HashedInv
    <3> QED BY <3>1, <3>2
  <2>2. sums' = [k \in 1 .. Count' |-> sums'[k]]
    BY <1>1, <1>2, <1>3 DEF HashedInv
  <2> QED BY <2>1, <2>2, <1>1, <1>3 DEF HashedInv
<1> QED BY <1>1, <1>7, <1>8, WorkFrame

LEMMA WaitStep ==
  ASSUME IInv, Wait
  PROVE  IInv'
<1>1. /\ pc = "launch" /\ pc' = "wait" /\ w = NumWorkers
      /\ UNCHANGED << callVars, procs, outcome >>
      /\ UNCHANGED << file, fileSize, sums, w, wg, start, end, running >>
  BY DEF Wait, callVars, workVars
<1>2. RangeInv /\ HashedInv
  BY <1>1, WorkHead
<1>3. /\ Count' = Count /\ NumWorkers' = NumWorkers
      /\ \A v : StartBlock(v)' = StartBlock(v) /\ EndBlock(v)' = EndBlock(v)
  BY <1>1 DEF Count, NumWorkers, StartBlock, EndBlock, BlocksPerWorker
<1>4. RangeInv' /\ HashedInv'
  BY <1>1, <1>2, <1>3 DEF RangeInv, HashedInv
<1> QED BY <1>1, <1>3, <1>4, WorkFrame

LEMMA DoneStep ==
  ASSUME IInv, NEW v \in running, Done(v)
  PROVE  IInv'
<1>0. running # {} /\ pc \in {"launch", "wait"}
  BY DEF IInv, CallInv
<1>1. /\ pc \in {"launch", "wait"} /\ pc' = pc /\ start[v] >= end[v]
      /\ wg' = wg - 1 /\ running' = running \ {v}
      /\ UNCHANGED << callVars, procs, outcome >>
      /\ UNCHANGED << file, fileSize, sums, w, start, end >>
  BY <1>0 DEF Done, readerVars, callVars
<1>2. /\ RangeInv /\ HashedInv /\ IsFiniteSet(running)
      /\ wg = Cardinality(running) + NumWorkers - w
      /\ NumWorkers \in Nat /\ w \in Nat
  BY <1>1, WorkHead
<1>3. /\ Count' = Count /\ NumWorkers' = NumWorkers
      /\ \A u : StartBlock(u)' = StartBlock(u) /\ EndBlock(u)' = EndBlock(u)
  BY <1>1 DEF Count, NumWorkers, StartBlock, EndBlock, BlocksPerWorker
<1>4. wg' = Cardinality(running') + NumWorkers' - w'
  <2>1. Cardinality(running') = Cardinality(running) - 1 /\ Cardinality(running) \in Nat
    BY <1>1, <1>2, FS_RemoveElement, FS_CardinalityType
  <2> QED BY <2>1, <1>1, <1>2, <1>3
<1>5. RangeInv'
  <2>1. \A u \in 0 .. w - 1 : u \notin running' => start[u] >= end[u]
    BY <1>1, <1>2 DEF RangeInv
  <2> QED BY <2>1, <1>1, <1>2, <1>3, <1>4 DEF RangeInv
<1>6. HashedInv'
  BY <1>1, <1>2, <1>3 DEF HashedInv
<1>7. pc' = "wait" => w' = NumWorkers'
  BY <1>1, <1>3 DEF IInv, WorkInv
<1> QED BY <1>1, <1>5, <1>6, <1>7, WorkFrame

\* Whichever code hashes it, a block of a goroutine's batch gets its sum.
LEMMA RangeSums ==
  ASSUME IInv, NEW v \in running, start[v] < end[v], NEW idx \in Batch(v)
  PROVE  /\ idx \in 0 .. Count - 1
         /\ ScalarBlock(idx) = BlockSum(file, idx)
         /\ BatchFull(v) => VectorBlock(v, idx) = BlockSum(file, idx)
<1> DEFINE s == start[v]
           e == Least(s + width, end[v])
           from == idx * BlockSize
           size == BlockBytes(idx)
<1>1. /\ file \in Seq(Byte) /\ fileSize = Len(file) /\ Len(file) \in Nat
      /\ width \in Nat \ {0} /\ Count \in Nat /\ NumBlocks(file) = Count
      /\ s \in Nat /\ end[v] \in Nat /\ end[v] <= Count /\ s < end[v]
  <2>1. running # {} /\ pc \in {"launch", "wait"}
    BY DEF IInv, CallInv
  <2>2. /\ file \in Seq(Byte) /\ fileSize = Len(file) /\ Len(file) \in Nat
        /\ width \in Nat \ {0} /\ procs \in Nat \ {0}
        /\ Count \in Nat \ {0} /\ NumBlocks(file) = Count
        /\ w \in 0 .. NumWorkers /\ NumWorkers \in 1 .. Count
        /\ v \in 0 .. w - 1 /\ RangeInv
        /\ start \in [0 .. NumWorkers - 1 -> Nat] /\ end \in [0 .. NumWorkers - 1 -> Nat]
    BY <2>1, WorkHead
  <2>3. v \in 0 .. NumWorkers - 1 /\ v \in Nat /\ end[v] = EndBlock(v)
    BY <2>2 DEF RangeInv
  <2> QED BY <2>2, <2>3, Ranges
<1>2. /\ e \in Nat /\ s < e /\ e <= Count /\ e <= s + width
      /\ idx \in Nat /\ s <= idx /\ idx < e /\ Cardinality(Batch(v)) = e - s
  <2>1. e \in Nat /\ s < e /\ e <= Count /\ e <= s + width
    <3> HIDE DEF s
    <3> QED BY <1>1 DEF Least
  <2>2. Batch(v) = s .. e - 1
    BY DEF Batch
  <2> HIDE DEF s, e
  <2>3. Cardinality(s .. e - 1) = (e - 1) - s + 1
    <3>1. s \in Int /\ e - 1 \in Int /\ ~ (s > e - 1)
      BY <2>1, <1>1
    <3> QED BY <3>1, FS_Interval
  <2> QED BY <2>1, <2>2, <2>3, <1>1
<1>3. /\ from \in Nat /\ from < Len(file) /\ (idx + 1) * BlockSize = from + BlockSize
      /\ size \in 1 .. BlockSize /\ from + size = Least(from + BlockSize, Len(file))
  <2>1. idx < Count /\ fileSize \in Nat
    BY <1>1, <1>2
  <2> QED BY <2>1, <1>1, <1>2, BlockGeometry
<1>4. BlockSum(file, idx) = SumOf(idx, Slice(file, from, from + size), size)
  <2>1. BlockEnd(file, idx) = from + size
    BY <1>3 DEF BlockEnd
  <2>2. BlockEnd(file, idx) - from = size
    <3> HIDE DEF from, size
    <3> QED BY <2>1, <1>3
  <2> QED BY <2>1, <2>2 DEF BlockSum, Block, SumOf
<1>5. ScalarBlock(idx) = BlockSum(file, idx)
  BY <1>4 DEF ScalarBlock
<1>6. ASSUME BatchFull(v)
      PROVE  VectorBlock(v, idx) = BlockSum(file, idx)
  <2> DEFINE sb == s * BlockSize
             eb == e * BlockSize
             hi == Least(eb, Len(file))
             lo == (idx - s) * BlockSize
             up == (idx - s + 1) * BlockSize
  <2>1. /\ sb \in Nat /\ eb \in Nat /\ lo \in Nat /\ up = lo + BlockSize
        /\ from = sb + lo /\ eb = sb + width * BlockSize /\ e = s + width
        /\ up <= width * BlockSize /\ width * BlockSize \in Nat
    <3>1. e = s + width
      BY <1>1, <1>2, <1>6 DEF BatchFull
    <3>2. up <= width * BlockSize
      <4>1. idx - s + 1 \in Nat /\ idx - s + 1 <= width
        BY <3>1, <1>1, <1>2, SMTT(30)
      <4> QED BY <4>1, <1>1, ScaleMonotone, BlockSizeAssumption
    <3>3. /\ sb \in Nat /\ eb \in Nat /\ eb = sb + width * BlockSize
          /\ width * BlockSize \in Nat
      <4> HIDE DEF s, e
      <4> QED BY <3>1, <1>1, <1>2, BlockSizeAssumption, SMTT(30)
    <3>4. lo \in Nat /\ up = lo + BlockSize /\ from = sb + lo
      <4> DEFINE d == idx - s
      <4>1. d \in Nat /\ idx = s + d /\ s \in Nat
        BY <1>1, <1>2
      <4> HIDE DEF s, d
      <4>2. /\ d * BlockSize \in Nat /\ (d + 1) * BlockSize = d * BlockSize + BlockSize
            /\ idx * BlockSize = s * BlockSize + d * BlockSize
        BY <4>1, BlockSizeAssumption
      <4> QED BY <4>2 DEF d
    <3> QED BY <3>1, <3>2, <3>3, <3>4
  <2>2. BatchBytes(v) = Slice(file, sb, hi)
    <3>1. start[v] + Cardinality(Batch(v)) = e
      BY <1>1, <1>2
    <3> QED BY <3>1 DEF BatchBytes
  <2>3. hi \in Nat /\ hi <= Len(file) /\ sb <= hi
    <3>1. sb <= from /\ from < Len(file) /\ sb <= eb
      BY <2>1, <1>3
    <3> HIDE DEF sb, eb, from
    <3> QED BY <3>1, <2>1, <1>1, <1>3 DEF Least
  <2>4. hi - sb >= width * BlockSize
    <3>1. Len(BatchBytes(v)) >= width * BlockSize
      BY <1>6 DEF BatchFull
    <3> HIDE DEF sb, hi
    <3>2. Len(Slice(file, sb, hi)) = hi - sb
      <4>1. file \in Seq(Byte) /\ sb \in Nat /\ hi \in Nat /\ sb <= hi /\ hi <= Len(file)
        BY <2>1, <2>3, <1>1
      <4> QED BY <4>1, SliceType, ZenonT(60)
    <3> QED BY <3>1, <3>2, <2>2
  <2>5. size = BlockSize /\ up <= hi - sb
    <3> DEFINE wb == width * BlockSize
    <3>1. /\ wb \in Nat /\ up <= wb /\ hi - sb >= wb /\ hi <= Len(file)
          /\ up = lo + BlockSize /\ from = sb + lo /\ lo \in Nat /\ sb \in Nat /\ hi \in Nat
      BY <2>1, <2>3, <2>4
    <3> HIDE DEF sb, hi, up, lo, wb, from, size
    <3> QED BY <3>1, <1>1, <1>3, BlockSizeAssumption DEF Least
  <2>6. Slice(BatchBytes(v), lo, up) = Slice(file, from, from + size)
    <3> HIDE DEF sb, hi, lo, up, from, size
    <3>1. Slice(Slice(file, sb, hi), lo, up) = Slice(file, sb + lo, sb + up)
      <4>1. lo <= up /\ up \in Nat
        BY <2>1, BlockSizeAssumption
      <4> QED BY <4>1, <2>1, <2>3, <2>5, <1>1, SliceSlice, SMTT(30)
    <3>2. sb + lo = from /\ sb + up = from + size
      BY <2>1, <2>5, BlockSizeAssumption
    <3> QED BY <3>1, <3>2, <2>2
  <2> QED BY <2>6, <1>4 DEF VectorBlock
<1>7. idx \in 0 .. Count - 1
  BY <1>1, <1>2
<1> QED BY <1>5, <1>6, <1>7

LEMMA HashRangeStep ==
  ASSUME IInv, NEW v \in running, HashRange(v)
  PROVE  IInv'
<1>0. running # {} /\ pc \in {"launch", "wait"}
  BY DEF IInv, CallInv
<1>1. /\ pc' = pc /\ start[v] < end[v]
      /\ start' = [start EXCEPT ![v] = @ + width]
      /\ sums' = [k \in DOMAIN sums |->
                    IF k - 1 \notin Batch(v) THEN sums[k]
                    ELSE IF BatchFull(v) THEN VectorBlock(v, k - 1) ELSE ScalarBlock(k - 1)]
      /\ UNCHANGED << callVars, procs, outcome >>
      /\ UNCHANGED << file, fileSize, w, wg, end, running >>
  BY DEF HashRange, callVars
<1>2. /\ RangeInv /\ HashedInv /\ width \in Nat /\ procs \in Nat \ {0}
      /\ Count \in Nat \ {0} /\ NumWorkers \in 1 .. Count
      /\ w \in 0 .. NumWorkers /\ running \subseteq 0 .. w - 1
      /\ start \in [0 .. NumWorkers - 1 -> Nat] /\ end \in [0 .. NumWorkers - 1 -> Nat]
  BY <1>0, WorkHead
<1>3. /\ Count' = Count /\ NumWorkers' = NumWorkers
      /\ \A u : StartBlock(u)' = StartBlock(u) /\ EndBlock(u)' = EndBlock(u)
  BY <1>1 DEF Count, NumWorkers, StartBlock, EndBlock, BlocksPerWorker
<1>4. /\ v \in 0 .. w - 1 /\ start' \in [0 .. NumWorkers - 1 -> Nat]
      /\ start'[v] = start[v] + width
      /\ \A u \in 0 .. w - 1 : /\ u # v => start'[u] = start[u]
                               /\ start[u] \in Nat /\ start[u] <= start'[u]
  BY <1>1, <1>2
<1>5. RangeInv'
  <2>1. ASSUME NEW u \in 0 .. w - 1
        PROVE  /\ end[u] = EndBlock(u) /\ StartBlock(u) <= start'[u]
               /\ u \notin running => start'[u] >= end[u]
    <3>1. /\ end[u] = EndBlock(u) /\ StartBlock(u) <= start[u]
          /\ u \notin running => u # v /\ start[u] >= end[u]
      BY <1>2 DEF RangeInv
    <3>2. StartBlock(u) \in Nat /\ EndBlock(u) \in Nat /\ start'[u] \in Nat
      <4>1. u \in Nat /\ u \in 0 .. NumWorkers - 1
        BY <1>2
      <4> QED BY <4>1, <1>2, <1>4, Ranges
    <3> QED BY <3>1, <3>2, <1>4
  <2> QED BY <2>1, <1>1, <1>2, <1>3, <1>4 DEF RangeInv
<1>6. ASSUME NEW k \in 1 .. Count
      PROVE  sums'[k] = IF k - 1 \in Batch(v) THEN BlockSum(file, k - 1) ELSE sums[k]
  <2>1. DOMAIN sums = 1 .. Count
    BY <1>2 DEF HashedInv
  <2>2. sums'[k] = IF k - 1 \notin Batch(v) THEN sums[k]
                   ELSE IF BatchFull(v) THEN VectorBlock(v, k - 1) ELSE ScalarBlock(k - 1)
    BY <2>1, <1>1
  <2> DEFINE idx == k - 1
  <2>3. CASE idx \in Batch(v)
    <3> HIDE DEF idx
    <3>1. /\ ScalarBlock(idx) = BlockSum(file, idx)
          /\ BatchFull(v) => VectorBlock(v, idx) = BlockSum(file, idx)
      BY <2>3, <1>1, RangeSums
    <3> QED BY <3>1, <2>2, <2>3 DEF idx
  <2> QED BY <2>2, <2>3
<1>7. HashedInv'
  <2>1. ASSUME NEW u \in 0 .. w - 1, NEW idx \in StartBlock(u) .. EndBlock(u) - 1,
               idx < start'[u]
        PROVE  sums'[idx + 1] = BlockSum(file, idx)
    <3>1. StartBlock(u) \in Nat /\ EndBlock(u) \in Nat /\ EndBlock(u) <= Count
      BY <1>2, Ranges
    <3>2. idx + 1 \in 1 .. Count /\ (idx + 1) - 1 = idx
      BY <3>1, <1>2
    <3>3. idx \in Batch(v) \/ idx < start[u]
      <4>1. CASE u # v
        BY <4>1, <2>1, <1>4
      <4>2. CASE u = v
        <5>1. end[v] = EndBlock(v) /\ start'[v] = start[v] + width /\ start[v] \in Nat
          BY <1>2, <1>4 DEF RangeInv
        <5> QED BY <5>1, <4>2, <2>1, <1>2, <3>1, SMTT(30) DEF Batch, Least
      <4> QED BY <4>1, <4>2
    <3>4. idx < start[u] => sums[idx + 1] = BlockSum(file, idx)
      BY <1>2 DEF HashedInv
    <3> QED BY <3>2, <3>3, <3>4, <1>6
  <2>2. sums' = [k \in 1 .. Count' |-> sums'[k]]
    BY <1>1, <1>2, <1>3 DEF HashedInv
  <2> QED BY <2>1, <2>2, <1>1, <1>3 DEF HashedInv
<1>8. pc' = "wait" => w' = NumWorkers'
  BY <1>1, <1>3, <1>0 DEF IInv, WorkInv
<1> QED BY <1>0, <1>1, <1>5, <1>7, <1>8, WorkFrame

\* When the WaitGroup lets the caller go, every range is hashed to its end.
LEMMA ReturnStep ==
  ASSUME IInv, Return
  PROVE  IInv'
<1>1. /\ pc = "wait" /\ wg = 0 /\ pc' = "returned" /\ outcome' = "nil"
      /\ UNCHANGED << file, fileSize, width, sums, procs, running >>
  BY DEF Return, AllDone, callVars, workVars
<1>2. /\ file \in Seq(Byte) /\ fileSize = Len(file) /\ Len(file) \in Nat
      /\ Count \in Nat \ {0} /\ NumBlocks(file) = Count /\ procs \in Nat \ {0}
      /\ NumWorkers \in 1 .. Count /\ IsFiniteSet(running)
      /\ wg = Cardinality(running) + NumWorkers - w
      /\ start \in [0 .. NumWorkers - 1 -> Nat]
      /\ RangeInv /\ HashedInv
  BY <1>1, WorkHead
<1>3. w = NumWorkers
  BY <1>1 DEF IInv, WorkInv
<1>4. running = {}
  <2>1. Cardinality(running) = 0
    BY <1>1, <1>2, <1>3, FS_CardinalityType
  <2> QED BY <2>1, <1>2, FS_EmptySet
<1>5. ASSUME NEW k \in 1 .. Count
      PROVE  sums[k] = BlockSum(file, k - 1)
  <2> DEFINE idx == k - 1
  <2>1. idx \in 0 .. Count - 1 /\ idx + 1 = k
    BY <1>2
  <2> HIDE DEF idx
  <2>2. PICK v \in 0 .. NumWorkers - 1 : idx \in StartBlock(v) .. EndBlock(v) - 1
    BY <2>1, <1>2, Ranges
  <2>3. StartBlock(v) \in Nat /\ EndBlock(v) \in Nat /\ start[v] \in Nat
    <3>1. v \in Nat
      BY <1>2
    <3> QED BY <3>1, <1>2, Ranges
  <2>4. start[v] >= end[v] /\ end[v] = EndBlock(v)
    BY <1>2, <1>3, <1>4 DEF RangeInv
  <2>5. idx < start[v]
    BY <2>2, <2>3, <2>4
  <2>6. sums[idx + 1] = BlockSum(file, idx)
    BY <2>2, <2>5, <1>2, <1>3 DEF HashedInv
  <2> QED BY <2>1, <2>6 DEF idx
<1>6. sums = Signature(file)
  <2>1. sums = [k \in 1 .. Count |-> sums[k]]
    BY <1>2 DEF HashedInv
  <2>2. sums = [k \in 1 .. Count |-> BlockSum(file, k - 1)]
    BY <2>1, <1>5
  <2> QED BY <2>2, <1>2 DEF Signature
<1>7. Announced = file
  <2>1. Announced = SubSeq(file, 1, Len(file))
    BY <1>2 DEF Announced, Slice, Least
  <2>2. /\ SubSeq(file, 1, Len(file)) \in Seq(Byte)
        /\ Len(SubSeq(file, 1, Len(file))) = Len(file)
        /\ \A i \in 1 .. Len(file) : SubSeq(file, 1, Len(file))[i] = file[i]
    BY <1>2, PrefixType
  <2> HIDE DEF Announced
  <2>3. SubSeq(file, 1, Len(file)) = file
    BY <2>2, <1>2, SeqEqual
  <2> QED BY <2>1, <2>3
<1>8. SignatureExact'
  <2>1. Announced' = Announced
    BY <1>1 DEF Announced
  <2> QED BY <2>1, <1>1, <1>2, <1>6, <1>7 DEF SignatureExact
<1> QED BY <1>1, <1>4, <1>8 DEF IInv, CallInv, ReadInv, WorkInv, PartialTrue

LEMMA StutterStep ==
  ASSUME IInv, UNCHANGED vars
  PROVE  IInv'
<1>1. /\ Count' = Count /\ BatchCount' = BatchCount /\ Announced' = Announced
      /\ Through' = Through /\ Fed' = Fed /\ NumWorkers' = NumWorkers
      /\ \A v : StartBlock(v)' = StartBlock(v) /\ EndBlock(v)' = EndBlock(v)
  BY DEF vars, readerVars, callVars, workVars, Count, BatchCount, Announced, Through, Fed,
         NumWorkers, StartBlock, EndBlock, BlocksPerWorker
<1>2. UNCHANGED << pc, calls, file, fails, fileSize, width, base, filled, total, batchBuf,
                   sums, outcome, procs, w, wg, start, end, running >>
  BY DEF vars, readerVars, callVars, workVars
<1>3. CallInv' /\ ReadInv'
  BY <1>1, <1>2 DEF IInv, CallInv, ReadInv
<1>4. WorkInv'
  BY <1>1, <1>2 DEF IInv, WorkInv, RangeInv, HashedInv
<1>5. PartialTrue' /\ SignatureExact'
  BY <1>1, <1>2 DEF IInv, PartialTrue, SignatureExact
<1> QED BY <1>3, <1>4, <1>5 DEF IInv

LEMMA NextIInv == IInv /\ [Next]_vars => IInv'
<1> SUFFICES ASSUME IInv, [Next]_vars PROVE IInv'
  OBVIOUS
<1>1. ASSUME NEW f \in Files, NEW algo \in Algorithms, NEW b \in Widths,
             NEW size \in FileSizes(f), CallReader(f, size, algo, b)
      PROVE  IInv'
  BY <1>1, CallReaderStep
<1>2. ASSUME NEW f \in Files, NEW algo \in Algorithms, NEW b \in Widths, NEW p \in Procs,
             GenerateSignatureParallel(f, algo, p, b)
      PROVE  IInv'
  BY <1>2, ParallelCallStep
<1>3. CASE ReaderStep /\ UNCHANGED workVars
  BY <1>3, ReadBlockStep, FilledStep, HashBatchStep, AllHashedStep DEF ReaderStep
<1>4. CASE Caller
  BY <1>4, LaunchStep, WaitStep, ReturnStep DEF Caller
<1>5. ASSUME NEW v \in running, Worker(v)
      PROVE  IInv'
  BY <1>5, HashRangeStep, DoneStep DEF Worker
<1>6. CASE UNCHANGED vars
  BY <1>6, StutterStep
<1> QED BY <1>1, <1>2, <1>3, <1>4, <1>5, <1>6 DEF Next, Rest

-----------------------------------------------------------------------------
(* The theorems *)

\* The reader's progress, the goroutines' ranges and the WaitGroup's count are
\* what the invariant says in every reachable state.
THEOREM SignatureInvariant == Spec => []IInv
<1>1. Init => IInv
  BY InitIInv
<1>2. IInv /\ [Next]_vars => IInv'
  BY NextIInv
<1> QED BY <1>1, <1>2, PTL DEF Spec

\* A signature that GenerateSignatureReader or GenerateSignatureParallel returns
\* without an error is that of all the announced bytes, for every batch width
\* and number of goroutines; a file that is too short is reported.
THEOREM SignaturesExact == Spec => []SignatureExact
<1>1. IInv => SignatureExact
  BY DEF IInv
<1> QED BY <1>1, SignatureInvariant, PTL

\* The signature that GenerateSignatureReader returns with a reader's error has
\* true sums for the batches hashed and blanks after them.
THEOREM PartialSignaturesTrue == Spec => []PartialTrue
<1>1. IInv => PartialTrue
  BY DEF IInv
<1> QED BY <1>1, SignatureInvariant, PTL

\* No two goroutines of GenerateSignatureParallel are to write the same block.
THEOREM RangesStayApart == Spec => []RangesApart
<1>1. IInv => RangesApart
  <2> SUFFICES ASSUME IInv, NEW u \in running, NEW v \in running, u # v
               PROVE  start[u] >= end[v] \/ start[v] >= end[u]
    BY DEF RangesApart
  <2>1. running # {} /\ pc \in {"launch", "wait"}
    BY DEF IInv, CallInv
  <2>2. /\ Count \in Nat \ {0} /\ procs \in Nat \ {0}
        /\ w \in 0 .. NumWorkers /\ NumWorkers \in 1 .. Count
        /\ running \subseteq 0 .. w - 1 /\ RangeInv
        /\ start \in [0 .. NumWorkers - 1 -> Nat]
    BY <2>1, WorkHead
  <2>3. u \in 0 .. w - 1 /\ v \in 0 .. w - 1 /\ u \in Nat /\ v \in Nat
    BY <2>2
  <2>4. /\ end[u] = EndBlock(u) /\ StartBlock(u) <= start[u]
        /\ end[v] = EndBlock(v) /\ StartBlock(v) <= start[v]
    BY <2>2, <2>3 DEF RangeInv
  <2>5. /\ StartBlock(u) \in Nat /\ EndBlock(u) \in Nat /\ start[u] \in Nat
        /\ StartBlock(v) \in Nat /\ EndBlock(v) \in Nat /\ start[v] \in Nat
        /\ EndBlock(u) <= StartBlock(v) \/ EndBlock(v) <= StartBlock(u)
    <3>1. u < v \/ v < u
      BY <2>3
    <3>2. u \in 0 .. NumWorkers - 1 /\ v \in 0 .. NumWorkers - 1
      BY <2>2, <2>3
    <3> QED BY <3>1, <3>2, <2>2, <2>3, Ranges
  <2> QED BY <2>4, <2>5
<1> QED BY <1>1, SignatureInvariant, PTL

\* When GenerateSignatureParallel returns, none of its goroutines is left: the
\* WaitGroup reaches zero only after the last of them.
THEOREM NoneLeftWriting == Spec => []NoWriterLeft
<1>1. IInv => NoWriterLeft
  BY DEF IInv, CallInv, NoWriterLeft
<1> QED BY <1>1, SignatureInvariant, PTL
=============================================================================
