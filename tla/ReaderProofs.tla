---------------------------- MODULE ReaderProofs ----------------------------
(***************************************************************************)
(* The streaming search, for every block size, chunk size, buffer, set of  *)
(* files and way a source is cut into reads.                               *)
(*                                                                         *)
(* The invariant follows the buffer: it mirrors the source from bufBase    *)
(* on, what was sent rebuilds the source up to literalStart, and the bytes *)
(* buffered reach a block beyond the offset at which the scan will look at *)
(* the buffer again.  So every window, and every byte that is rolled in,   *)
(* has been read when it is looked at.                                     *)
(*                                                                         *)
(* All of it rests on one condition on the sources, EndsWell: without it   *)
(* the initial fill may succeed with less than it was to read, and the     *)
(* scan then looks at bytes that were never read (the run "truncated").    *)
(***************************************************************************)
EXTENDS SearchReader, MatchEngineProofs

\* A source that ends before it is a block long, or not before it is two,
\* unless it has all the bytes announced.
EndsWell(d, size) == size <= Len(d) \/ Len(d) < BlockSize \/ Len(d) >= 2 * BlockSize

Announced == \A d \in Inputs : \A size \in FileSizes(d) : EndsWell(d, size)

-----------------------------------------------------------------------------
(* The invariant *)

Filling == pc = "fill"
Looping == pc \in {"slide", "stream"}
Reading == Filling \/ Looping

\* The engine is doing a call of its own, or has done one last.
EngineRuns ==
  \/ pc \in {"idle", "build", "called", "scan", "tail"}
  \/ pc = "returned" /\ outcome = "batch"

\* The bytes the call is about.
Source == Slice(data, 0, Least(fileSize, Len(data)))

ReaderTypeOK ==
  /\ pc \in {"idle", "build", "called", "scan", "tail", "returned",
             "literals", "fill", "slide", "stream"}
  /\ calls \in Nat
  /\ basis \in Seq(Byte)
  /\ checksums \in Seq(BlockSums)
  /\ tableSize \in Nat \ {0}
  /\ hashTable \in [0 .. tableSize - 1 -> [sum1 : Nat, idx : Nat]]
  /\ inserted \in Nat
  /\ data \in Seq(Byte)
  /\ rolling \in RollingState
  /\ offset \in Nat /\ lastMatch \in Nat /\ wantIdx \in Nat
  /\ results \in Seq(Instruction)
  /\ stats \in Stats /\ before \in Stats
  /\ fileSize \in Nat /\ fed \in Nat
  /\ bufBase \in Nat /\ bufLen \in Nat /\ bufEnd \in Nat /\ needEnd \in Nat
  /\ needReset \in BOOLEAN /\ nextBufCheck \in Nat /\ nextLiteralCheck \in Nat

CallInv ==
  /\ EngineRuns => ScanInv /\ RollingInSync /\ ResultsRebuildData /\ LiteralsChunked
  /\ pc \in {"called", "scan", "tail"} => outcome = "batch"
  /\ pc = "literals" \/ Reading => outcome = "none"

LiteralsInv ==
  pc = "literals" =>
    fed = offset /\ offset <= Len(Source) /\ Rebuilds(basis, Source, results, offset)

\* g holds the n bytes of f from base on.
Mirrors(g, n, f, base) == base + n <= Len(f) /\ \A i \in 1 .. n : g[i] = f[base + i]

\* The buffer holds the source from bufBase on, and what was sent ends inside
\* what was read.
BufferInv ==
  Reading =>
    /\ checksums # << >> /\ BlockSize <= fileSize
    /\ fed = bufBase + bufLen /\ bufLen <= BufCap
    /\ Mirrors(buf, bufLen, data, bufBase)
    /\ bufBase <= lastMatch /\ lastMatch <= offset
    /\ lastMatch <= fed /\ lastMatch <= fileSize
    /\ Rebuilds(basis, Source, results, lastMatch)

FillInv ==
  Filling =>
    /\ bufBase = 0 /\ offset = 0 /\ lastMatch = 0 /\ results = << >>
    /\ needEnd = Least(2 * BlockSize, fileSize)
    /\ EndsWell(data, fileSize)

\* The bytes buffered reach a block beyond the next check, which is at most a
\* block ahead and overdue after a match.
AheadInv ==
  Looping =>
    /\ Least(nextBufCheck + BlockSize, fileSize) <= fed
    /\ nextBufCheck <= offset + BlockSize
    /\ needReset => nextBufCheck <= offset
    /\ nextLiteralCheck = lastMatch + ChunkSize
    /\ pc = "stream" => bufEnd = fed
    /\ pc = "slide" => /\ offset + BlockSize <= fileSize
                       /\ nextBufCheck <= offset /\ needEnd = SlideEnd

\* The rolling sum is that of the window, unless it is to be taken anew.
SumInv ==
  Looping /\ ~ needReset /\ offset + BlockSize <= fileSize =>
    /\ offset + BlockSize <= fed
    /\ rolling = Reset(Slice(data, offset, offset + BlockSize))

ReaderInv ==
  /\ ReaderTypeOK /\ TableInv /\ CallInv
  /\ LiteralsInv /\ BufferInv /\ FillInv /\ AheadInv /\ SumInv

LEMMA InitReaderInv == ReaderInit => ReaderInv
<1> SUFFICES ASSUME ReaderInit PROVE ReaderInv
  OBVIOUS
<1>1. IInv
  BY InitIInv DEF ReaderInit
<1>2. pc = "idle"
  BY DEF ReaderInit, Init
<1>3. ReaderTypeOK /\ TableInv
  BY <1>1 DEF IInv, TypeOK, ReaderTypeOK, ReaderInit
<1>4. CallInv
  BY <1>1, <1>2 DEF IInv, CallInv, Reading, Filling, Looping
<1>5. LiteralsInv /\ BufferInv /\ FillInv /\ AheadInv /\ SumInv
  BY <1>2 DEF LiteralsInv, BufferInv, FillInv, AheadInv, SumInv, Reading, Filling, Looping
<1> QED BY <1>3, <1>4, <1>5 DEF ReaderInv

-----------------------------------------------------------------------------
(* What the callback is given *)

LEMMA HandedType ==
  ASSUME NEW t \in Seq(Instruction), NEW h \in Handed(t)
  PROVE  /\ h.given \in 0 .. Len(t) /\ h.err \in {"nil", "callback"}
         /\ h.err = "nil" => h.given = Len(t)
         /\ h.err # "nil" => h.given \in 1 .. Len(t)
<1>1. Len(t) \in Nat
  BY LenProperties
<1>2. CASE h = [given |-> Len(t), err |-> "nil"]
  BY <1>1, <1>2
<1>3. CASE \E k \in 1 .. Len(t) : h = [given |-> k, err |-> "callback"]
  BY <1>1, <1>3
<1> QED BY <1>2, <1>3 DEF Handed

\* Instructions that go on where those sent end: what was sent stays, and
\* rebuilds the source up to some point, or all the way if none is refused.
LEMMA HandOver ==
  ASSUME NEW f \in Seq(Byte), NEW d \in Seq(Byte),
         NEW r \in Seq(Instruction), NEW t \in Seq(Instruction),
         NEW lo \in 0 .. Len(d), NEW hi, Rebuilds(f, d, r, lo), Covers(f, d, t, lo, hi),
         NEW h \in Handed(t)
  PROVE  LET u == r \o SubSeq(t, 1, h.given)
         IN  /\ u \in Seq(Instruction)
             /\ Len(r) <= Len(u) /\ r = SubSeq(u, 1, Len(r))
             /\ \E m \in 0 .. Len(d) : Rebuilds(f, d, u, m)
             /\ h.err = "nil" => Rebuilds(f, d, u, hi)
<1> DEFINE n == h.given
           s == SubSeq(t, 1, n)
           u == r \o s
<1>1. n \in 0 .. Len(t) /\ (h.err = "nil" => n = Len(t))
  BY HandedType
<1> HIDE DEF n
<1>2. s \in Seq(Instruction) /\ \E m \in 0 .. Len(d) : Covers(f, d, s, lo, m)
  BY <1>1, CoversPrefix
<1>3. h.err = "nil" => s = t
  BY <1>1, SubSeqFull
<1> HIDE DEF s
<1>4. u \in Seq(Instruction) /\ Len(r) <= Len(u) /\ r = SubSeq(u, 1, Len(r))
  BY <1>2, Grown, ConcatProperties
<1>5. \E m \in 0 .. Len(d) : Rebuilds(f, d, u, m)
  <2>1. PICK m \in 0 .. Len(d) : Covers(f, d, s, lo, m)
    BY <1>2
  <2>2. Covers(f, d, u, 0, m)
    BY <1>2, <2>1, CoversConcat DEF Rebuilds
  <2> QED BY <2>2 DEF Rebuilds
<1>6. ASSUME h.err = "nil"
      PROVE  Rebuilds(f, d, u, hi)
  <2>1. s = t
    BY <1>3, <1>6
  <2>2. Covers(f, d, r \o t, 0, hi)
    BY CoversConcat DEF Rebuilds
  <2> QED BY <2>1, <2>2 DEF Rebuilds
<1> HIDE DEF u
<1> QED BY <1>4, <1>5, <1>6 DEF u, s, n

LEMMA GivenStatsType ==
  ASSUME stats \in Stats, NEW t \in Seq(Instruction), NEW h \in Handed(t)
  PROVE  GivenStats(t, h) \in Stats
<1> DEFINE n == IF h.err = "nil" THEN h.given ELSE h.given - 1
           refs == {k \in 1 .. h.given : ~ t[k].isLiteral}
           bytes == DataCount(t, 1 .. n)
<1>1. /\ Len(t) \in Nat /\ h.given \in 0 .. Len(t) /\ n \in 0 .. Len(t)
  BY HandedType, LenProperties
<1> HIDE DEF n
<1>2. Cardinality(refs) \in Nat
  <2>1. h.given \in Int /\ 1 \in Int
    BY <1>1
  <2>2. IsFiniteSet(1 .. h.given)
    BY <2>1, FS_Interval
  <2>3. refs \subseteq 1 .. h.given
    OBVIOUS
  <2> HIDE DEF refs
  <2>4. IsFiniteSet(refs)
    BY <2>2, <2>3, FS_Subset
  <2> QED BY <2>4, FS_CardinalityType
<1>3. bytes \in Nat
  <2>1. IsFiniteSet(1 .. n)
    BY <1>1, FS_Interval
  <2>2. \A k \in 1 .. n : Len(t[k].data) \in Nat
    <3>1. \A k \in 1 .. n : t[k] \in Instruction
      BY <1>1, ElementOfSeq
    <3> QED BY <3>1, LenProperties DEF Instruction
  <2> QED BY <2>1, <2>2, DataCountType
<1>4. GivenStats(t, h) = [stats EXCEPT !.matches = @ + Cardinality(refs),
                                       !.literalBytes = @ + bytes]
  BY Zenon DEF GivenStats, n, DataCount, MapThenSumSet, MapThenFoldSet
<1> HIDE DEF refs, bytes
<1>5. GivenStats(t, h) = [hashHits     |-> stats.hashHits,
                          falseAlarms  |-> stats.falseAlarms,
                          matches      |-> stats.matches + Cardinality(refs),
                          literalBytes |-> stats.literalBytes + bytes]
  BY <1>4 DEF Stats
<1> QED BY <1>2, <1>3, <1>5 DEF Stats

\* The hits and false alarms of a probe, on top of that.
LEMMA CountedUp ==
  ASSUME NEW g \in Stats, NEW a \in Nat, NEW b \in Nat
  PROVE  [g EXCEPT !.hashHits = @ + a, !.falseAlarms = @ + b] \in Stats
<1>1. g.hashHits + a \in Nat /\ g.falseAlarms + b \in Nat
  BY DEF Stats
<1> QED BY <1>1 DEF Stats

LEMMA ProbeStatsType ==
  ASSUME stats \in Stats, NEW t \in Seq(Instruction), NEW h \in Handed(t),
         NEW v, NEW T, T \subseteq Compared(v)
  PROVE  [GivenStats(t, h) EXCEPT !.hashHits = @ + HashHits(v),
                                  !.falseAlarms = @ + Cardinality(T)] \in Stats
<1>1. GivenStats(t, h) \in Stats /\ HashHits(v) \in Nat /\ Cardinality(T) \in Nat
  BY GivenStatsType, ComparedFinite DEF HashHits
<1> QED BY <1>1, CountedUp

-----------------------------------------------------------------------------
(* The source and the buffer *)

LEMMA SourceType ==
  ASSUME ReaderTypeOK
  PROVE  /\ Source \in Seq(Byte) /\ Len(Source) = Least(fileSize, Len(data))
         /\ Len(Source) \in Nat /\ Len(Source) <= fileSize /\ Len(Source) <= Len(data)
<1> DEFINE n == Least(fileSize, Len(data))
<1>1. /\ data \in Seq(Byte) /\ 0 \in Nat /\ n \in Nat /\ 0 <= n /\ n <= Len(data)
      /\ n <= fileSize /\ n - 0 = n
  BY LenProperties DEF ReaderTypeOK, Least
<1> HIDE DEF n
<1>2. Slice(data, 0, n) \in Seq(Byte) /\ Len(Slice(data, 0, n)) = n - 0
  BY <1>1, SliceType, ZenonT(60)
<1>3. Source = Slice(data, 0, n)
  BY DEF Source, n
<1> QED BY <1>1, <1>2, <1>3 DEF n

LEMMA SourceSlice ==
  ASSUME ReaderTypeOK, NEW lo \in Nat, NEW hi \in Nat, lo <= hi, hi <= Len(Source)
  PROVE  Slice(Source, lo, hi) = Slice(data, lo, hi)
<1> DEFINE n == Least(fileSize, Len(data))
<1>1. /\ data \in Seq(Byte) /\ 0 \in Nat /\ n \in Nat /\ 0 <= n /\ n <= Len(data)
      /\ hi <= n - 0 /\ 0 + lo = lo /\ 0 + hi = hi
  <2>1. /\ data \in Seq(Byte) /\ fileSize \in Nat /\ Len(Source) = n
    BY SourceType DEF ReaderTypeOK
  <2>2. Len(data) \in Nat
    BY <2>1, LenProperties
  <2>3. n \in Nat /\ n <= Len(data)
    BY <2>1, <2>2 DEF Least
  <2> QED BY <2>1, <2>3
<1> HIDE DEF n
<1>2. Slice(Slice(data, 0, n), lo, hi) = Slice(data, 0 + lo, 0 + hi)
  BY <1>1, SliceSlice
<1> QED BY <1>1, <1>2 DEF Source, n

LEMMA BufCapType == BufCap \in Nat
BY BlockSizeAssumption, ChunkSizeAssumption DEF BufCap, Most

\* The bytes of the buffer for the offsets lo to hi of the file.
Shown(g, base, lo, hi) == Slice(g, lo - base, hi - base)

\* A buffer that mirrors the file from base on, looked at where it does.
LEMMA MirrorSlice ==
  ASSUME NEW f \in Seq(Byte), NEW g, NEW base \in Nat, NEW n \in Nat,
         Mirrors(g, n, f, base),
         NEW lo \in Nat, NEW hi \in Nat, base <= lo, lo <= hi, hi <= base + n
  PROVE  Shown(g, base, lo, hi) = Slice(f, lo, hi)
<1> DEFINE a == lo - base
           b == hi - base
<1>1. /\ a \in Nat /\ b \in Nat /\ a <= b /\ b <= n /\ b - a = hi - lo
      /\ base + a = lo /\ Len(f) \in Nat /\ base + n <= Len(f) /\ hi <= Len(f)
      /\ \A i \in 1 .. n : g[i] = f[base + i]
  BY LenProperties, SMTT(30) DEF Mirrors
<1>2. \A i \in 1 .. n : g[i] \in Byte
  <2>1. \A i \in 1 .. n : base + i \in 1 .. Len(f)
    BY <1>1, SMTT(30)
  <2> QED BY <1>1, <2>1, ElementOfSeq
<1> HIDE DEF a, b
<1> DEFINE s == SubSeq(g, a + 1, b)
<1>3. s \in Seq(Byte) /\ Len(s) = b - a /\ \A i \in 1 .. b - a : s[i] = g[a + i]
  <2> DEFINE x == a + 1
  <2>1. x \in Int /\ b \in Int /\ \A i \in x .. b : g[i] \in Byte
    BY <1>1, <1>2
  <2>2. b - x + 1 = b - a /\ (x <= b <=> a < b) /\ \A i \in 1 .. b - a : x + i - 1 = a + i
    BY <1>1
  <2> HIDE DEF x
  <2>3. /\ SubSeq(g, x, b) \in Seq(Byte)
        /\ Len(SubSeq(g, x, b)) = IF x <= b THEN b - x + 1 ELSE 0
        /\ \A i \in 1 .. b - x + 1 : SubSeq(g, x, b)[i] = g[x + i - 1]
    BY <2>1, SubSeqProperties
  <2>4. Len(SubSeq(g, x, b)) = b - a
    BY <1>1, <2>2, <2>3
  <2> QED BY <2>2, <2>3, <2>4 DEF x
<1>4. /\ Slice(f, lo, hi) \in Seq(Byte) /\ Len(Slice(f, lo, hi)) = hi - lo
      /\ \A i \in 1 .. hi - lo : Slice(f, lo, hi)[i] = f[lo + i]
  <2>1. f \in Seq(Byte) /\ lo \in Nat /\ hi \in Nat /\ lo <= hi /\ hi <= Len(f)
    BY <1>1
  <2> QED BY <2>1, SliceType, ZenonT(60)
<1> HIDE DEF s
<1>5. \A i \in 1 .. b - a : s[i] = Slice(f, lo, hi)[i]
  <2>1. \A i \in 1 .. b - a : a + i \in 1 .. n /\ base + (a + i) = lo + i
    BY <1>1, SMTT(30)
  <2> QED BY <1>1, <1>3, <1>4, <2>1, ZenonT(60)
<1>6. s = Slice(f, lo, hi)
  BY <1>1, <1>3, <1>4, <1>5, SeqEqual
<1> QED BY <1>6 DEF s, a, b, Shown, Slice

LEMMA BufferedIs ==
  ASSUME ReaderTypeOK, BufferInv, Reading,
         NEW lo \in Nat, NEW hi \in Nat, bufBase <= lo, lo <= hi, hi <= fed
  PROVE  Buffered(lo, hi) = Slice(data, lo, hi)
<1>1. /\ data \in Seq(Byte) /\ bufBase \in Nat /\ bufLen \in Nat
      /\ Mirrors(buf, bufLen, data, bufBase) /\ hi <= bufBase + bufLen
      /\ lo \in Nat /\ hi \in Nat /\ bufBase <= lo /\ lo <= hi
  BY DEF ReaderTypeOK, BufferInv
<1>2. Shown(buf, bufBase, lo, hi) = Slice(data, lo, hi)
  BY <1>1, MirrorSlice
<1> QED BY <1>2 DEF Buffered, Shown

LEMMA ReadsType ==
  ASSUME ReaderTypeOK, BufferInv, Reading, NEW r \in Reads
  PROVE  /\ r.n \in Nat /\ bufLen + r.n <= BufCap /\ fed + r.n <= Len(data)
         /\ r.err \in {"nil", "eof", "io", "short"}
         /\ r.err = "eof" => fed + r.n = Len(data)
<1> DEFINE full  == Least(BufCap - bufLen, Left)
           sizes == {n \in ReadSizes : n <= full} \cup ({full} \ {0})
<1>1. /\ bufLen \in Nat /\ bufLen <= BufCap /\ BufCap \in Nat
      /\ Left \in Nat /\ fed \in Nat /\ Left = Len(data) - fed /\ Len(data) \in Nat
  <2>1. /\ data \in Seq(Byte) /\ bufLen \in Nat /\ fed \in Nat /\ bufLen <= BufCap
        /\ fed = bufBase + bufLen /\ Mirrors(buf, bufLen, data, bufBase)
    BY DEF ReaderTypeOK, BufferInv
  <2>2. Len(data) \in Nat
    BY <2>1, LenProperties
  <2>3. fed <= Len(data)
    BY <2>1 DEF Mirrors
  <2> QED BY <2>1, <2>2, <2>3, BufCapType DEF Left
<1>2. full \in Nat /\ full <= BufCap - bufLen /\ full <= Left
  BY <1>1 DEF Least
<1>3. \A n \in sizes \cup {0} : n \in Nat /\ n <= full
  BY <1>2, ReaderAssumption
<1>4. CASE bufLen >= BufCap
  <2>1. r = [n |-> 0, err |-> "short"]
    BY <1>4 DEF Reads
  <2> QED BY <1>1, <2>1
<1>5. CASE ~ (bufLen >= BufCap)
  <2>1. r \in UNION {
        {[n |-> n, err |-> "nil"] : n \in sizes},
        {[n |-> n, err |-> "eof"] : n \in {0} \cap {Left}},
        {[n |-> n, err |-> "eof"] : n \in {m \in sizes \cap {Left} : JoinedEOF}},
        {[n |-> n, err |-> "io"] : n \in {m \in sizes \cup {0} : ReadFails}} }
    BY <1>5, Zenon DEF Reads
  <2> HIDE DEF sizes
  <2>2. \E n \in sizes \cup {0} :
          /\ r.n = n /\ r.err \in {"nil", "eof", "io"}
          /\ r.err = "eof" => n = Left
    BY <2>1
  <2> HIDE DEF full
  <2> QED BY <1>1, <1>2, <1>3, <2>2
<1> QED BY <1>4, <1>5

-----------------------------------------------------------------------------
(* What every step does to what was sent *)

\* Instructions are only added, they rebuild the source up to some point, and
\* a call that returns nil having read all there was has sent all of it.
Delivers ==
  /\ results' \in Seq(Instruction)
  /\ Len(results) <= Len(results') /\ results = SubSeq(results', 1, Len(results))
  /\ \E m \in 0 .. Len(Source) : Rebuilds(basis, Source, results', m)
  /\ pc' = "returned" =>
       /\ outcome' # "batch"
       /\ outcome' = "nil" /\ ~ Unread' => Rebuilds(basis, Source, results', Len(Source))

LEMMA SendsOn ==
  ASSUME ReaderTypeOK, NEW t \in Seq(Instruction), NEW h \in Handed(t),
         NEW lo \in 0 .. Len(Source), NEW hi, Rebuilds(basis, Source, results, lo),
         Covers(basis, Source, t, lo, hi),
         results' = results \o SubSeq(t, 1, h.given),
         NEW next, next # "returned", Continue(h, next)
  PROVE  /\ Delivers
         /\ \/ pc' = "returned" /\ outcome' = "callback"
            \/ /\ pc' = next /\ outcome' = outcome
               /\ Rebuilds(basis, Source, results', hi)
<1>1. basis \in Seq(Byte) /\ Source \in Seq(Byte) /\ results \in Seq(Instruction)
  BY SourceType DEF ReaderTypeOK
<1>2. /\ results' \in Seq(Instruction)
      /\ Len(results) <= Len(results') /\ results = SubSeq(results', 1, Len(results))
      /\ \E m \in 0 .. Len(Source) : Rebuilds(basis, Source, results', m)
      /\ h.err = "nil" => Rebuilds(basis, Source, results', hi)
  BY <1>1, HandOver
<1>3. CASE h.err = "callback"
  <2>1. pc' = "returned" /\ outcome' = "callback"
    BY <1>3 DEF Continue, Return
  <2> QED BY <1>2, <2>1 DEF Delivers
<1>4. CASE h.err = "nil"
  <2>1. pc' = next /\ outcome' = outcome
    BY <1>4 DEF Continue
  <2> QED BY <1>2, <1>4, <2>1 DEF Delivers
<1> QED BY <1>3, <1>4, HandedType

LEMMA SendsLast ==
  ASSUME ReaderTypeOK, NEW t \in Seq(Instruction), NEW h \in Handed(t),
         NEW lo \in 0 .. Len(Source), NEW hi, Rebuilds(basis, Source, results, lo),
         Covers(basis, Source, t, lo, hi),
         results' = results \o SubSeq(t, 1, h.given),
         NEW err, Return(h, err), err # "batch",
         err = "nil" /\ ~ Unread' => hi = Len(Source)
  PROVE  Delivers /\ pc' = "returned" /\ outcome' # "batch"
<1>1. basis \in Seq(Byte) /\ Source \in Seq(Byte) /\ results \in Seq(Instruction)
  BY SourceType DEF ReaderTypeOK
<1>2. /\ results' \in Seq(Instruction)
      /\ Len(results) <= Len(results') /\ results = SubSeq(results', 1, Len(results))
      /\ \E m \in 0 .. Len(Source) : Rebuilds(basis, Source, results', m)
      /\ h.err = "nil" => Rebuilds(basis, Source, results', hi)
  BY <1>1, HandOver
<1>3. CASE h.err = "callback"
  <2>1. pc' = "returned" /\ outcome' = "callback"
    BY <1>3 DEF Return
  <2> QED BY <1>2, <2>1 DEF Delivers
<1>4. CASE h.err = "nil"
  <2>1. pc' = "returned" /\ outcome' = err
    BY <1>4 DEF Return
  <2>2. outcome' = "nil" /\ ~ Unread' => Rebuilds(basis, Source, results', Len(Source))
    BY <1>2, <1>4, <2>1
  <2> QED BY <1>2, <2>1, <2>2 DEF Delivers
<1> QED BY <1>3, <1>4, HandedType

LEMMA SendsNothing ==
  ASSUME ReaderTypeOK, NEW lo \in 0 .. Len(Source), Rebuilds(basis, Source, results, lo),
         UNCHANGED results,
         pc' = "returned" =>
           outcome' # "batch" /\ (outcome' = "nil" => lo = Len(Source))
  PROVE  Delivers
<1>1. results \in Seq(Instruction)
  BY DEF ReaderTypeOK
<1>2. Len(results) \in Nat
  BY <1>1, LenProperties
<1>3. SubSeq(results, 1, Len(results)) = results
  BY <1>1, SubSeqFull
<1> QED BY <1>1, <1>2, <1>3 DEF Delivers

\* A call that has returned holds the engine's tables and nothing else.
LEMMA Returned ==
  ASSUME ReaderTypeOK', TableInv', pc' = "returned", outcome' # "batch"
  PROVE  ReaderInv'
<1>1. CallInv'
  BY DEF CallInv, EngineRuns, Reading, Filling, Looping
<1>2. LiteralsInv' /\ BufferInv' /\ FillInv' /\ AheadInv' /\ SumInv'
  BY DEF LiteralsInv, BufferInv, FillInv, AheadInv, SumInv, Reading, Filling, Looping
<1> QED BY <1>1, <1>2 DEF ReaderInv

LEMMA TableKept ==
  ASSUME TableInv, UNCHANGED engineVars
  PROVE  TableInv'
BY DEF TableInv, engineVars

-----------------------------------------------------------------------------
(* The calls, and the engine's own steps *)

LEMMA EngineIInv ==
  ASSUME ReaderInv, EngineRuns
  PROVE  IInv
<1>1. TypeOK
  BY DEF ReaderInv, ReaderTypeOK, EngineRuns, TypeOK
<1> QED BY <1>1 DEF ReaderInv, CallInv, IInv

LEMMA RestType ==
  ASSUME ReaderInv, AtRest
  PROVE  TypeOK /\ TableInv
BY DEF ReaderInv, ReaderTypeOK, AtRest, TypeOK

\* The engine's invariant, and none of the reader's variables touched.
LEMMA EngineInv ==
  ASSUME ReaderInv, IInv', pc' \in {"idle", "build", "called", "scan", "tail", "returned"},
         pc' \in {"called", "scan", "tail", "returned"} => outcome = "batch",
         UNCHANGED readerVars
  PROVE  ReaderInv'
<1>1. ReaderTypeOK' /\ TableInv'
  BY DEF ReaderInv, ReaderTypeOK, IInv, TypeOK, readerVars, bufVars, checkVars
<1>2. CallInv'
  BY DEF IInv, CallInv, EngineRuns, Reading, Filling, Looping, readerVars
<1>3. LiteralsInv' /\ BufferInv' /\ FillInv' /\ AheadInv' /\ SumInv'
  BY DEF LiteralsInv, BufferInv, FillInv, AheadInv, SumInv, Reading, Filling, Looping
<1> QED BY <1>1, <1>2, <1>3 DEF ReaderInv

LEMMA UnchangedInv ==
  ASSUME ReaderInv, UNCHANGED allVars
  PROVE  ReaderInv'
<1>1. ReaderTypeOK' /\ TableInv'
  BY DEF ReaderInv, ReaderTypeOK, TableInv, allVars, vars, engineVars, searchVars,
         readerVars, bufVars, checkVars
<1>2. CallInv'
  BY DEF ReaderInv, CallInv, EngineRuns, Reading, Filling, Looping, ScanInv,
         RollingInSync, Window, ResultsRebuildData, LiteralsChunked,
         allVars, vars, engineVars, searchVars, readerVars
<1>3. LiteralsInv' /\ BufferInv' /\ FillInv'
  BY DEF ReaderInv, LiteralsInv, BufferInv, FillInv, Reading, Filling, Looping, Source,
         allVars, vars, engineVars, searchVars, readerVars, bufVars, checkVars
<1>4. AheadInv' /\ SumInv'
  BY DEF ReaderInv, AheadInv, SumInv, Looping, SlideEnd,
         allVars, vars, engineVars, searchVars, readerVars, bufVars, checkVars
<1> QED BY <1>1, <1>2, <1>3, <1>4 DEF ReaderInv

LEMMA EngineStepInv ==
  ASSUME ReaderInv, EngineStep
  PROVE  ReaderInv'
<1>0. UNCHANGED readerVars
  BY DEF EngineStep
<1>1. ASSUME NEW f \in Bases, LoadSignature(f)
      PROVE  ReaderInv'
  <2>1. IInv' /\ pc' = "build"
    BY <1>1, RestType, LoadSignatureStep DEF LoadSignature
  <2> QED BY <1>0, <2>1, EngineInv
<1>2. CASE LoadNil
  <2>1. IInv' /\ pc' = "idle"
    BY <1>2, RestType, LoadNilStep DEF LoadNil
  <2> QED BY <1>0, <2>1, EngineInv
<1>3. CASE Rest
  <2>1. UNCHANGED allVars
    BY <1>0, <1>3 DEF Rest, allVars
  <2> QED BY <2>1, UnchangedInv
<1>4. CASE Progress
  <2>1. pc \in {"build", "called", "scan", "tail"}
    BY <1>4 DEF Progress, SearchProgress, InsertBlock, Built, SearchLiterals, SearchBegin,
                ScanMatch, ScanMiss, ScanEnd, TailMatch, TailLiterals
  <2>2. pc = "build" => pc' \in {"build", "idle"}
    BY <1>4 DEF Progress, SearchProgress, InsertBlock, Built, SearchLiterals, SearchBegin,
                ScanMatch, ScanMiss, ScanEnd, TailMatch, TailLiterals
  <2>3. pc \in {"called", "scan", "tail"} => outcome = "batch"
    BY DEF ReaderInv, CallInv
  <2>4. IInv'
    <3>1. IInv /\ [Next]_vars
      BY <1>4, <2>1, EngineIInv DEF EngineRuns, Next
    <3> QED BY <3>1, NextIInv
  <2>5. pc' \in {"idle", "build", "called", "scan", "tail", "returned"}
    BY <2>4 DEF IInv, TypeOK
  <2> QED BY <1>0, <2>1, <2>2, <2>3, <2>4, <2>5, EngineInv
<1> QED BY <1>1, <1>2, <1>3, <1>4 DEF EngineStep

LEMMA CallSearchInv ==
  ASSUME ReaderInv, NEW d \in Searched, CallSearch(d)
  PROVE  ReaderInv'
<1>1. d \in Inputs
  BY ReaderAssumption
<1>2. IInv' /\ pc' = "called" /\ outcome' = "batch"
  BY <1>1, RestType, SearchStep DEF CallSearch, Search
<1>3. ReaderTypeOK' /\ TableInv'
  BY <1>2 DEF CallSearch, ReaderInv, ReaderTypeOK, IInv, TypeOK, bufVars, checkVars
<1>4. CallInv'
  BY <1>2 DEF IInv, CallInv, Reading, Filling, Looping
<1>5. LiteralsInv' /\ BufferInv' /\ FillInv' /\ AheadInv' /\ SumInv'
  BY <1>2 DEF LiteralsInv, BufferInv, FillInv, AheadInv, SumInv, Reading, Filling, Looping
<1> QED BY <1>3, <1>4, <1>5 DEF ReaderInv

LEMMA CallReaderInv ==
  ASSUME Announced, ReaderInv, NEW d \in Inputs, NEW size \in FileSizes(d), CallReader(d, size)
  PROVE  ReaderInv'
<1>1. d \in Seq(Byte) /\ size \in Nat /\ EndsWell(d, size) /\ Len(d) \in Nat
  BY InputsAssumption, ReaderAssumption, LenProperties DEF Announced
<1>2. /\ data' = d /\ fileSize' = size /\ fed' = 0 /\ results' = << >>
      /\ outcome' = "none" /\ offset' = 0 /\ lastMatch' = 0 /\ wantIdx' = 0
      /\ bufBase' = 0 /\ bufLen' = 0 /\ needEnd' = Least(2 * BlockSize, size)
      /\ pc' = IF checksums = << >> \/ size < BlockSize THEN "literals" ELSE "fill"
      /\ calls' = calls + 1 /\ before' = stats
      /\ UNCHANGED << engineVars, rolling, stats, bufEnd, checkVars >>
  BY DEF CallReader
<1>3. ReaderTypeOK' /\ TableInv'
  <2>1. << >> \in Seq(Instruction)
    BY EmptySeq
  <2>2. Least(2 * BlockSize, size) \in Nat
    BY <1>1, BlockSizeAssumption DEF Least
  <2> QED BY <1>1, <1>2, <2>1, <2>2, SMTT(30)
          DEF ReaderInv, ReaderTypeOK, TableInv, engineVars, checkVars
<1>4. CallInv'
  BY <1>2 DEF CallInv, EngineRuns
<1>5. LiteralsInv'
  <2>1. Len(Source') \in Nat
    <3>1. Source' = Slice(d, 0, Least(size, Len(d)))
      BY <1>2 DEF Source
    <3> DEFINE n == Least(size, Len(d))
    <3>2. 0 \in Nat /\ n \in Nat /\ 0 <= n /\ n <= Len(d)
      BY <1>1 DEF Least
    <3> HIDE DEF n
    <3>3. Slice(d, 0, n) \in Seq(Byte)
      BY <1>1, <3>2, SliceType, ZenonT(60)
    <3> QED BY <3>1, <3>3, LenProperties DEF n
  <2>2. Rebuilds(basis', Source', << >>, 0)
    BY CoversNone DEF Rebuilds
  <2> QED BY <1>2, <2>1, <2>2 DEF LiteralsInv
<1>6. CASE pc' = "literals"
  BY <1>3, <1>4, <1>5, <1>6
     DEF ReaderInv, BufferInv, FillInv, AheadInv, SumInv, Reading, Filling, Looping
<1>7. CASE pc' = "fill"
  <2>1. checksums' # << >> /\ BlockSize <= fileSize'
    BY <1>1, <1>2, <1>7, BlockSizeAssumption DEF engineVars
  <2>2. Mirrors(buf', bufLen', data', bufBase') /\ bufLen' <= BufCap
    BY <1>1, <1>2, BufCapType DEF Mirrors
  <2>3. Rebuilds(basis', Source', results', lastMatch')
    BY <1>2, CoversNone DEF Rebuilds
  <2>4. BufferInv' /\ FillInv'
    BY <1>1, <1>2, <2>1, <2>2, <2>3 DEF BufferInv, FillInv
  <2>5. AheadInv' /\ SumInv'
    BY <1>7 DEF AheadInv, SumInv, Looping
  <2> QED BY <1>3, <1>4, <1>5, <2>4, <2>5 DEF ReaderInv
<1> QED BY <1>2, <1>6, <1>7

-----------------------------------------------------------------------------
(* The literal stream *)

LEMMA FullReadsType ==
  ASSUME ReaderTypeOK, fed <= Len(data), NEW want \in Nat, NEW r \in FullReads(want)
  PROVE  /\ r.n \in Nat /\ r.n <= want /\ fed + r.n <= Len(data)
         /\ r.err \in {"nil", "eof", "io"}
         /\ r.err = "eof" => fed + r.n = Len(data)
<1> DEFINE n == Least(want, Left)
<1>1. Left \in Nat /\ Left = Len(data) - fed /\ Len(data) \in Nat /\ fed \in Nat
  BY LenProperties DEF ReaderTypeOK, Left
<1>2. n \in Nat /\ n <= want /\ n <= Left /\ (n < want => n = Left)
  BY <1>1 DEF Least
<1> HIDE DEF n
<1>3. CASE r = [n |-> n, err |-> IF n < want THEN "eof" ELSE "nil"]
  BY <1>1, <1>2, <1>3
<1>4. CASE \E k \in 0 .. n : r = [n |-> k, err |-> "io"]
  BY <1>1, <1>2, <1>4
<1> QED BY <1>3, <1>4 DEF FullReads, n

LEMMA StreamLiteralsStep ==
  ASSUME ReaderInv, StreamLiterals
  PROVE  ReaderInv' /\ Delivers
<1>1. /\ pc = "literals" /\ outcome = "none" /\ ReaderTypeOK /\ TableInv
      /\ fed = offset /\ offset < fileSize
      /\ offset \in Nat /\ fileSize \in Nat /\ Len(data) \in Nat /\ data \in Seq(Byte)
      /\ Source \in Seq(Byte) /\ Len(Source) \in Nat
      /\ Len(Source) = Least(fileSize, Len(data)) /\ offset <= Len(Source)
      /\ Rebuilds(basis, Source, results, offset)
  BY SourceType, LenProperties DEF ReaderInv, CallInv, LiteralsInv, ReaderTypeOK, StreamLiterals
<1> DEFINE want == Least(ChunkSize, fileSize - offset)
<1>2. want \in Nat /\ want <= fileSize - offset /\ offset <= Len(data)
  BY <1>1, ChunkSizeAssumption DEF Least
<1> HIDE DEF want
<1>3. PICK r \in FullReads(want) :
        \E h \in Handed(Chunks(Slice(data, fed, fed + r.n), offset)) :
             /\ Give(Chunks(Slice(data, fed, fed + r.n), offset), h)
             /\ fed' = fed + r.n
             /\ offset' = offset + r.n
             /\ IF r.err = "nil" THEN Continue(h, pc) ELSE Return(h, Hidden(r.err))
  BY DEF StreamLiterals, want
<1> DEFINE hi == offset + r.n
           t == Chunks(Slice(data, fed, fed + r.n), offset)
<1>4. PICK h \in Handed(t) :
        /\ results' = results \o SubSeq(t, 1, h.given) /\ stats' = GivenStats(t, h)
        /\ fed' = hi /\ offset' = hi
        /\ IF r.err = "nil" THEN Continue(h, "literals") ELSE Return(h, Hidden(r.err))
  BY <1>1, <1>3 DEF Give
<1>5. /\ r.n \in Nat /\ r.n <= want /\ fed + r.n <= Len(data)
      /\ r.err \in {"nil", "eof", "io"} /\ (r.err = "eof" => fed + r.n = Len(data))
  BY <1>1, <1>2, FullReadsType
<1>6. /\ hi \in Nat /\ offset <= hi /\ hi <= Len(Source)
      /\ (r.err = "eof" => hi = Len(Source))
  BY <1>1, <1>2, <1>5 DEF Least
<1>7. t \in Seq(Instruction) /\ Covers(basis, Source, t, offset, hi)
  <2>1. t = Chunks(Slice(Source, offset, hi), offset)
    <3> HIDE DEF hi
    <3>1. Slice(Source, offset, hi) = Slice(data, offset, hi)
      BY <1>1, <1>6, SourceSlice
    <3> QED BY <1>1, <3>1 DEF hi
  <2> HIDE DEF hi, t
  <2> QED BY <1>1, <1>6, <2>1, ChunksCover
<1> HIDE DEF hi, t
<1>8. offset \in 0 .. Len(Source) /\ "literals" # "returned"
  BY <1>1
<1>9. /\ Delivers
      /\ \/ pc' = "returned" /\ outcome' # "batch"
         \/ pc' = "literals" /\ outcome' = outcome /\ Rebuilds(basis, Source, results', hi)
  <2>1. CASE r.err = "nil"
    <3>1. Continue(h, "literals")
      BY <1>4, <2>1
    <3>2. /\ Delivers
          /\ \/ pc' = "returned" /\ outcome' = "callback"
             \/ /\ pc' = "literals" /\ outcome' = outcome
                /\ Rebuilds(basis, Source, results', hi)
      BY <1>1, <1>4, <1>7, <1>8, <3>1, SendsOn
    <3> QED BY <3>2
  <2>2. CASE r.err # "nil"
    <3>1. Return(h, Hidden(r.err)) /\ Hidden(r.err) \in {"nil", "io"}
      BY <1>4, <1>5, <2>2 DEF Hidden
    <3>2. Hidden(r.err) = "nil" /\ ~ Unread' => hi = Len(Source)
      BY <1>5, <1>6, <2>2 DEF Hidden
    <3>3. Delivers /\ pc' = "returned" /\ outcome' # "batch"
      BY <1>1, <1>4, <1>7, <1>8, <3>1, <3>2, SendsLast
    <3> QED BY <3>3
  <2> QED BY <2>1, <2>2
<1>10. /\ UNCHANGED << calls, engineVars, data, rolling, lastMatch, wantIdx, before >>
       /\ UNCHANGED << fileSize, buf, bufBase, bufLen, bufEnd, needEnd, checkVars >>
  BY DEF StreamLiterals
<1>11. ReaderTypeOK' /\ TableInv'
  <2>1. stats' \in Stats
    BY <1>1, <1>4, <1>7, GivenStatsType DEF ReaderTypeOK
  <2>2. pc' \in {"returned", "literals"} /\ results' \in Seq(Instruction)
    BY <1>9 DEF Delivers
  <2> QED BY <1>1, <1>4, <1>6, <1>10, <2>1, <2>2, TableKept
          DEF ReaderTypeOK, engineVars, checkVars
<1>12. CASE pc' = "returned" /\ outcome' # "batch"
  BY <1>9, <1>11, <1>12, Returned
<1>13. CASE pc' = "literals" /\ outcome' = outcome /\ Rebuilds(basis, Source, results', hi)
  <2>1. CallInv' /\ BufferInv' /\ FillInv' /\ AheadInv' /\ SumInv'
    BY <1>1, <1>13 DEF CallInv, EngineRuns, BufferInv, FillInv, AheadInv, SumInv,
                       Reading, Filling, Looping
  <2>2. LiteralsInv'
    BY <1>4, <1>6, <1>10, <1>13 DEF LiteralsInv, Source, engineVars
  <2> QED BY <1>9, <1>11, <2>1, <2>2 DEF ReaderInv
<1> QED BY <1>9, <1>12, <1>13

LEMMA LiteralsEndStep ==
  ASSUME ReaderInv, LiteralsEnd
  PROVE  ReaderInv' /\ Delivers
<1>1. /\ pc = "literals" /\ ReaderTypeOK /\ TableInv
      /\ offset >= fileSize /\ offset \in Nat /\ fileSize \in Nat
      /\ offset <= Len(Source) /\ Len(Source) \in Nat /\ Len(Source) <= fileSize
      /\ Rebuilds(basis, Source, results, offset)
  BY SourceType DEF ReaderInv, LiteralsInv, LiteralsEnd, ReaderTypeOK
<1>2. offset \in 0 .. Len(Source) /\ offset = Len(Source)
  BY <1>1
<1>3. /\ pc' = "returned" /\ outcome' = "nil"
      /\ UNCHANGED << calls, engineVars, searchVars, fileSize, bufVars, checkVars >>
  BY DEF LiteralsEnd
<1>4. UNCHANGED results
  BY <1>3 DEF searchVars
<1>5. Delivers
  BY <1>1, <1>2, <1>3, <1>4, SendsNothing
<1>6. ReaderTypeOK' /\ TableInv'
  BY <1>1, <1>3, TableKept DEF ReaderTypeOK, engineVars, searchVars, bufVars, checkVars
<1> QED BY <1>3, <1>5, <1>6, Returned

-----------------------------------------------------------------------------
(* The reads *)

\* A Read appends to the buffer what comes next in the source.
LEMMA TakeMirrors ==
  ASSUME ReaderTypeOK, BufferInv, Reading, NEW r \in Reads, Take(r), UNCHANGED data
  PROVE  /\ bufLen' = bufLen + r.n /\ bufLen' \in Nat /\ bufLen' <= BufCap
         /\ fed' = bufBase + bufLen' /\ fed' \in Nat /\ fed <= fed' /\ fed' <= Len(data)
         /\ Mirrors(buf', bufLen', data, bufBase)
         /\ UNCHANGED << bufBase, needEnd >>
         /\ r.err = "eof" => fed' = Len(data)
<1>1. /\ bufLen \in Nat /\ bufBase \in Nat /\ fed \in Nat
      /\ fed = bufBase + bufLen /\ Mirrors(buf, bufLen, data, bufBase)
  BY DEF ReaderTypeOK, BufferInv
<1>2. /\ r.n \in Nat /\ bufLen + r.n <= BufCap /\ fed + r.n <= Len(data)
      /\ r.err = "eof" => fed + r.n = Len(data)
  BY ReadsType
<1>3. /\ buf' = Stored(r) /\ bufLen' = bufLen + r.n /\ fed' = fed + r.n
      /\ UNCHANGED << bufBase, needEnd >>
  BY DEF Take
<1>4. \A i \in 1 .. bufLen + r.n : Stored(r)[i] = data[bufBase + i]
  <2> SUFFICES ASSUME NEW i \in 1 .. bufLen + r.n
               PROVE  Stored(r)[i] = data[bufBase + i]
    OBVIOUS
  <2>1. i \in 1 .. BufCap
    BY <1>1, <1>2, BufCapType
  <2>2. CASE i <= bufLen
    <3>1. i \in 1 .. bufLen /\ i \notin bufLen + 1 .. bufLen + r.n
      BY <1>1, <1>2, <2>2
    <3> QED BY <1>1, <2>1, <3>1 DEF Stored, Mirrors
  <2>3. CASE i > bufLen
    <3>1. i \in bufLen + 1 .. bufLen + r.n /\ fed + i - bufLen = bufBase + i
      BY <1>1, <1>2, <2>3
    <3> QED BY <2>1, <3>1 DEF Stored
  <2> QED BY <1>1, <2>2, <2>3
<1>5. Mirrors(buf', bufLen', data, bufBase)
  BY <1>1, <1>2, <1>3, <1>4 DEF Mirrors
<1> QED BY <1>1, <1>2, <1>3, <1>5, SMTT(30)

\* A Read leaves what was sent where it was.
LEMMA TakeBufferInv ==
  ASSUME ReaderTypeOK, BufferInv, Reading, NEW r \in Reads, Take(r),
         UNCHANGED << data, fileSize, basis, checksums, offset, lastMatch, results >>
  PROVE  BufferInv' /\ Source' = Source
<1>1. /\ checksums # << >> /\ BlockSize <= fileSize
      /\ fed = bufBase + bufLen
      /\ bufBase <= lastMatch /\ lastMatch <= offset
      /\ lastMatch <= fed /\ lastMatch <= fileSize
      /\ Rebuilds(basis, Source, results, lastMatch)
      /\ lastMatch \in Nat /\ fed \in Nat
  BY DEF BufferInv, ReaderTypeOK
<1>2. /\ bufLen' <= BufCap /\ fed' = bufBase' + bufLen' /\ fed' \in Nat /\ fed <= fed'
      /\ Mirrors(buf', bufLen', data', bufBase') /\ UNCHANGED bufBase
  BY TakeMirrors
<1>3. Source' = Source
  BY DEF Source
<1>4. lastMatch <= fed'
  BY <1>1, <1>2
<1> QED BY <1>1, <1>2, <1>3, <1>4 DEF BufferInv

LEMMA ReadMoreStep ==
  ASSUME ReaderInv, ReadMore
  PROVE  ReaderInv' /\ UNCHANGED << pc, outcome, basis, data, fileSize, results >>
<1>1. ReaderTypeOK /\ TableInv /\ BufferInv /\ Reading /\ pc \in {"fill", "slide"}
  BY DEF ReaderInv, ReadMore, Reading, Filling, Looping
<1>2. PICK r \in Reads : Take(r)
  BY DEF ReadMore
<1>3. /\ UNCHANGED << pc, calls, engineVars, searchVars >>
      /\ UNCHANGED << fileSize, bufEnd, checkVars, outcome >>
  BY DEF ReadMore
<1>4. UNCHANGED << data, fileSize, basis, checksums, offset, lastMatch, results >>
  BY <1>3 DEF engineVars, searchVars
<1>5. BufferInv'
  BY <1>1, <1>2, <1>4, TakeBufferInv
<1>6. bufLen' \in Nat /\ fed' \in Nat /\ fed <= fed' /\ UNCHANGED << bufBase, needEnd >>
  BY <1>1, <1>2, <1>4, TakeMirrors
<1>7. ReaderTypeOK' /\ TableInv'
  BY <1>1, <1>3, <1>6, TableKept DEF ReaderTypeOK, engineVars, searchVars, checkVars
<1>8. CallInv' /\ LiteralsInv'
  BY <1>1, <1>3 DEF ReaderInv, CallInv, EngineRuns, LiteralsInv, Reading, Filling, Looping
<1>9. FillInv'
  BY <1>3, <1>4, <1>6 DEF ReaderInv, FillInv, Filling
<1>10. AheadInv' /\ SumInv'
  <2>1. fed \in Nat /\ Least(nextBufCheck + BlockSize, fileSize) \in Int
    BY <1>1, BlockSizeAssumption DEF ReaderTypeOK, Least
  <2>2. Least(nextBufCheck + BlockSize, fileSize) <= fed =>
          Least(nextBufCheck + BlockSize, fileSize) <= fed'
    BY <2>1, <1>6
  <2>3. AheadInv'
    BY <1>1, <1>3, <1>4, <1>6, <2>2
       DEF ReaderInv, AheadInv, Looping, SlideEnd, checkVars, searchVars
  <2>4. offset + BlockSize <= fed => offset + BlockSize <= fed'
    BY <1>1, <1>6, BlockSizeAssumption DEF ReaderTypeOK
  <2>5. SumInv'
    BY <1>3, <1>4, <2>4 DEF ReaderInv, SumInv, Looping, checkVars, searchVars
  <2> QED BY <2>3, <2>5
<1> QED BY <1>3, <1>4, <1>5, <1>7, <1>8, <1>9, <1>10 DEF ReaderInv

-----------------------------------------------------------------------------
(* The initial fill *)

LEMMA FillFailStep ==
  ASSUME ReaderInv, FillFail
  PROVE  ReaderInv' /\ Delivers
<1>1. /\ ReaderTypeOK /\ TableInv /\ BufferInv /\ Reading
      /\ lastMatch = 0 /\ Rebuilds(basis, Source, results, 0) /\ 0 \in 0 .. Len(Source)
  BY SourceType DEF ReaderInv, FillFail, Reading, Filling, BufferInv, FillInv
<1>2. PICK r \in Reads : r.err # "nil" /\ Take(r) /\ pc' = "returned" /\ outcome' = r.err
  BY DEF FillFail
<1>3. UNCHANGED << calls, engineVars, searchVars, fileSize, bufEnd, checkVars >>
  BY DEF FillFail
<1>4. bufLen' \in Nat /\ fed' \in Nat /\ UNCHANGED << bufBase, needEnd >>
  BY <1>1, <1>2, <1>3, TakeMirrors DEF searchVars
<1>5. outcome' # "batch" /\ outcome' # "nil"
  BY <1>1, <1>2, ReadsType
<1>6. Delivers
  BY <1>1, <1>3, <1>5, SendsNothing DEF searchVars
<1>7. ReaderTypeOK' /\ TableInv'
  BY <1>1, <1>2, <1>3, <1>4, TableKept DEF ReaderTypeOK, engineVars, searchVars, checkVars
<1> QED BY <1>2, <1>5, <1>6, <1>7, Returned

\* A source shorter than a block is all in the buffer when its end is met.
LEMMA FillShortStep ==
  ASSUME ReaderInv, FillShort
  PROVE  ReaderInv' /\ Delivers
<1>1. /\ ReaderTypeOK /\ TableInv /\ BufferInv /\ Reading
      /\ bufBase = 0 /\ results = << >> /\ BlockSize <= fileSize
  BY DEF ReaderInv, FillShort, Reading, Filling, BufferInv, FillInv
<1> DEFINE d == Slice(buf', 0, bufLen')
           t == << Literal(d, 0) >>
<1>2. PICK r \in Reads :
        /\ r.err = "eof" /\ bufLen + r.n \in 1 .. BlockSize - 1
        /\ Take(r)
        /\ \E h \in Handed(t) : results' = t /\ Return(h, "nil")
  BY DEF FillShort
<1>3. PICK h \in Handed(t) : results' = t /\ Return(h, "nil")
  BY <1>2
<1>4. /\ UNCHANGED << calls, engineVars, data, rolling, offset, lastMatch, wantIdx, stats, before >>
      /\ UNCHANGED << fileSize, bufEnd, checkVars >>
  BY DEF FillShort
<1> DEFINE n == Len(data)
<1>5. /\ bufLen' = n /\ n \in Nat /\ n < BlockSize /\ fed' \in Nat
      /\ Mirrors(buf', n, data, 0) /\ UNCHANGED << bufBase, needEnd >>
  <2>1. /\ bufLen' = bufLen + r.n /\ bufLen' \in Nat /\ fed' = bufBase + bufLen'
        /\ fed' \in Nat /\ Mirrors(buf', bufLen', data, bufBase)
        /\ UNCHANGED << bufBase, needEnd >> /\ fed' = n
    BY <1>1, <1>2, <1>4, TakeMirrors
  <2>2. bufLen' = n
    BY <1>1, <2>1
  <2>3. n < BlockSize
    BY <1>2, <2>1, <2>2, BlockSizeAssumption
  <2> QED BY <1>1, <2>1, <2>2, <2>3
<1>6. Source \in Seq(Byte) /\ Len(Source) = n /\ data \in Seq(Byte)
  BY <1>1, <1>5, SourceType, BlockSizeAssumption DEF ReaderTypeOK, Least
<1>7. d \in Seq(Byte) /\ Len(d) = n /\ d = Slice(Source, 0, n)
  <2>1. 0 \in Nat /\ n \in Nat /\ 0 <= n /\ n <= 0 + n /\ n <= Len(data) /\ n <= Len(Source)
        /\ 0 - 0 = 0 /\ n - 0 = n
    BY <1>5, <1>6
  <2>2. d = Slice(buf', 0, n)
    BY <1>5
  <2> HIDE DEF n, d
  <2>3. Shown(buf', 0, 0, n) = Slice(data, 0, n)
    BY <1>5, <1>6, <2>1, MirrorSlice
  <2>4. Slice(data, 0, n) \in Seq(Byte) /\ Len(Slice(data, 0, n)) = n - 0
    BY <1>6, <2>1, SliceType, ZenonT(60)
  <2>5. Slice(Source, 0, n) = Slice(data, 0, n)
    BY <1>1, <2>1, SourceSlice
  <2> QED BY <2>1, <2>2, <2>3, <2>4, <2>5 DEF Shown
<1>8. t \in Seq(Instruction) /\ Rebuilds(basis, Source, t, n)
  <2> HIDE DEF d
  <2>1. Literal(d, 0) \in Instruction
    BY <1>7 DEF Literal, Instruction
  <2>2. Apply(basis, Literal(d, 0)) = d /\ Literal(d, 0).offset = 0
    BY DEF Apply, Literal
  <2>3. EndOf(basis, Literal(d, 0)) = n
    BY <1>5, <1>7, <2>2 DEF EndOf
  <2>4. EndOf(basis, Literal(d, 0)) <= Len(Source)
    BY <1>5, <1>6, <2>3
  <2>5. Apply(basis, Literal(d, 0))
          = Slice(Source, Literal(d, 0).offset, EndOf(basis, Literal(d, 0)))
    BY <1>7, <2>2, <2>3
  <2>6. Covers(basis, Source, << Literal(d, 0) >>,
               Literal(d, 0).offset, EndOf(basis, Literal(d, 0)))
    BY <2>1, <2>4, <2>5, CoversOne
  <2>7. Covers(basis, Source, << Literal(d, 0) >>, 0, n)
    BY <2>2, <2>3, <2>6
  <2>8. << Literal(d, 0) >> \in Seq(Instruction)
    BY <2>1
  <2> QED BY <2>7, <2>8 DEF Rebuilds
<1>9. pc' = "returned" /\ outcome' \in {"nil", "callback"}
  BY <1>3 DEF Return
<1> HIDE DEF t
<1>10. Delivers
  <2>1. Len(results) = 0 /\ Len(results') \in Nat /\ results = SubSeq(results', 1, 0)
    <3>1. Len(<< >>) = 0 /\ SubSeq(results', 1, 0) = << >>
      BY EmptySeq, SubSeqEmpty
    <3> QED BY <1>1, <1>3, <1>8, <3>1, LenProperties
  <2>2. n \in 0 .. Len(Source)
    BY <1>5, <1>6
  <2> HIDE DEF n
  <2> QED BY <1>3, <1>6, <1>8, <1>9, <2>1, <2>2 DEF Delivers
<1>11. ReaderTypeOK' /\ TableInv'
  <2> HIDE DEF n
  <2> QED BY <1>1, <1>3, <1>4, <1>5, <1>8, <1>9, TableKept
          DEF ReaderTypeOK, engineVars, checkVars
<1> QED BY <1>9, <1>10, <1>11, Returned

\* The condition on the sources is used here and nowhere else: when the fill
\* ends well, a block beyond the first window is buffered.
LEMMA FillDoneStep ==
  ASSUME ReaderInv, FillDone
  PROVE  ReaderInv' /\ UNCHANGED << outcome, basis, data, fileSize, results >>
<1>1. /\ ReaderTypeOK /\ TableInv /\ BufferInv /\ Reading
      /\ bufBase = 0 /\ offset = 0 /\ lastMatch = 0
      /\ needEnd = Least(2 * BlockSize, fileSize) /\ EndsWell(data, fileSize)
      /\ checksums # << >> /\ BlockSize <= fileSize /\ outcome = "none"
      /\ data \in Seq(Byte) /\ Len(data) \in Nat /\ fileSize \in Nat
      /\ BlockSize \in Nat \ {0}
  BY LenProperties, BlockSizeAssumption
     DEF ReaderInv, FillDone, Reading, Filling, BufferInv, FillInv, CallInv, ReaderTypeOK
<1>2. PICK r \in Reads :
        /\ r.err = "eof" \/ (r.err = "nil" /\ Satisfied(r))
        /\ bufLen + r.n >= BlockSize
        /\ Take(r)
  BY DEF FillDone
<1>3. /\ rolling' = Reset(Slice(buf', 0, BlockSize))
      /\ needReset' = FALSE /\ bufEnd' = bufBase + bufLen'
      /\ nextBufCheck' = BlockSize /\ nextLiteralCheck' = ChunkSize
      /\ pc' = "stream"
      /\ UNCHANGED << calls, engineVars, data, offset, lastMatch, wantIdx, results, stats, before >>
      /\ UNCHANGED << fileSize, outcome >>
  BY DEF FillDone
<1>4. UNCHANGED << data, fileSize, basis, checksums, offset, lastMatch, results >>
  BY <1>3 DEF engineVars
<1>5. BufferInv'
  BY <1>1, <1>2, <1>4, TakeBufferInv
<1>6. /\ bufLen' = bufLen + r.n /\ bufLen' \in Nat /\ fed' = bufLen' /\ fed' <= Len(data)
      /\ Mirrors(buf', bufLen', data, 0) /\ UNCHANGED << bufBase, needEnd >>
      /\ r.err = "eof" => fed' = Len(data)
  <2>1. /\ bufLen' = bufLen + r.n /\ bufLen' \in Nat /\ fed' = bufBase + bufLen'
        /\ fed' \in Nat /\ fed' <= Len(data)
        /\ Mirrors(buf', bufLen', data, bufBase) /\ UNCHANGED << bufBase, needEnd >>
        /\ r.err = "eof" => fed' = Len(data)
    BY <1>1, <1>2, <1>3, TakeMirrors
  <2> QED BY <1>1, <2>1
<1>7. BlockSize <= fed' /\ Least(2 * BlockSize, fileSize) <= fed'
  <2>1. BlockSize <= fed'
    BY <1>2, <1>6
  <2>2. CASE r.err = "eof"
    BY <1>1, <1>6, <2>1, <2>2 DEF EndsWell, Least
  <2>3. CASE r.err = "nil" /\ Satisfied(r)
    <3>1. r.n \in Nat /\ bufLen \in Nat
      BY <1>1, <1>2, ReadsType DEF ReaderTypeOK
    <3>2. bufBase + bufLen + r.n >= needEnd
      BY <2>3 DEF Satisfied
    <3> QED BY <1>1, <1>6, <2>1, <3>1, <3>2
  <2> QED BY <1>2, <2>1, <2>2, <2>3
<1>8. rolling' = Reset(Slice(data, 0, BlockSize)) /\ rolling' \in RollingState
  <2>1. 0 \in Nat /\ 0 <= BlockSize /\ BlockSize <= 0 + bufLen' /\ BlockSize <= Len(data)
        /\ 0 - 0 = 0 /\ BlockSize - 0 = BlockSize
    BY <1>1, <1>6, <1>7
  <2>2. Shown(buf', 0, 0, BlockSize) = Slice(data, 0, BlockSize)
    BY <1>1, <1>6, <2>1, MirrorSlice
  <2>3. Slice(data, 0, BlockSize) \in Seq(Byte)
    BY <1>1, <2>1, SliceType, ZenonT(60)
  <2>4. Slice(buf', 0, BlockSize) = Slice(data, 0, BlockSize)
    BY <2>1, <2>2 DEF Shown
  <2> QED BY <1>3, <2>3, <2>4, BytesAreNaturals, ResetType
<1>9. ReaderTypeOK' /\ TableInv'
  <2>1. /\ fed' \in Nat /\ bufEnd' \in Nat /\ nextBufCheck' \in Nat
        /\ nextLiteralCheck' \in Nat /\ bufLen' \in Nat
    BY <1>1, <1>3, <1>6, ChunkSizeAssumption
  <2>2. needReset' \in BOOLEAN
    BY <1>3
  <2>3. TableInv'
    BY <1>1, <1>3, TableKept
  <2> QED BY <1>1, <1>3, <1>6, <1>8, <2>1, <2>2, <2>3 DEF ReaderTypeOK, engineVars
<1>10. CallInv' /\ LiteralsInv' /\ FillInv'
  BY <1>1, <1>3 DEF CallInv, EngineRuns, LiteralsInv, FillInv, Reading, Filling, Looping
<1>11. AheadInv'
  <2>1. BlockSize + BlockSize = 2 * BlockSize /\ 0 + BlockSize = BlockSize
        /\ 0 + ChunkSize = ChunkSize /\ bufEnd' = fed'
    BY <1>1, <1>3, <1>6, ChunkSizeAssumption
  <2> QED BY <1>1, <1>3, <1>7, <2>1 DEF AheadInv
<1>12. SumInv'
  <2>1. 0 + BlockSize = BlockSize
    BY <1>1
  <2> QED BY <1>1, <1>3, <1>7, <1>8, <2>1 DEF SumInv
<1> QED BY <1>3, <1>4, <1>5, <1>9, <1>10, <1>11, <1>12 DEF ReaderInv

-----------------------------------------------------------------------------
(* The refills *)

LEMMA SlideStep ==
  ASSUME ReaderInv, Slide
  PROVE  ReaderInv' /\ UNCHANGED << outcome, basis, data, fileSize, results >>
<1>1. /\ ReaderTypeOK /\ TableInv /\ BufferInv /\ AheadInv /\ SumInv
      /\ pc = "stream" /\ Reading /\ Looping /\ outcome = "none"
      /\ offset + BlockSize <= fileSize /\ nextBufCheck <= offset
      /\ bufBase \in Nat /\ bufLen \in Nat /\ lastMatch \in Nat /\ fed \in Nat
      /\ fed = bufBase + bufLen /\ bufBase <= lastMatch /\ lastMatch <= fed
      /\ bufLen <= BufCap /\ Mirrors(buf, bufLen, data, bufBase)
  BY DEF ReaderInv, ReaderTypeOK, BufferInv, Slide, Scanning, SlideNeeded, Reading, Looping,
         CallInv
<1> DEFINE shift == lastMatch - bufBase
<1>2. /\ IF shift <= 0 THEN UNCHANGED << buf, bufBase, bufLen >>
         ELSE /\ bufBase' = lastMatch
              /\ bufLen' = Most(bufLen - shift, 0)
              /\ buf' = ShiftedBuf(shift)
      /\ needEnd' = SlideEnd /\ pc' = "slide"
      /\ UNCHANGED << calls, engineVars, searchVars, fileSize, bufEnd, fed, checkVars, outcome >>
  BY DEF Slide
<1>3. /\ bufBase' \in Nat /\ bufLen' \in Nat /\ bufLen' <= BufCap
      /\ bufBase' <= lastMatch /\ fed = bufBase' + bufLen'
      /\ Mirrors(buf', bufLen', data, bufBase')
  <2>1. CASE shift <= 0
    BY <1>1, <1>2, <2>1
  <2>2. CASE ~ (shift <= 0)
    <3>1. /\ bufBase' = lastMatch /\ bufLen' = bufLen - shift /\ buf' = ShiftedBuf(shift)
          /\ bufLen' \in Nat /\ shift \in Nat /\ bufBase' + bufLen' = bufBase + bufLen
          /\ bufBase + shift = bufBase'
      BY <1>1, <1>2, <2>2 DEF Most
    <3> HIDE DEF shift
    <3>2. ASSUME NEW i \in 1 .. bufLen'
          PROVE  buf'[i] = data[bufBase' + i]
      <4>1. /\ i \in 1 .. BufCap /\ i + shift <= bufLen /\ i + shift \in 1 .. bufLen
            /\ bufBase + (i + shift) = bufBase' + i
        BY <1>1, <3>1, BufCapType
      <4>2. buf'[i] = buf[i + shift]
        BY <3>1, <4>1 DEF ShiftedBuf
      <4> QED BY <1>1, <4>1, <4>2 DEF Mirrors
    <3>3. bufLen' <= BufCap
      BY <1>1, <3>1, BufCapType
    <3>4. Mirrors(buf', bufLen', data, bufBase')
      BY <1>1, <3>1, <3>2 DEF Mirrors
    <3> QED BY <1>1, <3>1, <3>3, <3>4
  <2> QED BY <2>1, <2>2
<1> HIDE DEF shift
<1>4. SlideEnd \in Nat /\ SlideEnd' = SlideEnd
  BY <1>1, <1>2, BlockSizeAssumption DEF SlideEnd, Least, ReaderTypeOK, searchVars
<1>5. ReaderTypeOK' /\ TableInv'
  BY <1>1, <1>2, <1>3, <1>4, TableKept DEF ReaderTypeOK, engineVars, searchVars, checkVars
<1>6. CallInv' /\ LiteralsInv' /\ FillInv'
  BY <1>1, <1>2 DEF CallInv, EngineRuns, LiteralsInv, FillInv, Reading, Filling, Looping
<1>7. BufferInv'
  BY <1>1, <1>2, <1>3 DEF BufferInv, Source, engineVars, searchVars
<1>8. AheadInv' /\ SumInv'
  BY <1>1, <1>2, <1>4 DEF AheadInv, SumInv, searchVars, checkVars
<1> QED BY <1>2, <1>5, <1>6, <1>7, <1>8 DEF ReaderInv, engineVars, searchVars

LEMMA SlideDoneStep ==
  ASSUME ReaderInv, SlideDone
  PROVE  ReaderInv' /\ UNCHANGED << outcome, basis, data, fileSize, results >>
<1>1. /\ ReaderTypeOK /\ TableInv /\ BufferInv /\ AheadInv /\ SumInv
      /\ pc = "slide" /\ Reading /\ Looping /\ outcome = "none" /\ fed \in Nat
  BY DEF ReaderInv, ReaderTypeOK, SlideDone, Reading, Looping, CallInv
<1>2. PICK r \in Reads : Take(r)
  BY DEF SlideDone
<1>3. /\ bufEnd' = bufBase + bufLen' /\ pc' = "stream"
      /\ UNCHANGED << calls, engineVars, searchVars, fileSize, checkVars, outcome >>
  BY DEF SlideDone
<1>4. UNCHANGED << data, fileSize, basis, checksums, offset, lastMatch, results >>
  BY <1>3 DEF engineVars, searchVars
<1>5. BufferInv'
  BY <1>1, <1>2, <1>4, TakeBufferInv
<1>6. /\ bufLen' \in Nat /\ fed' \in Nat /\ fed <= fed' /\ fed' = bufBase + bufLen'
      /\ UNCHANGED << bufBase, needEnd >>
  BY <1>1, <1>2, <1>4, TakeMirrors
<1>7. ReaderTypeOK' /\ TableInv'
  <2>1. bufEnd' \in Nat
    BY <1>3, <1>6
  <2> QED BY <1>1, <1>3, <1>6, <2>1, TableKept
          DEF ReaderTypeOK, engineVars, searchVars, checkVars
<1>8. CallInv' /\ LiteralsInv' /\ FillInv'
  BY <1>1, <1>3 DEF CallInv, EngineRuns, LiteralsInv, FillInv, Reading, Filling, Looping
<1>9. AheadInv' /\ SumInv'
  <2>1. Least(nextBufCheck + BlockSize, fileSize) \in Int /\ offset + BlockSize \in Int
    BY <1>1, BlockSizeAssumption DEF ReaderTypeOK, Least
  <2>2. /\ Least(nextBufCheck + BlockSize, fileSize) <= fed'
        /\ offset + BlockSize <= fed => offset + BlockSize <= fed'
    BY <1>1, <1>6, <2>1 DEF AheadInv
  <2>3. AheadInv'
    BY <1>1, <1>3, <1>6, <2>2 DEF AheadInv, searchVars, checkVars
  <2>4. SumInv'
    BY <1>1, <1>3, <2>2 DEF SumInv, searchVars, checkVars
  <2> QED BY <2>3, <2>4
<1> QED BY <1>3, <1>4, <1>5, <1>7, <1>8, <1>9 DEF ReaderInv

\* flushRemaining sends what is buffered and belongs to the source.
LEMMA RemainingCovers ==
  ASSUME ReaderTypeOK, NEW g, NEW n \in Nat, Mirrors(g, n, data, bufBase),
         bufBase <= lastMatch, lastMatch <= bufBase + n, lastMatch <= fileSize
  PROVE  /\ Remaining(g, n) \in Seq(Instruction)
         /\ Covers(basis, Source, Remaining(g, n), lastMatch, Least(bufBase + n, fileSize))
         /\ lastMatch \in 0 .. Len(Source)
         /\ bufBase + n >= Least(fileSize, Len(data)) =>
              Least(bufBase + n, fileSize) = Len(Source)
<1> DEFINE end == Least(bufBase + n, fileSize)
<1>1. /\ data \in Seq(Byte) /\ Len(data) \in Nat /\ bufBase \in Nat /\ lastMatch \in Nat
      /\ fileSize \in Nat /\ bufBase + n <= Len(data)
      /\ Source \in Seq(Byte) /\ Len(Source) = Least(fileSize, Len(data))
  BY SourceType, LenProperties DEF ReaderTypeOK, Mirrors
<1>2. /\ end \in Nat /\ lastMatch <= end /\ end <= bufBase + n /\ end <= Len(Source)
      /\ end <= Len(data) /\ lastMatch \in 0 .. Len(Source)
      /\ bufBase + n >= Least(fileSize, Len(data)) => end = Len(Source)
  BY <1>1 DEF Least
<1>3. Remaining(g, n) = IF lastMatch >= end THEN << >>
                        ELSE Chunks(Shown(g, bufBase, lastMatch, end), lastMatch)
  BY DEF Remaining, Shown
<1> HIDE DEF end
<1>4. CASE lastMatch >= end
  <2>1. Remaining(g, n) = << >> /\ lastMatch = end
    BY <1>1, <1>2, <1>3, <1>4
  <2> QED BY <1>2, <2>1, CoversNone, EmptySeq DEF end
<1>5. CASE ~ (lastMatch >= end)
  <2>1. Shown(g, bufBase, lastMatch, end) = Slice(data, lastMatch, end)
    BY <1>1, <1>2, MirrorSlice
  <2>2. Slice(Source, lastMatch, end) = Slice(data, lastMatch, end)
    BY <1>1, <1>2, SourceSlice
  <2>3. Remaining(g, n) = Chunks(Slice(Source, lastMatch, end), lastMatch)
    BY <1>3, <1>5, <2>1, <2>2
  <2>4. /\ Remaining(g, n) \in Seq(Instruction)
        /\ Covers(basis, Source, Remaining(g, n), lastMatch, end)
    BY <1>1, <1>2, <2>3, ChunksCover
  <2> QED BY <1>2, <2>4 DEF end
<1> QED BY <1>4, <1>5

LEMMA SlideFailStep ==
  ASSUME ReaderInv, SlideFail
  PROVE  ReaderInv' /\ Delivers
<1>1. /\ ReaderTypeOK /\ TableInv /\ BufferInv /\ Reading /\ fed \in Nat
      /\ lastMatch <= fed /\ lastMatch <= fileSize /\ bufBase <= lastMatch
      /\ Rebuilds(basis, Source, results, lastMatch)
  BY DEF ReaderInv, ReaderTypeOK, SlideFail, Reading, Looping, BufferInv
<1>2. PICK r \in Reads :
        /\ r.err # "nil" /\ Take(r)
        /\ \E h \in Handed(Remaining(buf', bufLen')) :
             /\ Give(Remaining(buf', bufLen'), h)
             /\ Return(h, Hidden(r.err))
  BY DEF SlideFail
<1>3. /\ UNCHANGED << calls, engineVars, data, rolling, offset, lastMatch, wantIdx, before >>
      /\ UNCHANGED << fileSize, bufEnd, checkVars >>
  BY DEF SlideFail
<1>4. /\ bufLen' \in Nat /\ fed' = bufBase + bufLen' /\ fed' \in Nat /\ fed <= fed'
      /\ Mirrors(buf', bufLen', data, bufBase)
      /\ UNCHANGED << bufBase, needEnd >>
      /\ r.err = "eof" => fed' = Len(data)
  BY <1>1, <1>2, <1>3, TakeMirrors
<1> DEFINE t == Remaining(buf', bufLen')
           hi == Least(bufBase + bufLen', fileSize)
<1>5. /\ t \in Seq(Instruction) /\ Covers(basis, Source, t, lastMatch, hi)
      /\ lastMatch \in 0 .. Len(Source)
      /\ bufBase + bufLen' >= Least(fileSize, Len(data)) => hi = Len(Source)
  <2>0. lastMatch \in Nat /\ fed \in Nat /\ fed' \in Nat
    BY <1>1, <1>4 DEF ReaderTypeOK
  <2>1. lastMatch <= bufBase + bufLen'
    BY <1>1, <1>4, <2>0
  <2> QED BY <1>1, <1>4, <2>1, RemainingCovers
<1>6. PICK h \in Handed(t) :
        /\ results' = results \o SubSeq(t, 1, h.given) /\ stats' = GivenStats(t, h)
        /\ Return(h, Hidden(r.err))
  BY <1>2 DEF Give
<1> HIDE DEF t, hi
<1>7. Hidden(r.err) \in {"nil", "io", "short"} /\ (Hidden(r.err) = "nil" => r.err = "eof")
  BY <1>1, <1>2, ReadsType DEF Hidden
<1>8. Hidden(r.err) = "nil" => hi = Len(Source)
  <2>1. Len(data) \in Nat /\ fileSize \in Nat /\ Len(data) >= Least(fileSize, Len(data))
    BY <1>1, LenProperties DEF ReaderTypeOK, Least
  <2> QED BY <1>4, <1>5, <1>7, <2>1
<1>9. Delivers /\ pc' = "returned" /\ outcome' # "batch"
  BY <1>1, <1>5, <1>6, <1>7, <1>8, SendsLast
<1>10. ReaderTypeOK' /\ TableInv'
  <2>1. stats' \in Stats
    BY <1>1, <1>5, <1>6, GivenStatsType DEF ReaderTypeOK
  <2> QED BY <1>1, <1>3, <1>4, <1>9, <2>1, TableKept
          DEF ReaderTypeOK, engineVars, checkVars, Delivers
<1> QED BY <1>9, <1>10, Returned

-----------------------------------------------------------------------------
(* The scan *)

\* At the head of the loop, once the buffer has been looked at: the window is
\* buffered, so is a byte beyond it, and the sum is that of the window.
LEMMA StreamHead ==
  ASSUME ReaderInv, Scanning, ~ SlideNeeded
  PROVE  /\ offset + BlockSize <= fed /\ offset + BlockSize <= Len(Source)
         /\ Least(offset + BlockSize + 1, fileSize) <= fed
         /\ needReset \/ offset >= nextBufCheck =>
              Least(offset + 2 * BlockSize, fileSize) <= fed
         /\ StreamWindow = Slice(data, offset, offset + BlockSize)
         /\ StreamWindow = Slice(Source, offset, offset + BlockSize)
         /\ StreamWindow \in Seq(Byte) /\ Len(StreamWindow) = BlockSize
         /\ CurrentSum = Reset(StreamWindow) /\ CurrentSum \in RollingState
         /\ Value(CurrentSum) \in Nat
<1> DEFINE e == offset + BlockSize
<1>1. /\ ReaderTypeOK /\ BufferInv /\ Reading /\ Looping /\ pc = "stream"
      /\ data \in Seq(Byte) /\ Len(data) \in Nat /\ BlockSize \in Nat \ {0}
      /\ offset \in Nat /\ nextBufCheck \in Nat /\ fed \in Nat /\ fileSize \in Nat
      /\ bufBase \in Nat /\ bufBase <= offset /\ fed <= Len(data)
      /\ lastMatch \in Nat
  BY LenProperties, BlockSizeAssumption
     DEF ReaderInv, ReaderTypeOK, BufferInv, Scanning, Reading, Looping, Mirrors
<1>2. /\ e <= fileSize /\ (offset >= nextBufCheck => bufEnd >= SlideEnd)
      /\ Least(nextBufCheck + BlockSize, fileSize) <= fed
      /\ needReset => nextBufCheck <= offset
      /\ bufEnd = fed /\ SlideEnd = Least(offset + 2 * BlockSize, fileSize)
  <2>1. bufEnd \in Nat /\ SlideEnd \in Nat
    BY <1>1 DEF ReaderTypeOK, SlideEnd, Least
  <2> QED BY <1>1, <2>1 DEF ReaderInv, AheadInv, Scanning, SlideNeeded, SlideEnd
<1>3. /\ needReset \/ offset >= nextBufCheck =>
           Least(offset + 2 * BlockSize, fileSize) <= fed
      /\ Least(offset + BlockSize + 1, fileSize) <= fed /\ e <= fed
  <2>1. CASE offset >= nextBufCheck
    BY <1>1, <1>2, <2>1 DEF Least
  <2>2. CASE ~ (offset >= nextBufCheck)
    BY <1>1, <1>2, <2>2 DEF Least
  <2> QED BY <2>1, <2>2
<1>4. /\ e \in Nat /\ offset <= e /\ e <= Len(data) /\ e <= Len(Source) /\ e - offset = BlockSize
  BY <1>1, <1>2, <1>3, SourceType DEF Least
<1>5. StreamWindow = Buffered(offset, e) /\ StreamWindow = Buffered(offset, offset + BlockSize)
  BY DEF StreamWindow
<1>6. SumInv /\ (~ needReset => rolling = Reset(Slice(data, offset, e)))
  BY <1>1, <1>2 DEF ReaderInv, SumInv
<1> HIDE DEF e
<1>7. /\ Buffered(offset, e) = Slice(data, offset, e)
      /\ Slice(Source, offset, e) = Slice(data, offset, e)
  BY <1>1, <1>3, <1>4, BufferedIs, SourceSlice
<1>8. Slice(data, offset, e) \in Seq(Byte) /\ Len(Slice(data, offset, e)) = e - offset
  BY <1>1, <1>4, SliceType, ZenonT(60)
<1>9. CurrentSum = Reset(StreamWindow)
  BY <1>5, <1>6, <1>7 DEF CurrentSum
<1>10. CurrentSum \in RollingState /\ Value(CurrentSum) \in Nat
  BY <1>5, <1>7, <1>8, <1>9, BytesAreNaturals, ResetType, ValueType
<1> QED BY <1>3, <1>4, <1>5, <1>7, <1>8, <1>9, <1>10 DEF e

\* What is buffered and not yet sent, as literals up to hi.
LEMMA LiteralsCover ==
  ASSUME ReaderInv, Reading, NEW hi \in Nat, lastMatch <= hi, hi <= fed, hi <= Len(Source)
  PROVE  /\ Chunks(Buffered(lastMatch, hi), lastMatch) \in Seq(Instruction)
         /\ Covers(basis, Source, Chunks(Buffered(lastMatch, hi), lastMatch), lastMatch, hi)
         /\ lastMatch \in 0 .. Len(Source)
<1>1. /\ ReaderTypeOK /\ BufferInv /\ lastMatch \in Nat /\ bufBase <= lastMatch
      /\ Source \in Seq(Byte) /\ Len(Source) \in Nat
  BY SourceType DEF ReaderInv, ReaderTypeOK, BufferInv
<1>2. Buffered(lastMatch, hi) = Slice(Source, lastMatch, hi)
  BY <1>1, BufferedIs, SourceSlice
<1>3. lastMatch \in 0 .. Len(Source)
  BY <1>1
<1> QED BY <1>1, <1>2, <1>3, ChunksCover

LEMMA StreamMatchStep ==
  ASSUME ReaderInv, StreamMatch
  PROVE  ReaderInv' /\ Delivers
<1> DEFINE e == offset + BlockSize
           v == Value(CurrentSum)
           w == StreamWindow
           literals == Chunks(Buffered(lastMatch, offset), lastMatch)
<1>1. /\ Scanning /\ ~ SlideNeeded /\ Reading /\ Looping /\ pc = "stream"
      /\ ReaderTypeOK /\ TableInv /\ BufferInv /\ AheadInv /\ outcome = "none"
      /\ checksums # << >> /\ basis \in Seq(Byte) /\ TableType
      /\ nextBufCheck' = IF needReset \/ offset >= nextBufCheck
                         THEN offset + BlockSize ELSE nextBufCheck
  BY DEF StreamMatch, WindowChecked, Scanning, ReaderInv, BufferInv, CallInv, Reading,
         Looping, ReaderTypeOK, TableType
<1>2. /\ e <= fed /\ e <= Len(Source) /\ w = Slice(Source, offset, e)
      /\ w \in Seq(Byte) /\ Len(w) = BlockSize /\ v \in Nat /\ CurrentSum \in RollingState
      /\ needReset \/ offset >= nextBufCheck =>
           Least(offset + 2 * BlockSize, fileSize) <= fed
  BY <1>1, StreamHead
<1>3. PICK k \in Compared(v) :
        /\ Agrees(v, w, k)
        /\ wantIdx' = Preferred(v, w, k) + 1
        /\ LET insts == Append(literals, Match(Preferred(v, w, k), offset))
           IN  \E h \in Handed(insts) :
                 /\ results' = results \o SubSeq(insts, 1, h.given)
                 /\ stats' = [GivenStats(insts, h) EXCEPT
                      !.hashHits = @ + HashHits(v),
                      !.falseAlarms = @ + Cardinality({j \in Compared(v) : j < k})]
                 /\ Continue(h, pc)
  BY DEF StreamMatch
<1> DEFINE i == Preferred(v, w, k)
           t == Append(literals, Match(i, offset))
<1>4. PICK h \in Handed(t) :
        /\ results' = results \o SubSeq(t, 1, h.given)
        /\ stats' = [GivenStats(t, h) EXCEPT
             !.hashHits = @ + HashHits(v),
             !.falseAlarms = @ + Cardinality({j \in Compared(v) : j < k})]
        /\ Continue(h, "stream")
  BY <1>1, <1>3
<1>5. /\ lastMatch' = e /\ offset' = e /\ nextLiteralCheck' = e + ChunkSize
      /\ needReset' = TRUE /\ rolling' = CurrentSum /\ wantIdx' = i + 1
      /\ UNCHANGED << calls, engineVars, data, before, fileSize, bufVars >>
  BY <1>3 DEF StreamMatch
<1>6. i \in Nat /\ Block(basis, i) = w
  <2> HIDE DEF v, w
  <2> QED BY <1>1, <1>2, <1>3, MatchedBlock
<1>7. /\ offset \in Nat /\ e \in Nat /\ e = offset + BlockSize /\ offset <= e
      /\ lastMatch \in Nat /\ lastMatch <= offset
      /\ fed \in Nat /\ fileSize \in Nat /\ bufBase \in Nat /\ bufBase <= lastMatch
      /\ Len(Source) \in Nat /\ Source \in Seq(Byte) /\ Len(Source) <= fileSize
      /\ BlockSize \in Nat \ {0} /\ nextBufCheck \in Nat
      /\ offset <= fed /\ offset <= Len(Source)
      /\ Rebuilds(basis, Source, results, lastMatch)
  BY <1>1, <1>2, SourceType, BlockSizeAssumption, SMTT(30) DEF ReaderTypeOK, BufferInv
<1> HIDE DEF e, v, w, i
<1>8. /\ t \in Seq(Instruction) /\ Covers(basis, Source, t, lastMatch, e)
      /\ lastMatch \in 0 .. Len(Source)
  <2>1. /\ literals \in Seq(Instruction) /\ Covers(basis, Source, literals, lastMatch, offset)
        /\ lastMatch \in 0 .. Len(Source)
    BY <1>1, <1>7, LiteralsCover
  <2>2. /\ Match(i, offset) \in Instruction
        /\ Covers(basis, Source, << Match(i, offset) >>, offset, e)
    BY <1>2, <1>6, <1>7, MatchCovers
  <2> DEFINE m == Match(i, offset)
  <2> HIDE DEF literals, m
  <2>3. << m >> \in Seq(Instruction) /\ t = literals \o << m >> /\ t \in Seq(Instruction)
    BY <2>1, <2>2, AppendIsConcat, AppendProperties DEF m
  <2>4. Covers(basis, Source, literals \o << m >>, lastMatch, e)
    BY <1>7, <2>1, <2>2, <2>3, CoversConcat DEF m
  <2> QED BY <2>1, <2>3, <2>4
<1> HIDE DEF t
<1>9. /\ Delivers
      /\ \/ pc' = "returned" /\ outcome' = "callback"
         \/ /\ pc' = "stream" /\ outcome' = outcome
            /\ Rebuilds(basis, Source, results', e)
  <2>1. "stream" # "returned"
    OBVIOUS
  <2> QED BY <1>1, <1>4, <1>7, <1>8, <2>1, SendsOn
<1>10. ReaderTypeOK' /\ TableInv'
  <2>1. stats' \in Stats
    <3>1. {j \in Compared(v) : j < k} \subseteq Compared(v) /\ stats \in Stats
      BY <1>1 DEF ReaderTypeOK
    <3> QED BY <1>4, <1>8, <3>1, ProbeStatsType
  <2>2. wantIdx' \in Nat /\ nextLiteralCheck' \in Nat /\ nextBufCheck' \in Nat
    BY <1>1, <1>5, <1>6, <1>7, ChunkSizeAssumption
  <2>3. needReset' \in BOOLEAN
    BY <1>5
  <2>4. results' \in Seq(Instruction) /\ pc' \in {"returned", "stream"}
    BY <1>9 DEF Delivers
  <2>5. TableInv'
    BY <1>1, <1>5, TableKept
  <2> QED BY <1>1, <1>2, <1>5, <1>7, <2>1, <2>2, <2>3, <2>4, <2>5
          DEF ReaderTypeOK, engineVars, bufVars
<1>11. CASE pc' = "returned" /\ outcome' = "callback"
  BY <1>9, <1>10, <1>11, Returned
<1>12. CASE pc' = "stream" /\ outcome' = outcome /\ Rebuilds(basis, Source, results', e)
  <2>1. CallInv' /\ LiteralsInv' /\ FillInv'
    BY <1>1, <1>12 DEF CallInv, EngineRuns, LiteralsInv, FillInv, Reading, Filling, Looping
  <2>2. BufferInv'
    <3>1. bufBase <= e /\ e <= fileSize
      BY <1>2, <1>7
    <3>2. /\ Source' = Source /\ basis' = basis /\ checksums' = checksums /\ data' = data
          /\ fileSize' = fileSize /\ buf' = buf /\ bufBase' = bufBase /\ bufLen' = bufLen
          /\ fed' = fed
      BY <1>5 DEF Source, engineVars, bufVars
    <3>3. /\ BlockSize <= fileSize /\ fed = bufBase + bufLen /\ bufLen <= BufCap
          /\ Mirrors(buf, bufLen, data, bufBase)
      BY <1>1 DEF BufferInv
    <3>4. lastMatch' <= offset'
      BY <1>5, <1>7
    <3> QED BY <1>1, <1>2, <1>5, <1>12, <3>1, <3>2, <3>3, <3>4 DEF BufferInv
  <2>3. /\ Least(nextBufCheck' + BlockSize, fileSize) <= fed
        /\ nextBufCheck' <= e
    <3>1. nextBufCheck <= offset + BlockSize /\ Least(nextBufCheck + BlockSize, fileSize) <= fed
      BY <1>1 DEF AheadInv
    <3>2. CASE needReset \/ offset >= nextBufCheck
      <4>1. nextBufCheck' = e /\ e + BlockSize = offset + 2 * BlockSize
        BY <1>1, <1>7, <3>2
      <4> QED BY <1>2, <1>7, <3>2, <4>1
    <3>3. CASE ~ (needReset \/ offset >= nextBufCheck)
      BY <1>1, <1>7, <3>1, <3>3
    <3> QED BY <3>2, <3>3
  <2>4. AheadInv'
    <3>1. nextBufCheck' <= e + BlockSize
      BY <1>1, <1>7, <2>3
    <3>2. bufEnd' = fed'
      BY <1>1, <1>5 DEF AheadInv, bufVars
    <3> QED BY <1>5, <1>12, <2>3, <3>1, <3>2 DEF AheadInv, bufVars
  <2>5. SumInv'
    BY <1>5 DEF SumInv
  <2> QED BY <1>9, <1>10, <2>1, <2>2, <2>4, <2>5 DEF ReaderInv
<1> QED BY <1>9, <1>11, <1>12

\* The sum rolled by a byte is that of the next window: the byte that leaves
\* and the one that enters are buffered.
LEMMA StreamRolled ==
  ASSUME ReaderInv, Scanning, ~ SlideNeeded, offset + BlockSize < fileSize
  PROVE  /\ offset + 1 + BlockSize <= fed
         /\ Roll(CurrentSum, buf[offset - bufBase + 1], NewByte, BlockSize)
              = Reset(Slice(data, offset + 1, offset + 1 + BlockSize))
<1> DEFINE e == offset + BlockSize
<1>1. /\ ReaderTypeOK /\ BufferInv /\ Reading /\ data \in Seq(Byte) /\ Len(data) \in Nat
      /\ BlockSize \in Nat \ {0} /\ offset \in Nat /\ fed \in Nat /\ fileSize \in Nat
      /\ bufBase \in Nat /\ bufLen \in Nat /\ bufBase <= offset /\ fed <= Len(data)
      /\ fed = bufBase + bufLen /\ lastMatch \in Nat
      /\ \A i \in 1 .. bufLen : buf[i] = data[bufBase + i]
  BY LenProperties, BlockSizeAssumption
     DEF ReaderInv, ReaderTypeOK, BufferInv, Scanning, Reading, Looping, Mirrors
<1>2. Least(e + 1, fileSize) <= fed /\ e < fileSize /\ e \in Nat
  BY <1>1, StreamHead
<1>3. e + 1 <= fed /\ e < Len(data)
  BY <1>1, <1>2 DEF Least
<1>4. /\ offset - bufBase + 1 \in 1 .. bufLen /\ bufBase + (offset - bufBase + 1) = offset + 1
      /\ offset - bufBase + BlockSize + 1 \in 1 .. bufLen
      /\ bufBase + (offset - bufBase + BlockSize + 1) = e + 1
      /\ offset + 1 + BlockSize = e + 1
  BY <1>1, <1>3
<1>5. buf[offset - bufBase + 1] = data[offset + 1] /\ NewByte = data[e + 1]
  BY <1>1, <1>4 DEF NewByte
<1>6. CurrentSum = Reset(Slice(data, offset, e))
  BY StreamHead
<1>7. e = offset + BlockSize
  OBVIOUS
<1> HIDE DEF e
<1>8. Roll(Reset(Slice(data, offset, e)), data[offset + 1], data[e + 1], BlockSize)
        = Reset(Slice(data, offset + 1, e + 1))
  BY <1>1, <1>2, <1>3, <1>7, RolledSum
<1> QED BY <1>3, <1>4, <1>5, <1>6, <1>8

LEMMA StreamMissStep ==
  ASSUME ReaderInv, StreamMiss
  PROVE  ReaderInv' /\ Delivers
<1> DEFINE e == offset + BlockSize
           late == offset >= nextLiteralCheck
           hi == IF late THEN lastMatch + ChunkSize ELSE lastMatch
           v == Value(CurrentSum)
           t == Backlog
<1>1. /\ Scanning /\ ~ SlideNeeded /\ Reading /\ Looping /\ pc = "stream"
      /\ ReaderTypeOK /\ TableInv /\ BufferInv /\ AheadInv /\ outcome = "none"
      /\ checksums # << >> /\ BlockSize <= fileSize
      /\ nextBufCheck' = IF needReset \/ offset >= nextBufCheck
                         THEN offset + BlockSize ELSE nextBufCheck
  BY DEF StreamMiss, WindowChecked, Scanning, ReaderInv, BufferInv, CallInv, Reading, Looping
<1>2. /\ e <= fed /\ e <= Len(Source) /\ CurrentSum \in RollingState
      /\ needReset \/ offset >= nextBufCheck =>
           Least(offset + 2 * BlockSize, fileSize) <= fed
  BY <1>1, StreamHead
<1>3. PICK h \in Handed(t) :
        /\ results' = results \o SubSeq(t, 1, h.given)
        /\ stats' = [GivenStats(t, h) EXCEPT
                       !.hashHits = @ + HashHits(v),
                       !.falseAlarms = @ + Cardinality(Compared(v))]
        /\ Continue(h, "stream")
  BY <1>1 DEF StreamMiss
<1>4. /\ lastMatch' = lastMatch + (IF late THEN ChunkSize ELSE 0)
      /\ nextLiteralCheck' = IF late THEN lastMatch' + ChunkSize ELSE nextLiteralCheck
      /\ rolling' = IF e < fileSize
                    THEN Roll(CurrentSum, buf[offset - bufBase + 1], NewByte, BlockSize)
                    ELSE CurrentSum
      /\ offset' = offset + 1 /\ needReset' = FALSE
      /\ UNCHANGED << calls, engineVars, data, wantIdx, before, fileSize, bufVars >>
  BY DEF StreamMiss, NextOffset
<1>5. /\ offset \in Nat /\ e \in Nat /\ e = offset + BlockSize /\ offset < e /\ e <= fileSize
      /\ lastMatch \in Nat /\ lastMatch <= offset
      /\ fed \in Nat /\ fileSize \in Nat /\ bufBase \in Nat /\ bufBase <= lastMatch
      /\ Len(Source) \in Nat
      /\ BlockSize \in Nat \ {0} /\ ChunkSize \in Nat \ {0} /\ nextBufCheck \in Nat
      /\ Rebuilds(basis, Source, results, lastMatch)
      /\ nextLiteralCheck = lastMatch + ChunkSize
  BY <1>1, SourceType, BlockSizeAssumption, ChunkSizeAssumption
     DEF ReaderTypeOK, BufferInv, AheadInv, Scanning
<1>6. /\ hi \in Nat /\ lastMatch <= hi /\ hi <= offset /\ hi <= fed /\ hi <= Len(Source)
      /\ hi <= fileSize /\ lastMatch' = hi /\ nextLiteralCheck' = hi + ChunkSize
      /\ lastMatch \in 0 .. Len(Source)
  BY <1>2, <1>4, <1>5
<1>7. t \in Seq(Instruction) /\ Covers(basis, Source, t, lastMatch, hi)
  <2>1. CASE late
    <3>1. t = Chunks(Buffered(lastMatch, hi), lastMatch)
      BY <2>1 DEF Backlog
    <3> HIDE DEF hi, t
    <3> QED BY <1>1, <1>6, <3>1, LiteralsCover
  <2>2. CASE ~ late
    <3>1. t = << >> /\ hi = lastMatch
      BY <2>2 DEF Backlog
    <3> HIDE DEF hi, t
    <3> QED BY <3>1, CoversNone, EmptySeq
  <2> QED BY <2>1, <2>2
<1> HIDE DEF e, hi, t, v
<1>8. /\ Delivers
      /\ \/ pc' = "returned" /\ outcome' = "callback"
         \/ /\ pc' = "stream" /\ outcome' = outcome
            /\ Rebuilds(basis, Source, results', hi)
  <2>1. "stream" # "returned"
    OBVIOUS
  <2> QED BY <1>1, <1>3, <1>5, <1>6, <1>7, <2>1, SendsOn
<1>9. rolling' \in RollingState
      /\ (offset + 1 + BlockSize <= fileSize =>
            /\ offset + 1 + BlockSize <= fed
            /\ rolling' = Reset(Slice(data, offset + 1, offset + 1 + BlockSize)))
  <2>1. CASE e < fileSize
    <3>1. /\ offset + 1 + BlockSize <= fed
          /\ rolling' = Reset(Slice(data, offset + 1, offset + 1 + BlockSize))
      BY <1>1, <1>4, <1>5, <2>1, StreamRolled
    <3> DEFINE lo == offset + 1
               up == lo + BlockSize
    <3>2. lo \in Nat /\ up \in Nat /\ lo <= up /\ up <= Len(data) /\ data \in Seq(Byte)
      <4>1. fed <= Len(data) /\ data \in Seq(Byte) /\ Len(data) \in Nat
        BY <1>1, LenProperties DEF BufferInv, Mirrors, ReaderTypeOK
      <4> QED BY <1>5, <3>1, <4>1
    <3>3. rolling' = Reset(Slice(data, lo, up))
      BY <3>1
    <3> HIDE DEF lo, up
    <3>4. Slice(data, lo, up) \in Seq(Byte)
      BY <3>2, SliceType, ZenonT(60)
    <3>5. rolling' \in RollingState
      BY <3>3, <3>4, BytesAreNaturals, ResetType
    <3> QED BY <3>1, <3>5
  <2>2. CASE ~ (e < fileSize)
    BY <1>2, <1>4, <1>5, <2>2
  <2> QED BY <2>1, <2>2
<1>10. ReaderTypeOK' /\ TableInv'
  <2>1. stats' \in Stats
    <3>1. Compared(v) \subseteq Compared(v) /\ stats \in Stats
      BY <1>1 DEF ReaderTypeOK
    <3> QED BY <1>3, <1>7, <3>1, ProbeStatsType
  <2>2. /\ nextLiteralCheck' \in Nat /\ nextBufCheck' \in Nat /\ lastMatch' \in Nat
        /\ offset' \in Nat
    BY <1>1, <1>4, <1>5, <1>6
  <2>3. needReset' \in BOOLEAN
    BY <1>4
  <2>4. results' \in Seq(Instruction) /\ pc' \in {"returned", "stream"}
    BY <1>8 DEF Delivers
  <2>5. TableInv'
    BY <1>1, <1>4, TableKept
  <2> QED BY <1>1, <1>4, <1>9, <2>1, <2>2, <2>3, <2>4, <2>5
          DEF ReaderTypeOK, engineVars, bufVars
<1>11. CASE pc' = "returned" /\ outcome' = "callback"
  BY <1>8, <1>10, <1>11, Returned
<1>12. CASE pc' = "stream" /\ outcome' = outcome /\ Rebuilds(basis, Source, results', hi)
  <2>1. CallInv' /\ LiteralsInv' /\ FillInv'
    BY <1>1, <1>12 DEF CallInv, EngineRuns, LiteralsInv, FillInv, Reading, Filling, Looping
  <2>2. BufferInv'
    <3>1. /\ Source' = Source /\ basis' = basis /\ checksums' = checksums /\ data' = data
          /\ fileSize' = fileSize /\ buf' = buf /\ bufBase' = bufBase /\ bufLen' = bufLen
          /\ fed' = fed
      BY <1>4 DEF Source, engineVars, bufVars
    <3>2. /\ BlockSize <= fileSize /\ fed = bufBase + bufLen /\ bufLen <= BufCap
          /\ Mirrors(buf, bufLen, data, bufBase)
      BY <1>1 DEF BufferInv
    <3>3. bufBase <= hi /\ hi <= offset'
      BY <1>4, <1>5, <1>6
    <3> QED BY <1>1, <1>6, <1>12, <3>1, <3>2, <3>3 DEF BufferInv
  <2>3. /\ Least(nextBufCheck' + BlockSize, fileSize) <= fed
        /\ nextBufCheck' <= offset + BlockSize
    <3>1. nextBufCheck <= offset + BlockSize /\ Least(nextBufCheck + BlockSize, fileSize) <= fed
      BY <1>1 DEF AheadInv
    <3>2. CASE needReset \/ offset >= nextBufCheck
      <4>1. nextBufCheck' = e /\ e + BlockSize = offset + 2 * BlockSize
        BY <1>1, <1>5, <3>2
      <4> QED BY <1>2, <1>5, <3>2, <4>1
    <3>3. CASE ~ (needReset \/ offset >= nextBufCheck)
      BY <1>1, <1>5, <3>1, <3>3
    <3> QED BY <3>2, <3>3
  <2>4. AheadInv'
    <3>1. nextBufCheck' <= offset' + BlockSize
      BY <1>1, <1>4, <1>5, <2>3
    <3>2. bufEnd' = fed' /\ fed' = fed /\ fileSize' = fileSize
      BY <1>1, <1>4 DEF AheadInv, bufVars
    <3> QED BY <1>4, <1>6, <1>12, <2>3, <3>1, <3>2 DEF AheadInv
  <2>5. SumInv'
    <3>1. fed' = fed /\ fileSize' = fileSize /\ data' = data /\ offset' = offset + 1
      BY <1>4 DEF bufVars
    <3> QED BY <1>9, <3>1 DEF SumInv
  <2> QED BY <1>8, <1>10, <2>1, <2>2, <2>4, <2>5 DEF ReaderInv
<1> QED BY <1>8, <1>11, <1>12

-----------------------------------------------------------------------------
(* The tail *)

LEMMA LargestElement ==
  ASSUME NEW n \in Nat, NEW S, S \subseteq 1 .. n, S # {}
  PROVE  Max(S) \in S
<1> DEFINE T == {m \in Nat : n - m \in S}
<1>1. T # {} /\ T \subseteq Nat
  <2>1. PICK s \in S : TRUE
    OBVIOUS
  <2>2. n - s \in Nat /\ n - (n - s) = s
    BY <2>1
  <2> QED BY <2>1, <2>2
<1>2. PICK m \in T : \A k \in T : m <= k
  <2> HIDE DEF T
  <2> QED BY <1>1, LeastElement
<1>3. n - m \in S /\ m \in Nat
  BY <1>2
<1>4. \A s \in S : n - m >= s
  <2> SUFFICES ASSUME NEW s \in S PROVE n - m >= s
    OBVIOUS
  <2>1. s \in 1 .. n
    OBVIOUS
  <2>2. n - s \in Nat /\ n - (n - s) = s
    BY <2>1
  <2>3. n - s \in T
    BY <2>1, <2>2
  <2>4. m <= n - s
    BY <1>2, <2>3
  <2> QED BY <1>3, <2>1, <2>4
<1>5. \E x \in S : \A y \in S : x >= y
  BY <1>3, <1>4
<1> QED BY <1>5, Zenon DEF Max

\* The tail is a block of the basis, or what is buffered and not yet sent; it
\* takes the call to the end of the source if that has been read.
LEMMA StreamTailCovers ==
  ASSUME ReaderInv, pc = "stream"
  PROVE  /\ StreamTail \in Seq(Instruction) /\ lastMatch \in 0 .. Len(Source)
         /\ \E hi \in Nat : /\ Covers(basis, Source, StreamTail, lastMatch, hi)
                            /\ ~ Unread => hi = Len(Source)
<1>1. /\ ReaderTypeOK /\ TableInv /\ BufferInv /\ Reading
      /\ basis \in Seq(Byte) /\ data \in Seq(Byte) /\ Len(data) \in Nat
      /\ Source \in Seq(Byte) /\ Len(Source) \in Nat
      /\ Len(Source) = Least(fileSize, Len(data))
      /\ fileSize \in Nat /\ fed \in Nat /\ bufBase \in Nat /\ bufLen \in Nat
      /\ lastMatch \in Nat /\ lastMatch <= fed /\ lastMatch <= fileSize
      /\ bufBase <= lastMatch /\ fed = bufBase + bufLen /\ fed <= Len(data)
      /\ Mirrors(buf, bufLen, data, bufBase) /\ Len(checksums) \in Nat
  BY SourceType, LenProperties
     DEF ReaderInv, ReaderTypeOK, BufferInv, Reading, Looping, Mirrors
<1>2. CASE lastMatch < fileSize /\ StreamTailBlocks # {}
  <2> DEFINE i == Max(StreamTailBlocks)
             w == Buffered(lastMatch, fileSize)
             b == checksums[i].index
  <2>1. i \in StreamTailBlocks
    <3>1. StreamTailBlocks \subseteq 1 .. Len(checksums)
      BY DEF StreamTailBlocks
    <3> QED BY <1>1, <1>2, <3>1, LargestElement
  <2>2. /\ i \in 1 .. Len(checksums) /\ checksums[i].length = fileSize - lastMatch
        /\ checksums[i].sum2 = Strong(w) /\ bufBase + bufLen >= fileSize
    BY <2>1 DEF StreamTailBlocks
  <2>3. StreamTail = << Match(b, lastMatch) >>
    BY <1>2 DEF StreamTail
  <2> HIDE DEF i
  <2>4. fileSize <= fed /\ fileSize = Len(Source) /\ fileSize <= Len(data)
    BY <1>1, <2>2 DEF Least
  <2>5. w = Slice(Source, lastMatch, fileSize) /\ w = Slice(data, lastMatch, fileSize)
    BY <1>1, <2>4, BufferedIs, SourceSlice
  <2>6. Slice(data, lastMatch, fileSize) \in Seq(Byte)
        /\ Len(Slice(data, lastMatch, fileSize)) = fileSize - lastMatch
    <3>1. /\ data \in Seq(Byte) /\ lastMatch \in Nat /\ fileSize \in Nat
          /\ lastMatch <= fileSize /\ fileSize <= Len(data)
      BY <1>1, <2>4
    <3> QED BY <3>1, SliceType, ZenonT(60)
  <2> HIDE DEF w
  <2>7. b \in Nat /\ Block(basis, b) = w
    <3>1. w \in Seq(Byte) /\ checksums[i].length = Len(w) /\ checksums[i].sum2 = Strong(w)
      BY <2>2, <2>5, <2>6
    <3>2. checksums[i].index \in Nat /\ Block(basis, checksums[i].index) = w
      BY <1>1, <2>2, <3>1, EntryIsBlock
    <3> QED BY <3>2
  <2> HIDE DEF b
  <2>8. /\ Match(b, lastMatch) \in Instruction
        /\ Covers(basis, Source, << Match(b, lastMatch) >>, lastMatch, fileSize)
    <3>1. /\ Source \in Seq(Byte) /\ b \in Nat /\ lastMatch \in Nat /\ fileSize \in Nat
          /\ lastMatch <= fileSize /\ fileSize <= Len(Source)
          /\ Block(basis, b) = Slice(Source, lastMatch, fileSize)
      BY <1>1, <2>4, <2>5, <2>7
    <3> QED BY <3>1, MatchCovers, ZenonT(60)
  <2>9. StreamTail \in Seq(Instruction)
    BY <2>3, <2>8
  <2>10. lastMatch \in 0 .. Len(Source)
    BY <1>1, <2>4
  <2> QED BY <1>1, <2>3, <2>4, <2>8, <2>9, <2>10
<1>3. CASE ~ (lastMatch < fileSize /\ StreamTailBlocks # {})
  <2> DEFINE hi == Least(bufBase + bufLen, fileSize)
  <2>1. StreamTail = Remaining(buf, bufLen)
    BY <1>3 DEF StreamTail
  <2>2. /\ Remaining(buf, bufLen) \in Seq(Instruction)
        /\ Covers(basis, Source, Remaining(buf, bufLen), lastMatch, hi)
        /\ lastMatch \in 0 .. Len(Source)
        /\ bufBase + bufLen >= Least(fileSize, Len(data)) => hi = Len(Source)
    BY <1>1, RemainingCovers
  <2>3. hi \in Nat
    BY <1>1 DEF Least
  <2>4. ~ Unread => hi = Len(Source)
    <3>1. Least(fileSize, Len(data)) \in Nat
      BY <1>1
    <3>2. ~ Unread => bufBase + bufLen >= Least(fileSize, Len(data))
      BY <1>1, <3>1 DEF Unread
    <3> QED BY <2>2, <3>2
  <2> QED BY <2>1, <2>2, <2>3, <2>4
<1> QED BY <1>2, <1>3

LEMMA StreamEndStep ==
  ASSUME ReaderInv, StreamEnd
  PROVE  ReaderInv' /\ Delivers
<1>1. /\ ReaderTypeOK /\ TableInv /\ pc = "stream"
      /\ Rebuilds(basis, Source, results, lastMatch)
  BY DEF ReaderInv, StreamEnd, BufferInv, Reading, Looping
<1> DEFINE t == StreamTail
<1>2. PICK h \in Handed(t) :
        /\ results' = results \o SubSeq(t, 1, h.given) /\ stats' = GivenStats(t, h)
        /\ Return(h, "nil")
  BY DEF StreamEnd, Give
<1>3. /\ UNCHANGED << calls, engineVars, data, rolling, offset, lastMatch, wantIdx, before >>
      /\ UNCHANGED << fileSize, bufVars, checkVars >>
  BY DEF StreamEnd
<1>4. PICK hi \in Nat : /\ Covers(basis, Source, t, lastMatch, hi)
                        /\ ~ Unread => hi = Len(Source)
  BY <1>1, StreamTailCovers
<1>5. t \in Seq(Instruction) /\ lastMatch \in 0 .. Len(Source)
  BY <1>1, StreamTailCovers
<1>6. Unread' = Unread
  BY <1>3 DEF Unread, bufVars
<1> HIDE DEF t
<1>7. "nil" # "batch" /\ ("nil" = "nil" /\ ~ Unread' => hi = Len(Source))
  BY <1>4, <1>6
<1>8. Delivers /\ pc' = "returned" /\ outcome' # "batch"
  BY <1>1, <1>2, <1>4, <1>5, <1>7, SendsLast
<1>9. ReaderTypeOK' /\ TableInv'
  <2>1. stats' \in Stats
    BY <1>1, <1>2, <1>5, GivenStatsType DEF ReaderTypeOK
  <2>2. results' \in Seq(Instruction)
    BY <1>8 DEF Delivers
  <2>3. TableInv'
    BY <1>1, <1>3, TableKept
  <2> QED BY <1>1, <1>3, <1>8, <2>1, <2>2, <2>3
          DEF ReaderTypeOK, engineVars, bufVars, checkVars
<1> QED BY <1>8, <1>9, Returned

-----------------------------------------------------------------------------
(* The invariant and the theorems *)

LEMMA NextReaderInv ==
  ASSUME Announced, ReaderInv, [ReaderNext]_allVars
  PROVE  ReaderInv'
<1>1. CASE EngineStep
  BY <1>1, EngineStepInv
<1>2. ASSUME NEW d \in Searched, CallSearch(d) PROVE ReaderInv'
  BY <1>2, CallSearchInv
<1>3. ASSUME NEW d \in Inputs, NEW size \in FileSizes(d), CallReader(d, size) PROVE ReaderInv'
  BY <1>3, CallReaderInv
<1>4. CASE StreamLiterals \/ LiteralsEnd
  BY <1>4, StreamLiteralsStep, LiteralsEndStep
<1>5. CASE ReadMore \/ FillFail \/ FillShort \/ FillDone
  BY <1>5, ReadMoreStep, FillFailStep, FillShortStep, FillDoneStep
<1>6. CASE Slide \/ SlideDone \/ SlideFail
  BY <1>6, SlideStep, SlideDoneStep, SlideFailStep
<1>7. CASE StreamMatch \/ StreamMiss \/ StreamEnd
  BY <1>7, StreamMatchStep, StreamMissStep, StreamEndStep
<1>8. CASE UNCHANGED allVars
  BY <1>8, UnchangedInv
<1> QED BY <1>1, <1>2, <1>3, <1>4, <1>5, <1>6, <1>7, <1>8 DEF ReaderNext, ReaderReturn

\* Whatever is loaded and searched, streamed or not, on one engine, and however
\* the reads are cut, fail or end (SearchReader, search.go): the buffer, the
\* rolling sum and what was sent stay as the invariant says.
THEOREM ReaderInvariant == ASSUME Announced PROVE ReaderSpec => []ReaderInv
<1>1. ReaderInv /\ [ReaderNext]_allVars => ReaderInv'
  BY NextReaderInv
<1> QED BY InitReaderInv, <1>1, PTL DEF ReaderSpec

\* The buffer holds the source at its place, through every shift and refill
\* (readInto and shiftAndFill, search.go).
THEOREM BufferMirrors == ASSUME Announced PROVE ReaderSpec => []BufferMirrorsSource
<1>1. ReaderInv => BufferMirrorsSource
  <2> SUFFICES ASSUME ReaderInv, Reading
               PROVE  /\ fed = bufBase + bufLen
                      /\ SubSeq(buf, 1, bufLen) = Slice(data, bufBase, fed)
    BY DEF BufferMirrorsSource, Reading, Filling, Looping
  <2>1. /\ data \in Seq(Byte) /\ bufBase \in Nat /\ bufLen \in Nat /\ fed \in Nat
        /\ fed = bufBase + bufLen /\ Mirrors(buf, bufLen, data, bufBase)
        /\ bufBase <= bufBase /\ bufBase <= fed /\ fed <= bufBase + bufLen
    BY DEF ReaderInv, ReaderTypeOK, BufferInv
  <2>2. Shown(buf, bufBase, bufBase, fed) = Slice(data, bufBase, fed)
    BY <2>1, MirrorSlice
  <2>3. bufBase - bufBase + 1 = 1 /\ fed - bufBase = bufLen
    BY <2>1
  <2>4. Shown(buf, bufBase, bufBase, fed) = SubSeq(buf, 1, bufLen)
    BY <2>3 DEF Shown, Slice
  <2> QED BY <2>1, <2>2, <2>4
<1> QED BY <1>1, ReaderInvariant, PTL

\* The window, and the byte that the roll takes in, were read before they are
\* looked at (search.go:224, search.go:247).
THEOREM WindowIsBuffered == ASSUME Announced PROVE ReaderSpec => []WindowBuffered
<1>1. ReaderInv => WindowBuffered
  <2> SUFFICES ASSUME ReaderInv, Scanning, ~ SlideNeeded
               PROVE  /\ bufBase <= lastMatch
                      /\ Least(offset + BlockSize + 1, fileSize) <= bufBase + bufLen
    BY DEF WindowBuffered
  <2>1. bufBase <= lastMatch /\ fed = bufBase + bufLen
    BY DEF ReaderInv, BufferInv, Reading, Looping, Scanning
  <2>2. Least(offset + BlockSize + 1, fileSize) <= fed
    BY StreamHead
  <2> QED BY <2>1, <2>2
<1> QED BY <1>1, ReaderInvariant, PTL

\* At the head of the streaming scan the sum is that of the window, through
\* matches, misses and refills (search.go:236).
THEOREM StreamRollingStaysInSync ==
  ASSUME Announced PROVE ReaderSpec => []StreamRollingInSync
<1>1. ReaderInv => StreamRollingInSync
  <2> SUFFICES ASSUME ReaderInv, Scanning, ~ SlideNeeded
               PROVE  CurrentSum = Reset(Slice(data, offset, offset + BlockSize))
    BY DEF StreamRollingInSync
  <2> QED BY StreamHead
<1> QED BY <1>1, ReaderInvariant, PTL

-----------------------------------------------------------------------------
(* SearchReader implements the abstract sender *)

ReaderSource == IF outcome = "batch" THEN data ELSE Source

LEMMA ReaderSameRebuilds ==
  ASSUME NEW b, NEW d, NEW r, NEW hi
  PROVE  ReaderSender!Rebuilds(b, d, r, hi) = Rebuilds(b, d, r, hi)
BY DEF ReaderSender!Rebuilds, Rebuilds, ReaderSender!Covers, Covers, ReaderSender!EndOf,
       EndOf, ReaderSender!Apply, Apply, ReaderSender!Block, Block,
       ReaderSender!BlockEnd, BlockEnd, ReaderSender!Slice, Slice, ReaderSender!Least, Least

LEMMA ReaderVerdictOf ==
  ASSUME ReaderTypeOK
  PROVE  /\ pc \in {"idle", "build"} => ReaderVerdict = "idle"
         /\ pc \in {"called", "scan", "tail", "literals", "fill", "slide", "stream"} =>
              ReaderVerdict = "open"
         /\ pc = "returned" =>
              ReaderVerdict = IF outcome = "batch" \/ (outcome = "nil" /\ ~ Unread)
                              THEN "ok" ELSE "failed"
BY DEF ReaderVerdict

\* A step that changes none of what the abstract sender has is a stutter.
LEMMA ReaderStutters ==
  ASSUME UNCHANGED << basis, data, fileSize, results, outcome >>,
         ReaderVerdict' = ReaderVerdict
  PROVE  UNCHANGED ReaderSender!senderVars
BY DEF ReaderSender!senderVars

\* Instructions handed over while the call goes on, or as it returns.
LEMMA ReaderHandsOver ==
  ASSUME ReaderVerdict = "open", UNCHANGED << basis, ReaderSource >>,
         Len(results) <= Len(results'), results = SubSeq(results', 1, Len(results)),
         NEW hi \in 0 .. Len(ReaderSource), Rebuilds(basis, ReaderSource, results', hi),
         \/ ReaderVerdict' \in {"open", "failed"}
         \/ ReaderVerdict' = "ok" /\ hi = Len(ReaderSource)
  PROVE  ReaderSender!SenderNext
<1>1. ReaderSender!ExtendTo(hi)
  BY ReaderSameRebuilds DEF ReaderSender!ExtendTo, ReaderSource, Source
<1>2. CASE ReaderVerdict' = "open"
  BY <1>1, <1>2 DEF ReaderSender!SenderNext, ReaderSender!Deliver, ReaderSource, Source
<1>3. CASE ReaderVerdict' = "failed"
  BY <1>1, <1>3 DEF ReaderSender!SenderNext, ReaderSender!Fail, ReaderSource, Source
<1>4. CASE ReaderVerdict' = "ok" /\ hi = Len(ReaderSource)
  BY <1>1, <1>4 DEF ReaderSender!SenderNext, ReaderSender!Complete, ReaderSource, Source
<1> QED BY <1>2, <1>3, <1>4

\* What the streaming call's own steps deliver.
LEMMA DeliversSends ==
  ASSUME ReaderInv, ReaderInv', Delivers, UNCHANGED << basis, data, fileSize >>,
         pc \in {"literals", "fill", "slide", "stream"},
         pc' \in {"returned", "literals", "fill", "slide", "stream"}
  PROVE  ReaderSender!SenderNext
<1>1. outcome = "none" /\ outcome' # "batch"
  BY DEF ReaderInv, CallInv, Reading, Filling, Looping, Delivers
<1>2. ReaderSource = Source /\ ReaderSource' = Source /\ Source' = Source
  BY <1>1 DEF ReaderSource, Source
<1>3. ReaderVerdict = "open"
  BY ReaderVerdictOf DEF ReaderInv
<1>4. PICK m \in 0 .. Len(Source) : Rebuilds(basis, Source, results', m)
  BY DEF Delivers
<1>5. Len(results) <= Len(results') /\ results = SubSeq(results', 1, Len(results))
  BY DEF Delivers
<1>6. CASE pc' = "returned" /\ outcome' = "nil" /\ ~ Unread'
  <2>1. ReaderVerdict' = "ok"
    BY <1>6, ReaderVerdictOf DEF ReaderInv, ReaderVerdict
  <2>2. Rebuilds(basis, Source, results', Len(Source))
    BY <1>6 DEF Delivers
  <2>3. Len(Source) \in 0 .. Len(Source)
    BY SourceType DEF ReaderInv
  <2> QED BY <1>2, <1>3, <1>5, <2>1, <2>2, <2>3, ReaderHandsOver
<1>7. CASE ~ (pc' = "returned" /\ outcome' = "nil" /\ ~ Unread')
  <2>1. ReaderVerdict' \in {"open", "failed"}
    BY <1>1, <1>7 DEF ReaderVerdict
  <2> QED BY <1>2, <1>3, <1>4, <1>5, <2>1, ReaderHandsOver
<1> QED BY <1>6, <1>7

\* A search in memory, on the engine that also streams.
LEMMA EngineSends ==
  ASSUME ReaderInv, SearchProgress, UNCHANGED readerVars
  PROVE  [ReaderSender!SenderNext]_(ReaderSender!senderVars)
<1>1. pc \in {"called", "scan", "tail"} /\ outcome = "batch" /\ outcome' = "batch"
  <2>1. pc \in {"called", "scan", "tail"}
    BY DEF SearchProgress, SearchLiterals, SearchBegin, ScanMatch, ScanMiss, ScanEnd,
           TailMatch, TailLiterals
  <2> QED BY <2>1 DEF ReaderInv, CallInv, readerVars
<1>2. IInv /\ IInv' /\ [Next]_vars
  <2>1. IInv /\ [Next]_vars
    BY <1>1, EngineIInv DEF EngineRuns, Next, Progress
  <2> QED BY <2>1, NextIInv
<1>3. /\ Verdict = "open" /\ ReaderVerdict = "open"
      /\ pc' \in {"called", "scan", "tail", "returned"}
      /\ ReaderVerdict' = Verdict' /\ Verdict' \in {"open", "ok"}
  <2>1. pc' \in {"called", "scan", "tail", "returned"}
    BY <1>1 DEF SearchProgress, SearchLiterals, SearchBegin, ScanMatch, ScanMiss, ScanEnd,
                TailMatch, TailLiterals
  <2> QED BY <1>1, <2>1 DEF Verdict, ReaderVerdict
<1>4. UNCHANGED << basis, data >>
  BY DEF SearchProgress, SearchLiterals, SearchBegin, ScanMatch, ScanMiss, ScanEnd,
         TailMatch, TailLiterals, engineVars, searchVars
<1>5. UNCHANGED fileSize /\ ReaderSource = data /\ UNCHANGED ReaderSource
  BY <1>1, <1>4 DEF ReaderSource, readerVars
<1>6. CASE UNCHANGED Sender!senderVars
  <2>1. UNCHANGED results /\ Verdict' = Verdict
    BY <1>6 DEF Sender!senderVars
  <2> QED BY <1>1, <1>3, <1>4, <1>5, <2>1, ReaderStutters
<1>7. CASE Sender!SenderNext
  <2>1. PICK hi \in 0 .. Len(data) :
          Sender!ExtendTo(hi) /\ (Verdict' = "ok" => hi = Len(data))
    <3>1. CASE Sender!Deliver
      <4>1. Verdict' = "open"
        BY <1>3, <3>1 DEF Sender!Deliver
      <4> QED BY <3>1, <4>1 DEF Sender!Deliver
    <3>2. CASE Sender!Complete
      <4>1. Len(data) \in 0 .. Len(data)
        BY <1>2, LenProperties DEF IInv, TypeOK
      <4> QED BY <3>2, <4>1 DEF Sender!Complete
    <3>3. CASE Sender!UseSignature \/ Sender!Begin \/ Sender!Fail
      BY <1>3, <3>3 DEF Sender!UseSignature, Sender!Begin, Sender!Fail
    <3> QED BY <1>7, <3>1, <3>2, <3>3 DEF Sender!SenderNext
  <2>2. /\ Len(results) <= Len(results') /\ results = SubSeq(results', 1, Len(results))
        /\ Rebuilds(basis, data, results', hi)
    BY <2>1, SameRebuilds DEF Sender!ExtendTo
  <2> QED BY <1>3, <1>4, <1>5, <2>1, <2>2, ReaderHandsOver
<1> QED BY <1>2, <1>6, <1>7, SenderStep

\* A signature, or none, is loaded: nothing is being sent.
LEMMA ReaderUses ==
  ASSUME ReaderInv, AtRest, pc' \in {"idle", "build"}, basis' \in Bases \cup {<< >>},
         results' = << >>, data' = << >>, UNCHANGED readerVars
  PROVE  ReaderSender!SenderNext
<1>1. ReaderVerdict # "open" /\ ReaderVerdict' = "idle"
  BY DEF AtRest, ReaderVerdict
<1>2. ReaderSource' = << >>
  <2>1. fileSize \in Nat /\ fileSize' = fileSize /\ Len(<< >>) = 0
    BY EmptySeq DEF ReaderInv, ReaderTypeOK, readerVars
  <2>2. Least(fileSize', Len(data')) = 0
    BY <2>1 DEF Least
  <2>3. Source' = SubSeq(<< >>, 1, 0)
    BY <2>2 DEF Source, Slice
  <2> QED BY <2>3, SubSeqEmpty DEF ReaderSource
<1> QED BY <1>1, <1>2
        DEF ReaderSender!SenderNext, ReaderSender!UseSignature, ReaderSource, Source

\* A call begins, whichever way it searches.
LEMMA ReaderBegins ==
  ASSUME ReaderInv, ReaderInv', AtRest, pc' \in {"called", "literals", "fill"},
         results' = << >>, UNCHANGED basis
  PROVE  ReaderSender!SenderNext
<1>1. ReaderVerdict # "open" /\ ReaderVerdict' = "open"
  BY DEF AtRest, ReaderVerdict
<1>2. ReaderSource' \in Seq(Byte)
  <2>1. ReaderTypeOK'
    BY DEF ReaderInv
  <2>2. data' \in Seq(Byte)
    BY <2>1 DEF ReaderTypeOK
  <2>3. Source' \in Seq(Byte)
    <3> DEFINE n == Least(fileSize', Len(data'))
    <3>1. 0 \in Nat /\ n \in Nat /\ 0 <= n /\ n <= Len(data')
      BY <2>1, <2>2, LenProperties DEF Least, ReaderTypeOK
    <3>2. Source' = Slice(data', 0, n)
      BY DEF Source
    <3> HIDE DEF n
    <3> QED BY <2>2, <3>1, <3>2, SliceType, ZenonT(60)
  <2> QED BY <2>2, <2>3 DEF ReaderSource
<1> QED BY <1>1, <1>2
        DEF ReaderSender!SenderNext, ReaderSender!Begin, ReaderSource, Source

\* The steps of a streaming call: most send something, some only read.
LEMMA ReaderSends ==
  ASSUME ReaderInv, ReaderInv', ReaderReturn
  PROVE  [ReaderSender!SenderNext]_(ReaderSender!senderVars)
<1>1. CASE StreamLiterals \/ LiteralsEnd
  <2>1. Delivers
    BY <1>1, StreamLiteralsStep, LiteralsEndStep
  <2>2. pc = "literals" /\ pc' \in {"returned", "literals"}
    BY <1>1 DEF StreamLiterals, LiteralsEnd, Continue, Return
  <2>3. UNCHANGED << basis, data, fileSize >>
    BY <1>1 DEF StreamLiterals, LiteralsEnd, engineVars, searchVars
  <2> QED BY <2>1, <2>2, <2>3, DeliversSends
<1>2. CASE FillFail \/ FillShort \/ SlideFail
  <2>1. Delivers
    BY <1>2, FillFailStep, FillShortStep, SlideFailStep
  <2>2. pc \in {"fill", "slide"} /\ pc' = "returned"
    BY <1>2 DEF FillFail, FillShort, SlideFail, Return
  <2>3. UNCHANGED << basis, data, fileSize >>
    BY <1>2 DEF FillFail, FillShort, SlideFail, engineVars, searchVars
  <2> QED BY <2>1, <2>2, <2>3, DeliversSends
<1>3. CASE StreamMatch \/ StreamMiss \/ StreamEnd
  <2>1. Delivers
    BY <1>3, StreamMatchStep, StreamMissStep, StreamEndStep
  <2>2. pc = "stream" /\ pc' \in {"returned", "stream"}
    BY <1>3 DEF StreamMatch, StreamMiss, StreamEnd, WindowChecked, Scanning, Continue, Return
  <2>3. UNCHANGED << basis, data, fileSize >>
    BY <1>3 DEF StreamMatch, StreamMiss, StreamEnd, engineVars
  <2> QED BY <2>1, <2>2, <2>3, DeliversSends
<1>4. CASE ReadMore \/ FillDone \/ Slide \/ SlideDone
  <2>1. UNCHANGED << outcome, basis, data, fileSize, results >>
    BY <1>4, ReadMoreStep, FillDoneStep, SlideStep, SlideDoneStep
  <2>2. pc \in {"fill", "slide", "stream"} /\ pc' \in {"fill", "slide", "stream"}
    BY <1>4 DEF ReadMore, FillDone, Slide, SlideDone, Scanning
  <2>3. ReaderVerdict' = ReaderVerdict
    BY <2>2 DEF ReaderVerdict
  <2> QED BY <2>1, <2>3, ReaderStutters
<1> QED BY <1>1, <1>2, <1>3, <1>4 DEF ReaderReturn

LEMMA ReaderSenderStep ==
  ASSUME ReaderInv, ReaderInv', [ReaderNext]_allVars
  PROVE  [ReaderSender!SenderNext]_(ReaderSender!senderVars)
<1>0. ASSUME UNCHANGED allVars
      PROVE  UNCHANGED ReaderSender!senderVars
  <2>1. UNCHANGED << basis, data, fileSize, results, outcome, pc, fed >>
    BY <1>0 DEF allVars, vars, engineVars, searchVars, readerVars, bufVars
  <2>2. ReaderVerdict' = ReaderVerdict
    BY <2>1 DEF ReaderVerdict, Unread
  <2> QED BY <2>1, <2>2, ReaderStutters
<1>1. CASE EngineStep
  <2>0. UNCHANGED readerVars
    BY <1>1 DEF EngineStep
  <2>1. ASSUME NEW f \in Bases, LoadSignature(f) PROVE ReaderSender!SenderNext
    BY <2>0, <2>1, ReaderUses DEF LoadSignature
  <2>2. CASE LoadNil
    BY <2>0, <2>2, ReaderUses DEF LoadNil
  <2>3. CASE Rest
    BY <1>0, <2>0, <2>3 DEF Rest, allVars
  <2>4. CASE InsertBlock \/ Built
    <3>1. UNCHANGED << basis, data, fileSize, results, outcome >>
      BY <2>0, <2>4 DEF InsertBlock, Built, engineVars, searchVars, readerVars
    <3>2. ReaderVerdict' = ReaderVerdict
      BY <2>4 DEF InsertBlock, Built, ReaderVerdict
    <3> QED BY <3>1, <3>2, ReaderStutters
  <2>5. CASE SearchProgress
    BY <2>0, <2>5, EngineSends
  <2> QED BY <1>1, <2>1, <2>2, <2>3, <2>4, <2>5 DEF EngineStep, Progress
<1>2. ASSUME NEW d \in Searched, CallSearch(d) PROVE ReaderSender!SenderNext
  BY <1>2, ReaderBegins DEF CallSearch, Search, engineVars
<1>3. ASSUME NEW d \in Inputs, NEW size \in FileSizes(d), CallReader(d, size)
      PROVE  ReaderSender!SenderNext
  <2>1. /\ AtRest /\ pc' \in {"literals", "fill"} /\ results' = << >> /\ UNCHANGED basis
    BY <1>3 DEF CallReader, engineVars
  <2> QED BY <2>1, ReaderBegins
<1>4. CASE ReaderReturn
  BY <1>4, ReaderSends
<1> QED BY <1>0, <1>1, <1>2, <1>3, <1>4 DEF ReaderNext

\* SearchReader keeps the sender's promise: what the callback has been given
\* rebuilds a prefix of the bytes it is asked to send, however the source is
\* read, and a call that returns nil having read all of them has sent them all.
THEOREM ReaderIsSender == ASSUME Announced PROVE ReaderSpec => ReaderKeepsPromise
<1>1. ReaderInit => ReaderSender!SenderInit
  <2> SUFFICES ASSUME ReaderInit PROVE ReaderSender!SenderInit
    OBVIOUS
  <2>1. /\ basis = << >> /\ results = << >> /\ data = << >> /\ pc = "idle"
        /\ fileSize = 0 /\ outcome = "none" /\ Len(<< >>) = 0
    BY EmptySeq DEF ReaderInit, Init
  <2>2. Least(fileSize, Len(data)) = 0
    BY <2>1 DEF Least
  <2>3. Slice(data, 0, Least(fileSize, Len(data))) = << >>
    BY <2>1, <2>2, SubSeqEmpty DEF Slice
  <2>4. ReaderVerdict = "idle"
    BY <2>1 DEF ReaderVerdict
  <2> QED BY <2>1, <2>3, <2>4 DEF ReaderSender!SenderInit
<1>2. ReaderInv /\ ReaderInv' /\ [ReaderNext]_allVars =>
        [ReaderSender!SenderNext]_(ReaderSender!senderVars)
  BY ReaderSenderStep
<1> QED BY <1>1, <1>2, ReaderInvariant, PTL
        DEF ReaderSpec, ReaderKeepsPromise, ReaderSender!SenderSpec

-----------------------------------------------------------------------------
(* Searches in memory on the engine that also streams *)

\* The table stays as it was built through every streaming call, and a search
\* in memory is on its way to what SearchResult says.
SharedInv == ReaderInv /\ ChainInv /\ (EngineRuns => FoundInv)

\* A step of the streaming call.
LEMMA StreamingShares ==
  ASSUME SharedInv, UNCHANGED engineVars, pc # "build", pc' # "build", ~ EngineRuns'
  PROVE  ChainInv' /\ (EngineRuns' => FoundInv')
BY ChainsKept DEF SharedInv

LEMMA ReturnShares ==
  ASSUME SharedInv, ReaderReturn
  PROVE  ChainInv' /\ (EngineRuns' => FoundInv')
<1>1. pc \in {"literals", "fill", "slide", "stream"} /\ outcome = "none"
  <2>1. pc \in {"literals", "fill", "slide", "stream"}
    BY DEF ReaderReturn, StreamLiterals, LiteralsEnd, ReadMore, FillFail, FillShort,
           FillDone, Slide, SlideDone, SlideFail, StreamMatch, StreamMiss, StreamEnd,
           WindowChecked, Scanning
  <2> QED BY <2>1 DEF SharedInv, ReaderInv, CallInv, Reading, Filling, Looping
<1>2. UNCHANGED engineVars
  BY DEF ReaderReturn, StreamLiterals, LiteralsEnd, ReadMore, FillFail, FillShort,
         FillDone, Slide, SlideDone, SlideFail, StreamMatch, StreamMiss, StreamEnd
<1>3. CASE StreamLiterals \/ LiteralsEnd
  <2>1. pc' = "returned" => outcome' # "batch"
    BY <1>3, StreamLiteralsStep, LiteralsEndStep DEF SharedInv, Delivers
  <2>2. pc' \in {"returned", "literals"}
    BY <1>3 DEF StreamLiterals, LiteralsEnd, Continue, Return
  <2> QED BY <1>1, <1>2, <2>1, <2>2, StreamingShares DEF EngineRuns
<1>4. CASE FillFail \/ FillShort \/ SlideFail
  <2>1. pc' = "returned" => outcome' # "batch"
    BY <1>4, FillFailStep, FillShortStep, SlideFailStep DEF SharedInv, Delivers
  <2>2. pc' = "returned"
    BY <1>4 DEF FillFail, FillShort, SlideFail, Return
  <2> QED BY <1>1, <1>2, <2>1, <2>2, StreamingShares DEF EngineRuns
<1>5. CASE StreamMatch \/ StreamMiss \/ StreamEnd
  <2>1. pc' = "returned" => outcome' # "batch"
    BY <1>5, StreamMatchStep, StreamMissStep, StreamEndStep DEF SharedInv, Delivers
  <2>2. pc' \in {"returned", "stream"}
    BY <1>5 DEF StreamMatch, StreamMiss, StreamEnd, WindowChecked, Scanning, Continue, Return
  <2> QED BY <1>1, <1>2, <2>1, <2>2, StreamingShares DEF EngineRuns
<1>6. CASE ReadMore \/ FillDone \/ Slide \/ SlideDone
  <2>1. pc' \in {"fill", "slide", "stream"}
    BY <1>1, <1>6 DEF ReadMore, FillDone, Slide, SlideDone
  <2> QED BY <1>1, <1>2, <2>1, StreamingShares DEF EngineRuns
<1> QED BY <1>3, <1>4, <1>5, <1>6 DEF ReaderReturn

LEMMA EngineShares ==
  ASSUME SharedInv, EngineStep
  PROVE  ChainInv' /\ (EngineRuns' => FoundInv')
<1>1. ASSUME NEW f \in Bases, LoadSignature(f)
      PROVE  ChainInv' /\ FoundInv'
  BY <1>1, LoadChains, NotSearchingFinds DEF LoadSignature
<1>2. CASE LoadNil
  <2>1. ChainInv'
    BY <1>2, NoSignature DEF LoadNil, NilChecksums, ChainInv, SharedInv
  <2> QED BY <1>2, <2>1, NotSearchingFinds DEF LoadNil
<1>3. CASE Rest
  <2>1. UNCHANGED vars /\ UNCHANGED readerVars /\ AtRest
    BY <1>3 DEF Rest, EngineStep
  <2>2. UNCHANGED engineVars /\ pc' = pc /\ pc # "build" /\ outcome' = outcome
    BY <2>1 DEF vars, readerVars, AtRest
  <2>3. ChainInv'
    BY <2>2, ChainsKept DEF SharedInv
  <2>4. EngineRuns' => EngineRuns
    BY <2>2 DEF EngineRuns
  <2> QED BY <2>1, <2>3, <2>4, UnchangedFinds DEF SharedInv
<1>4. CASE Progress
  <2>1. EngineRuns
    BY <1>4 DEF EngineRuns, Progress, InsertBlock, Built, SearchProgress, SearchLiterals,
                SearchBegin, ScanMatch, ScanMiss, ScanEnd, TailMatch, TailLiterals
  <2>2. IInv /\ [Next]_vars
    BY <1>4, <2>1, EngineIInv DEF SharedInv, Next
  <2> QED BY <2>1, <2>2, NextChains, NextFinds DEF SharedInv
<1> QED BY <1>1, <1>2, <1>3, <1>4 DEF EngineStep

LEMMA NextShares ==
  ASSUME Announced, SharedInv, [ReaderNext]_allVars
  PROVE  SharedInv'
<1>1. ReaderInv'
  BY NextReaderInv DEF SharedInv
<1>2. CASE EngineStep
  BY <1>1, <1>2, EngineShares DEF SharedInv
<1>3. ASSUME NEW d \in Searched, CallSearch(d) PROVE SharedInv'
  <2>1. UNCHANGED engineVars /\ pc # "build" /\ pc' = "called" /\ wantIdx' = 0
    BY <1>3 DEF CallSearch, Search, AtRest
  <2>2. ChainInv' /\ FoundInv'
    BY <2>1, ChainsKept DEF SharedInv, FoundInv, ComputesSearchResult
  <2> QED BY <1>1, <2>2 DEF SharedInv
<1>4. ASSUME NEW d \in Inputs, NEW size \in FileSizes(d), CallReader(d, size)
      PROVE  SharedInv'
  <2>1. UNCHANGED engineVars /\ pc # "build" /\ pc' \in {"literals", "fill"}
    BY <1>4 DEF CallReader, AtRest
  <2> QED BY <1>1, <2>1, StreamingShares DEF SharedInv, EngineRuns
<1>5. CASE ReaderReturn
  BY <1>1, <1>5, ReturnShares DEF SharedInv
<1>6. CASE UNCHANGED allVars
  <2>1. UNCHANGED vars /\ UNCHANGED engineVars /\ pc' = pc /\ outcome' = outcome
    BY <1>6 DEF allVars, vars, readerVars
  <2>2. ChainInv' /\ (EngineRuns' => EngineRuns)
    BY <2>1 DEF SharedInv, ChainInv, engineVars, EngineRuns
  <2> QED BY <1>1, <2>1, <2>2, UnchangedFinds DEF SharedInv
<1> QED BY <1>2, <1>3, <1>4, <1>5, <1>6 DEF ReaderNext

\* A search in memory computes what it computes on a new engine, whatever
\* signatures were loaded and sources streamed before it, and wherever those
\* calls failed (SearchReader, search.go).
THEOREM SearchIsUndisturbed == ASSUME Announced PROVE ReaderSpec => []SearchUndisturbed
<1>1. ReaderInit => SharedInv
  BY InitReaderInv, InitChains, InitFinds DEF ReaderInit, SharedInv
<1>2. SharedInv /\ [ReaderNext]_allVars => SharedInv'
  BY NextShares
<1>3. SharedInv => SearchUndisturbed
  BY DEF SharedInv, EngineRuns, FoundInv, SearchUndisturbed, ComputesSearchResult
<1> QED BY <1>1, <1>2, <1>3, PTL DEF ReaderSpec

-----------------------------------------------------------------------------
(* The statistics of a call *)

\* What the call has added to the statistics is what its instructions amount to.
Tallied ==
  /\ stats.matches = before.matches + MatchCount(results)
  /\ stats.literalBytes = before.literalBytes + LiteralCount(results)

Told ==
  \/ outcome = "batch" /\ pc \in {"called", "scan", "tail", "returned"}
  \/ Counted /\ pc \in {"literals", "fill", "slide", "stream", "returned"}

CountInv == Told => Tallied

LEMMA AmountTypes ==
  ASSUME NEW t \in Seq(Instruction)
  PROVE  MatchCount(t) \in Nat /\ LiteralCount(t) \in Nat
BY ReferencesAre, LenProperties, LiteralCountType DEF MatchCount

\* The cases in which nothing is counted and nothing is sent.
LEMMA TallyKept ==
  ASSUME Tallied, UNCHANGED << results, before >>,
         stats'.matches = stats.matches, stats'.literalBytes = stats.literalBytes
  PROVE  Tallied'
BY DEF Tallied

LEMMA TallyAdds ==
  ASSUME Tallied, stats \in Stats, before \in Stats, results \in Seq(Instruction),
         NEW t \in Seq(Instruction), results' = results \o t, UNCHANGED before,
         stats'.matches = stats.matches + MatchCount(t),
         stats'.literalBytes = stats.literalBytes + LiteralCount(t)
  PROVE  Tallied'
<1>1. /\ MatchCount(results \o t) = MatchCount(results) + MatchCount(t)
      /\ LiteralCount(results \o t) = LiteralCount(results) + LiteralCount(t)
  BY CountsConcat
<1>2. /\ MatchCount(results) \in Nat /\ MatchCount(t) \in Nat
      /\ LiteralCount(results) \in Nat /\ LiteralCount(t) \in Nat
      /\ before.matches \in Nat /\ before.literalBytes \in Nat
  BY AmountTypes DEF Stats
<1> QED BY <1>1, <1>2 DEF Tallied

LEMMA TallyBegins ==
  ASSUME stats \in Stats, results' = << >>, before' = stats, stats' = stats
  PROVE  Tallied'
<1>1. MatchCount(<< >>) = 0 /\ LiteralCount(<< >>) = 0
  BY NothingAmounts
<1> QED BY <1>1 DEF Tallied, Stats

\* A reference after a list is one match more.
LEMMA MatchAdds ==
  ASSUME NEW r \in Seq(Instruction), NEW i \in Nat, NEW o \in Nat
  PROVE  LET t == Append(r, Match(i, o))
         IN  /\ t \in Seq(Instruction) /\ t = r \o << Match(i, o) >>
             /\ MatchCount(t) = MatchCount(r) + 1 /\ LiteralCount(t) = LiteralCount(r)
             /\ Plain(r) => Plain(t)
<1> DEFINE m == Match(i, o)
           s == << m >>
           t == Append(r, m)
<1>1. s \in Seq(Instruction) /\ MatchCount(s) = 1 /\ LiteralCount(s) = 0
  BY MatchAmounts
<1>2. m \in Instruction /\ m.data = << >>
  BY EmptySeq DEF Match, Instruction
<1> HIDE DEF m
<1>3. t \in Seq(Instruction) /\ t = r \o s
  BY <1>2, AppendIsConcat, AppendProperties
<1>4. Plain(r) => Plain(t)
  <2>1. /\ Len(t) = Len(r) + 1 /\ Len(r) \in Nat /\ t[Len(r) + 1] = m
        /\ \A k \in 1 .. Len(r) : t[k] = r[k]
    BY <1>2, AppendProperties, LenProperties
  <2> HIDE DEF t
  <2> QED BY <1>2, <2>1 DEF Plain
<1> HIDE DEF s, t
<1>5. /\ MatchCount(r \o s) = MatchCount(r) + MatchCount(s)
      /\ LiteralCount(r \o s) = LiteralCount(r) + LiteralCount(s)
      /\ MatchCount(r) \in Nat /\ LiteralCount(r) \in Nat
  BY <1>1, CountsConcat, AmountTypes
<1>6. MatchCount(t) = MatchCount(r) + 1 /\ LiteralCount(t) = LiteralCount(r)
  BY <1>1, <1>3, <1>5
<1> QED BY <1>3, <1>4, <1>6 DEF t, s, m

LEMMA ChunksPlain ==
  ASSUME NEW d, NEW o, Chunks(d, o) \in Seq(Instruction)
  PROVE  Plain(Chunks(d, o))
<1>1. 1 .. Len(Chunks(d, o)) = DOMAIN Chunks(d, o)
  BY LenProperties
<1>2. \A k \in DOMAIN Chunks(d, o) : Chunks(d, o)[k].isLiteral
  BY DEF Chunks, Literal
<1> QED BY <1>1, <1>2 DEF Plain

\* What the engine counts in a search in memory.
LEMMA EmitAdds ==
  ASSUME TypeOK, NEW lo \in Nat, NEW hi \in Nat, lo <= hi, hi <= Len(data)
  PROVE  LET r == EmitLiterals(lo, hi)
         IN  /\ r \in Seq(Instruction) /\ MatchCount(r) = MatchCount(results)
             /\ LiteralCount(r) = LiteralCount(results) + LiteralCost(lo, hi)
             /\ LiteralCost(lo, hi) \in Nat
<1> DEFINE t == Chunks(Slice(data, lo, hi), lo)
<1>1. t \in Seq(Instruction) /\ MatchCount(t) = 0 /\ LiteralCount(t) = hi - lo
  BY SliceChunksAmount DEF TypeOK
<1>2. EmitLiterals(lo, hi) = results \o t /\ results \in Seq(Instruction)
  BY DEF EmitLiterals, TypeOK
<1> HIDE DEF t
<1>3. /\ results \o t \in Seq(Instruction)
      /\ MatchCount(results \o t) = MatchCount(results) + MatchCount(t)
      /\ LiteralCount(results \o t) = LiteralCount(results) + LiteralCount(t)
      /\ MatchCount(results) \in Nat
  BY <1>1, <1>2, CountsConcat, AmountTypes, ConcatProperties
<1> QED BY <1>1, <1>2, <1>3 DEF LiteralCost

LEMMA SearchTallies ==
  ASSUME IInv, Tallied, SearchProgress
  PROVE  Tallied'
<1>1. /\ TypeOK /\ stats \in Stats /\ before \in Stats /\ results \in Seq(Instruction)
      /\ Len(data) \in Nat /\ MatchCount(results) \in Nat /\ LiteralCount(results) \in Nat
      /\ before.matches \in Nat /\ before.literalBytes \in Nat
      /\ stats.matches = before.matches + MatchCount(results)
      /\ stats.literalBytes = before.literalBytes + LiteralCount(results)
  BY LenProperties, AmountTypes DEF IInv, TypeOK, Stats, Tallied
<1>2. pc \in {"scan", "tail"} => /\ lastMatch \in Nat /\ offset \in Nat
                                 /\ lastMatch <= offset /\ lastMatch <= Len(data)
  BY DEF IInv, ScanInv, TypeOK
<1>3. CASE SearchLiterals
  <2> DEFINE n == Len(data)
  <2>1. /\ n \in Nat /\ 0 \in Nat /\ 0 <= n /\ n <= Len(data)
        /\ results' = EmitLiterals(0, n) /\ before' = before
        /\ stats' = [stats EXCEPT !.literalBytes = @ + LiteralCost(0, n)]
    BY <1>1, <1>3 DEF SearchLiterals
  <2> HIDE DEF n
  <2>2. /\ MatchCount(results') = MatchCount(results) /\ LiteralCost(0, n) \in Nat
        /\ LiteralCount(results') = LiteralCount(results) + LiteralCost(0, n)
    BY <1>1, <2>1, EmitAdds
  <2>3. /\ stats'.matches = stats.matches
        /\ stats'.literalBytes = stats.literalBytes + LiteralCost(0, n)
    BY <1>1, <2>1 DEF Stats
  <2>4. stats'.matches = before.matches + MatchCount(results')
    BY ONLY <1>1, <2>2, <2>3, SMTT(30)
  <2>5. stats'.literalBytes = before.literalBytes + LiteralCount(results')
    BY ONLY <1>1, <2>2, <2>3, SMTT(30)
  <2> QED BY <2>1, <2>4, <2>5 DEF Tallied
<1>4. CASE SearchBegin \/ ScanEnd
  BY <1>4, TallyKept DEF SearchBegin, ScanEnd, searchVars
<1>5. CASE ScanMatch
  <2>1. pc = "scan" /\ offset + BlockSize <= Len(data) /\ before' = before
    BY <1>5 DEF ScanMatch
  <2>2. offset <= Len(data) /\ lastMatch \in Nat /\ offset \in Nat /\ lastMatch <= offset
    BY <1>1, <1>2, <2>1, BlockSizeAssumption
  <2> DEFINE v == Value(rolling)
             e == offset + BlockSize
  <2>10. /\ Window \in Seq(Byte) /\ Len(Window) = BlockSize /\ v \in Nat
        /\ TableType /\ TableInv /\ checksums # << >> /\ basis \in Seq(Byte)
    <3>1. checksums # << >> /\ offset \in Nat /\ e <= Len(data)
      BY <1>1, <1>2, <2>1 DEF IInv, ScanInv
    <3> QED BY <1>1, <2>1, <3>1, ScanHead DEF IInv, TypeOK, TableType, Window
  <2>3. PICK k \in Compared(v) :
          /\ Agrees(v, Window, k)
          /\ results' = Append(EmitLiterals(lastMatch, offset),
                               Match(Preferred(v, Window, k), offset))
          /\ stats' = [hashHits     |-> stats.hashHits + HashHits(v),
                       falseAlarms  |-> stats.falseAlarms
                                        + Cardinality({j \in Compared(v) : j < k}),
                       matches      |-> stats.matches + 1,
                       literalBytes |-> stats.literalBytes + LiteralCost(lastMatch, offset)]
    BY <1>5 DEF ScanMatch
  <2> DEFINE i == Preferred(v, Window, k)
             cost == LiteralCost(lastMatch, offset)
  <2>11. stats'.matches = stats.matches + 1 /\ stats'.literalBytes = stats.literalBytes + cost
    BY <2>3
  <2>4. i \in Nat
    <3> HIDE DEF v
    <3> QED BY <2>10, <2>3, MatchedBlock
  <2> HIDE DEF i, v
  <2> DEFINE r == EmitLiterals(lastMatch, offset)
  <2>5. /\ r \in Seq(Instruction) /\ MatchCount(r) = MatchCount(results)
        /\ LiteralCount(r) = LiteralCount(results) + cost /\ cost \in Nat
    BY <1>1, <2>2, EmitAdds
  <2>12. results' = Append(r, Match(i, offset))
    BY <2>3 DEF i
  <2> HIDE DEF r, cost
  <2>6. /\ MatchCount(Append(r, Match(i, offset))) = MatchCount(r) + 1
        /\ LiteralCount(Append(r, Match(i, offset))) = LiteralCount(r)
    BY <2>2, <2>4, <2>5, MatchAdds
  <2>7. MatchCount(results') = MatchCount(results) + 1
        /\ LiteralCount(results') = LiteralCount(results) + cost
    BY <2>5, <2>6, <2>12
  <2>13. stats'.matches = before.matches + MatchCount(results')
    BY <1>1, <2>7, <2>11
  <2>14. stats'.literalBytes = before.literalBytes + LiteralCount(results')
    BY <1>1, <2>5, <2>7, <2>11
  <2> QED BY <2>1, <2>13, <2>14 DEF Tallied
<1>6. CASE ScanMiss
  <2>1. /\ results' = results /\ before' = before
        /\ stats'.matches = stats.matches /\ stats'.literalBytes = stats.literalBytes
    BY <1>1, <1>6 DEF ScanMiss, Stats
  <2> QED BY <2>1, TallyKept
<1>7. CASE TailMatch
  <2>1. PICK j \in 1 .. Len(checksums) :
          results' = Append(results, Match(checksums[j].index, lastMatch))
    BY <1>7 DEF TailMatch, TailBlocks
  <2>2. checksums[j].index \in Nat /\ lastMatch \in Nat
    <3>1. checksums \in Seq(BlockSums) /\ lastMatch \in Nat
      BY <1>1 DEF TypeOK
    <3>2. checksums[j] \in BlockSums
      BY <3>1, ElementOfSeq
    <3> QED BY <3>1, <3>2 DEF BlockSums
  <2>3. before' = before /\ stats' = [stats EXCEPT !.matches = @ + 1]
    BY <1>7 DEF TailMatch
  <2>4. stats'.matches = stats.matches + 1 /\ stats'.literalBytes = stats.literalBytes
    BY <1>1, <2>3 DEF Stats
  <2>5. MatchCount(results') = MatchCount(results) + 1
        /\ LiteralCount(results') = LiteralCount(results)
    BY <1>1, <2>1, <2>2, MatchAdds
  <2>6. stats'.matches = before.matches + MatchCount(results')
    BY ONLY <1>1, <2>4, <2>5, SMTT(30)
  <2>7. stats'.literalBytes = before.literalBytes + LiteralCount(results')
    BY ONLY <1>1, <2>4, <2>5, SMTT(30)
  <2> QED BY <2>3, <2>6, <2>7 DEF Tallied
<1>8. CASE TailLiterals
  <2> DEFINE n == Len(data)
  <2>1. /\ n \in Nat /\ lastMatch \in Nat /\ lastMatch <= n /\ n <= Len(data)
        /\ results' = EmitLiterals(lastMatch, n) /\ before' = before
        /\ stats' = [stats EXCEPT !.literalBytes = @ + LiteralCost(lastMatch, n)]
    BY <1>1, <1>2, <1>8 DEF TailLiterals
  <2> HIDE DEF n
  <2>2. /\ MatchCount(results') = MatchCount(results) /\ LiteralCost(lastMatch, n) \in Nat
        /\ LiteralCount(results') = LiteralCount(results) + LiteralCost(lastMatch, n)
    BY <1>1, <2>1, EmitAdds
  <2>3. /\ stats'.matches = stats.matches
        /\ stats'.literalBytes = stats.literalBytes + LiteralCost(lastMatch, n)
    BY <1>1, <2>1 DEF Stats
  <2> QED BY <1>1, <2>1, <2>2, <2>3 DEF Tallied
<1> QED BY <1>3, <1>4, <1>5, <1>6, <1>7, <1>8 DEF SearchProgress

\* What the callback is given of a list it does not refuse is all of it, and it
\* is counted as what it amounts to.
LEMMA GivenTallies ==
  ASSUME Tallied, stats \in Stats, before \in Stats, results \in Seq(Instruction),
         NEW t \in Seq(Instruction), Plain(t), NEW h \in Handed(t), h.err = "nil",
         results' = results \o SubSeq(t, 1, h.given), UNCHANGED before,
         stats'.matches = GivenStats(t, h).matches,
         stats'.literalBytes = GivenStats(t, h).literalBytes
  PROVE  Tallied'
<1> DEFINE refs == {k \in 1 .. h.given : ~ t[k].isLiteral}
           bytes == DataCount(t, 1 .. h.given)
<1>1. h.given = Len(t) /\ SubSeq(t, 1, h.given) = t
  BY HandedType, SubSeqFull
<1>2. Cardinality(refs) = MatchCount(t) /\ bytes = LiteralCount(t)
  BY <1>1, MatchCountIs, LiteralCountIs
<1>3. GivenStats(t, h) = [stats EXCEPT !.matches = @ + Cardinality(refs),
                                       !.literalBytes = @ + bytes]
  <2>1. (IF h.err = "nil" THEN h.given ELSE h.given - 1) = h.given
    OBVIOUS
  <2> QED BY <2>1, Zenon DEF GivenStats, DataCount, MapThenSumSet, MapThenFoldSet
<1> HIDE DEF refs, bytes
<1>4. /\ stats'.matches = stats.matches + MatchCount(t)
      /\ stats'.literalBytes = stats.literalBytes + LiteralCount(t)
  BY <1>2, <1>3 DEF Stats
<1>5. results' = results \o t
  BY <1>1
<1> QED BY <1>4, <1>5, TallyAdds

\* A step that hands instructions over, and what it does then.
LEMMA HandingTallies ==
  ASSUME Tallied, stats \in Stats, before \in Stats, results \in Seq(Instruction),
         NEW t \in Seq(Instruction), Plain(t), NEW h \in Handed(t),
         results' = results \o SubSeq(t, 1, h.given), UNCHANGED before,
         stats'.matches = GivenStats(t, h).matches,
         stats'.literalBytes = GivenStats(t, h).literalBytes,
         (\E next : Continue(h, next)) \/ (\E err : Return(h, err))
  PROVE  CountInv'
<1>1. CASE h.err = "nil"
  BY <1>1, GivenTallies DEF CountInv
<1>2. CASE h.err = "callback"
  <2>1. pc' = "returned" /\ outcome' = "callback"
    BY <1>2 DEF Continue, Return
  <2> QED BY <2>1 DEF CountInv, Told, Counted
<1> QED BY <1>1, <1>2, HandedType

LEMMA RemainingPlain ==
  ASSUME NEW g, NEW n, Remaining(g, n) \in Seq(Instruction)
  PROVE  Plain(Remaining(g, n))
<1> DEFINE end == Least(bufBase + n, fileSize)
           c == Chunks(Slice(g, lastMatch - bufBase, end - bufBase), lastMatch)
<1>1. Remaining(g, n) = IF lastMatch >= end THEN << >> ELSE c
  BY DEF Remaining
<1>2. CASE lastMatch >= end
  BY <1>1, <1>2, NothingAmounts
<1>3. CASE ~ (lastMatch >= end)
  <2>1. Remaining(g, n) = c /\ c \in Seq(Instruction)
    BY <1>1, <1>3
  <2> QED BY <2>1, ChunksPlain
<1> QED BY <1>2, <1>3

\* The steps of a streaming call.
LEMMA StreamingTold ==
  ASSUME ReaderInv, CountInv, pc \in {"literals", "fill", "slide", "stream"}
  PROVE  /\ Tallied /\ outcome = "none" /\ ReaderTypeOK
         /\ stats \in Stats /\ before \in Stats /\ results \in Seq(Instruction)
<1>1. outcome = "none" /\ ReaderTypeOK
  BY DEF ReaderInv, CallInv, Reading, Filling, Looping
<1>2. Tallied
  BY <1>1 DEF CountInv, Told, Counted
<1> QED BY <1>1, <1>2 DEF ReaderTypeOK

LEMMA ReadingTallies ==
  ASSUME ReaderInv, CountInv, pc \in {"literals", "fill", "slide", "stream"},
         UNCHANGED << results, stats, before >>
  PROVE  CountInv'
<1>1. Tallied
  BY StreamingTold
<1> QED BY <1>1, TallyKept DEF CountInv

LEMMA StreamLiteralsTallies ==
  ASSUME ReaderInv, CountInv, StreamLiterals
  PROVE  CountInv'
<1>1. /\ pc = "literals" /\ fed = offset /\ offset \in Nat /\ offset < fileSize
      /\ fileSize \in Nat /\ offset <= Len(data) /\ data \in Seq(Byte)
  BY SourceType, LenProperties
     DEF ReaderInv, LiteralsInv, ReaderTypeOK, StreamLiterals, Least
<1> DEFINE want == Least(ChunkSize, fileSize - offset)
<1>2. want \in Nat
  BY <1>1, ChunkSizeAssumption DEF Least
<1> HIDE DEF want
<1>3. PICK r \in FullReads(want) :
        \E h \in Handed(Chunks(Slice(data, fed, fed + r.n), offset)) :
             /\ Give(Chunks(Slice(data, fed, fed + r.n), offset), h)
             /\ IF r.err = "nil" THEN Continue(h, pc) ELSE Return(h, Hidden(r.err))
  BY DEF StreamLiterals, want
<1> DEFINE lo == fed
           hi == fed + r.n
           t == Chunks(Slice(data, lo, hi), lo)
<1>4. PICK h \in Handed(t) :
        /\ results' = results \o SubSeq(t, 1, h.given) /\ stats' = GivenStats(t, h)
        /\ (\E next : Continue(h, next)) \/ (\E err : Return(h, err))
  BY <1>1, <1>3 DEF Give
<1>5. lo \in Nat /\ hi \in Nat /\ lo <= hi /\ hi <= Len(data)
  <2>1. ReaderTypeOK /\ fed <= Len(data)
    BY <1>1 DEF ReaderInv
  <2>2. r.n \in Nat /\ fed + r.n <= Len(data)
    BY <1>2, <2>1, FullReadsType
  <2> QED BY <1>1, <2>2
<1> HIDE DEF lo, hi
<1>6. t \in Seq(Instruction) /\ Plain(t)
  BY <1>1, <1>5, SliceChunksAmount
<1>7. before' = before
  BY DEF StreamLiterals
<1> HIDE DEF t
<1> QED BY <1>1, <1>4, <1>6, <1>7, StreamingTold, HandingTallies

LEMMA FillShortTallies ==
  ASSUME ReaderInv, FillShort
  PROVE  CountInv'
<1>1. PICK r \in Reads : bufLen + r.n \in 1 .. BlockSize - 1 /\ Take(r)
  BY DEF FillShort
<1>2. bufBase = 0 /\ fed = bufBase + bufLen /\ bufLen \in Nat
  BY DEF FillShort, ReaderInv, FillInv, BufferInv, Reading, Filling, ReaderTypeOK
<1>3. fed' = bufLen + r.n /\ BlockSize \in Nat
  BY <1>1, <1>2, BlockSizeAssumption DEF Take
<1>4. ~ (fed' >= BlockSize)
  BY <1>1, <1>3
<1>5. pc' = "returned" /\ outcome' \in {"nil", "callback"}
  BY DEF FillShort, Return
<1> QED BY <1>4, <1>5 DEF CountInv, Told, Counted

LEMMA SlideFailTallies ==
  ASSUME ReaderInv, CountInv, SlideFail
  PROVE  CountInv'
<1>1. pc = "slide"
  BY DEF SlideFail
<1> DEFINE t == Remaining(buf', bufLen')
<1>2. PICK r \in Reads : /\ Take(r)
                         /\ \E h \in Handed(t) : Give(t, h) /\ Return(h, Hidden(r.err))
  BY DEF SlideFail
<1>3. PICK h \in Handed(t) :
        /\ results' = results \o SubSeq(t, 1, h.given) /\ stats' = GivenStats(t, h)
        /\ \E err : Return(h, err)
  BY <1>2 DEF Give
<1>4. before' = before
  BY DEF SlideFail
<1>5. t \in Seq(Instruction)
  <2>1. /\ ReaderTypeOK /\ BufferInv /\ Reading /\ fed \in Nat /\ lastMatch \in Nat
        /\ lastMatch <= fed /\ lastMatch <= fileSize /\ bufBase <= lastMatch
    BY <1>1 DEF ReaderInv, ReaderTypeOK, Reading, Looping, BufferInv
  <2>2. /\ bufLen' \in Nat /\ fed' = bufBase + bufLen' /\ fed' \in Nat /\ fed <= fed'
        /\ Mirrors(buf', bufLen', data, bufBase)
    BY <1>2, <2>1, TakeMirrors DEF SlideFail
  <2>3. lastMatch <= bufBase + bufLen'
    BY <2>1, <2>2
  <2> QED BY <2>1, <2>2, <2>3, RemainingCovers
<1>6. Plain(t)
  BY <1>5, RemainingPlain
<1> HIDE DEF t
<1> QED BY <1>1, <1>3, <1>4, <1>5, <1>6, StreamingTold, HandingTallies

LEMMA StreamMatchTallies ==
  ASSUME ReaderInv, CountInv, StreamMatch
  PROVE  CountInv'
<1> DEFINE v == Value(CurrentSum)
           w == StreamWindow
           literals == Chunks(Buffered(lastMatch, offset), lastMatch)
<1>1. /\ Scanning /\ ~ SlideNeeded /\ Reading /\ pc = "stream" /\ ReaderTypeOK
      /\ TableInv /\ TableType /\ checksums # << >> /\ basis \in Seq(Byte)
      /\ offset \in Nat /\ lastMatch \in Nat /\ lastMatch <= offset
      /\ fed \in Nat /\ stats \in Stats
  BY DEF StreamMatch, WindowChecked, Scanning, ReaderInv, BufferInv, Reading,
         Looping, ReaderTypeOK, TableType
<1>2. /\ offset + BlockSize <= fed /\ offset + BlockSize <= Len(Source)
      /\ w \in Seq(Byte) /\ Len(w) = BlockSize /\ v \in Nat
  BY <1>1, StreamHead
<1>3. offset <= fed /\ offset <= Len(Source)
  BY <1>1, <1>2, SourceType, BlockSizeAssumption
<1>4. PICK k \in Compared(v) :
        /\ Agrees(v, w, k)
        /\ LET insts == Append(literals, Match(Preferred(v, w, k), offset))
           IN  \E h \in Handed(insts) :
                 /\ results' = results \o SubSeq(insts, 1, h.given)
                 /\ stats' = [GivenStats(insts, h) EXCEPT
                      !.hashHits = @ + HashHits(v),
                      !.falseAlarms = @ + Cardinality({j \in Compared(v) : j < k})]
                 /\ Continue(h, pc)
  BY DEF StreamMatch
<1> DEFINE i == Preferred(v, w, k)
           t == Append(literals, Match(i, offset))
<1>5. PICK h \in Handed(t) :
        /\ results' = results \o SubSeq(t, 1, h.given)
        /\ stats' = [GivenStats(t, h) EXCEPT
             !.hashHits = @ + HashHits(v),
             !.falseAlarms = @ + Cardinality({j \in Compared(v) : j < k})]
        /\ \E next : Continue(h, next)
  BY <1>4
<1>6. i \in Nat
  <2> HIDE DEF v, w
  <2> QED BY <1>1, <1>2, <1>4, MatchedBlock
<1> HIDE DEF i
<1>7. t \in Seq(Instruction) /\ Plain(t)
  <2>1. literals \in Seq(Instruction)
    BY <1>1, <1>3, LiteralsCover
  <2>2. Plain(literals)
    BY <2>1, ChunksPlain
  <2> HIDE DEF literals
  <2> QED BY <1>1, <1>6, <2>1, <2>2, MatchAdds
<1> HIDE DEF t
<1>8. /\ stats'.matches = GivenStats(t, h).matches
      /\ stats'.literalBytes = GivenStats(t, h).literalBytes
  <2>1. GivenStats(t, h) \in Stats
    BY <1>1, <1>7, GivenStatsType
  <2> QED BY <1>5, <2>1 DEF Stats
<1>9. before' = before
  BY DEF StreamMatch
<1> QED BY <1>1, <1>5, <1>7, <1>8, <1>9, StreamingTold, HandingTallies

LEMMA StreamMissTallies ==
  ASSUME ReaderInv, CountInv, StreamMiss
  PROVE  CountInv'
<1> DEFINE v == Value(CurrentSum)
           t == Backlog
<1>1. /\ Scanning /\ ~ SlideNeeded /\ Reading /\ pc = "stream" /\ ReaderTypeOK
      /\ offset \in Nat /\ lastMatch \in Nat /\ fed \in Nat /\ stats \in Stats
      /\ nextLiteralCheck = lastMatch + ChunkSize /\ ChunkSize \in Nat /\ BlockSize \in Nat
      /\ Len(Source) \in Nat
  BY BlockSizeAssumption, ChunkSizeAssumption, SourceType
     DEF StreamMiss, WindowChecked, Scanning, ReaderInv, AheadInv, Reading,
         Looping, ReaderTypeOK
<1>2. offset + BlockSize <= fed /\ offset + BlockSize <= Len(Source)
  BY <1>1, StreamHead
<1>3. PICK h \in Handed(t) :
        /\ results' = results \o SubSeq(t, 1, h.given)
        /\ stats' = [GivenStats(t, h) EXCEPT
                       !.hashHits = @ + HashHits(v),
                       !.falseAlarms = @ + Cardinality(Compared(v))]
        /\ \E next : Continue(h, next)
  BY DEF StreamMiss
<1>4. t \in Seq(Instruction) /\ Plain(t)
  <2>1. CASE offset >= nextLiteralCheck
    <3> DEFINE hi == lastMatch + ChunkSize
    <3>1. hi \in Nat /\ lastMatch <= hi /\ hi <= fed /\ hi <= Len(Source)
      BY <1>1, <1>2, <2>1
    <3>2. t = Chunks(Buffered(lastMatch, hi), lastMatch)
      BY <2>1 DEF Backlog
    <3> HIDE DEF hi, t
    <3>3. t \in Seq(Instruction)
      BY <1>1, <3>1, <3>2, LiteralsCover
    <3> QED BY <3>2, <3>3, ChunksPlain
  <2>2. CASE ~ (offset >= nextLiteralCheck)
    BY <2>2, NothingAmounts DEF Backlog
  <2> QED BY <2>1, <2>2
<1> HIDE DEF t
<1>5. /\ stats'.matches = GivenStats(t, h).matches
      /\ stats'.literalBytes = GivenStats(t, h).literalBytes
  <2>1. GivenStats(t, h) \in Stats
    BY <1>1, <1>4, GivenStatsType
  <2> QED BY <1>3, <2>1 DEF Stats
<1>6. before' = before
  BY DEF StreamMiss
<1> QED BY <1>1, <1>3, <1>4, <1>5, <1>6, StreamingTold, HandingTallies

LEMMA StreamEndTallies ==
  ASSUME ReaderInv, CountInv, StreamEnd
  PROVE  CountInv'
<1> DEFINE t == StreamTail
<1>1. pc = "stream" /\ before' = before
  BY DEF StreamEnd
<1>2. PICK h \in Handed(t) :
        /\ results' = results \o SubSeq(t, 1, h.given) /\ stats' = GivenStats(t, h)
        /\ \E err : Return(h, err)
  BY DEF StreamEnd, Give
<1>3. t \in Seq(Instruction)
  BY <1>1, StreamTailCovers
<1>4. Plain(t)
  <2>1. CASE lastMatch < fileSize /\ StreamTailBlocks # {}
    <3>1. t = << Match(checksums[Max(StreamTailBlocks)].index, lastMatch) >>
      BY <2>1 DEF StreamTail
    <3>2. Len(t) = 1 /\ t[1].data = << >>
      BY <3>1 DEF Match
    <3> QED BY <3>2 DEF Plain
  <2>2. CASE ~ (lastMatch < fileSize /\ StreamTailBlocks # {})
    <3>1. t = Remaining(buf, bufLen)
      BY <2>2 DEF StreamTail
    <3> QED BY <1>3, <3>1, RemainingPlain
  <2> QED BY <2>1, <2>2
<1> HIDE DEF t
<1> QED BY <1>1, <1>2, <1>3, <1>4, StreamingTold, HandingTallies

LEMMA EngineTallies ==
  ASSUME ReaderInv, CountInv, EngineStep
  PROVE  CountInv'
<1>0. UNCHANGED readerVars /\ outcome' = outcome
  BY DEF EngineStep, readerVars
<1>1. CASE pc' \in {"build", "idle"}
  BY <1>1 DEF CountInv, Told
<1>2. CASE Rest
  <2>1. UNCHANGED allVars
    BY <1>0, <1>2 DEF Rest, allVars
  <2> QED BY <2>1 DEF CountInv, Told, Counted, Tallied, allVars, vars, searchVars,
                      readerVars, bufVars
<1>3. CASE SearchProgress
  <2>1. pc \in {"called", "scan", "tail"}
    BY <1>3 DEF SearchProgress, SearchLiterals, SearchBegin, ScanMatch, ScanMiss, ScanEnd,
                TailMatch, TailLiterals
  <2>2. outcome = "batch" /\ EngineRuns
    BY <2>1 DEF ReaderInv, CallInv, EngineRuns
  <2>3. IInv /\ Tallied
    BY <2>1, <2>2, EngineIInv DEF CountInv, Told
  <2> QED BY <1>3, <2>3, SearchTallies DEF CountInv
<1>4. (\E f \in Bases : LoadSignature(f)) \/ LoadNil \/ InsertBlock \/ Built
        => pc' \in {"build", "idle"}
  BY DEF LoadSignature, LoadNil, InsertBlock, Built
<1> QED BY <1>1, <1>2, <1>3, <1>4 DEF EngineStep, Progress

LEMMA NextTallies ==
  ASSUME ReaderInv, CountInv, [ReaderNext]_allVars
  PROVE  CountInv'
<1>1. CASE EngineStep
  BY <1>1, EngineTallies
<1>2. ASSUME NEW d \in Searched, CallSearch(d) PROVE CountInv'
  <2>1. results' = << >> /\ before' = stats /\ stats' = stats /\ stats \in Stats
    BY <1>2 DEF CallSearch, Search, ReaderInv, ReaderTypeOK
  <2> QED BY <2>1, TallyBegins DEF CountInv
<1>3. ASSUME NEW d \in Inputs, NEW size \in FileSizes(d), CallReader(d, size) PROVE CountInv'
  <2>1. results' = << >> /\ before' = stats /\ stats' = stats /\ stats \in Stats
    BY <1>3 DEF CallReader, ReaderInv, ReaderTypeOK
  <2> QED BY <2>1, TallyBegins DEF CountInv
<1>4. CASE StreamLiterals \/ FillShort \/ SlideFail
  BY <1>4, StreamLiteralsTallies, FillShortTallies, SlideFailTallies
<1>5. CASE StreamMatch \/ StreamMiss \/ StreamEnd
  BY <1>5, StreamMatchTallies, StreamMissTallies, StreamEndTallies
<1>6. CASE LiteralsEnd \/ ReadMore \/ FillFail \/ FillDone \/ Slide \/ SlideDone
  <2>1. pc \in {"literals", "fill", "slide", "stream"}
    BY <1>6 DEF LiteralsEnd, ReadMore, FillFail, FillDone, Slide, SlideDone, Scanning
  <2>2. UNCHANGED << results, stats, before >>
    BY <1>6 DEF LiteralsEnd, ReadMore, FillFail, FillDone, Slide, SlideDone, searchVars
  <2> QED BY <2>1, <2>2, ReadingTallies
<1>7. CASE UNCHANGED allVars
  BY <1>7 DEF CountInv, Told, Counted, Tallied, allVars, vars, searchVars, readerVars, bufVars
<1> QED BY <1>1, <1>2, <1>3, <1>4, <1>5, <1>6, <1>7 DEF ReaderNext, ReaderReturn

\* What each call adds to the statistics is what its own instructions amount to,
\* over any sequence of calls, streamed or not, and however the reads are cut
\* (types.go:76; SearchReader counts in one order, Search in another).
THEOREM CallsAreCounted == ASSUME Announced PROVE ReaderSpec => []CallsCounted
<1>1. ReaderInit => CountInv
  BY DEF ReaderInit, Init, CountInv, Told
<1>2. ReaderInv /\ CountInv /\ [ReaderNext]_allVars => CountInv'
  BY NextTallies
<1>3. ReaderInv /\ CountInv => CallsCounted
  <2> SUFFICES ASSUME ReaderInv, CountInv,
                      \/ outcome = "batch" /\ pc \in {"scan", "tail", "returned"}
                      \/ Counted /\ pc \in {"stream", "returned"}
               PROVE  /\ stats.matches - before.matches = MatchCount(results)
                      /\ stats.literalBytes - before.literalBytes = LiteralCount(results)
    BY DEF CallsCounted
  <2>1. Tallied /\ before \in Stats /\ results \in Seq(Instruction)
    BY DEF CountInv, Told, ReaderInv, ReaderTypeOK
  <2>2. /\ before.matches \in Nat /\ before.literalBytes \in Nat
        /\ MatchCount(results) \in Nat /\ LiteralCount(results) \in Nat
    BY <2>1, AmountTypes DEF Stats
  <2> QED BY <2>1, <2>2 DEF Tallied
<1> QED BY <1>1, <1>2, <1>3, ReaderInvariant, PTL DEF ReaderSpec

-----------------------------------------------------------------------------
(* The references of a stream *)

\* The reader has what was announced.
Whole == fileSize = Len(data)

\* No window from lo to hi - 1 is a block known.
NoneKnown(lo, hi) ==
  \A o \in lo .. hi - 1 : Candidates(basis, KnownBlocks, Slice(data, o, o + BlockSize)) = {}

\* Where a search in memory is that has emitted everything before lm.
There(lm) == [o |-> offset, lm |-> lm, want |-> wantIdx]

\* It stands where the stream stands, though the stream has sent literals early,
\* and has the same references behind it.
Alongside(lm) ==
  /\ lm \in 0 .. lastMatch /\ (lm = lastMatch \/ lastMatch + BlockSize <= Len(data))
  /\ There(lm) \in ScanStates(basis, data)
  /\ NoneKnown(lm, offset)
  /\ References(results) \o References(Scanner(basis, KnownBlocks, data)[There(lm)])
       = References(Answer)

InPace == \E lm \in Nat : Alongside(lm)

SameInv ==
  /\ pc = "literals" =>
       (checksums = << >> \/ fileSize < BlockSize) /\ References(results) = << >>
  /\ Filling => wantIdx = 0
  /\ pc = "slide" => fed < needEnd
  /\ Looping /\ Whole => InPace
  /\ SameAsBatch

LEMMA ReferencesType ==
  ASSUME NEW t \in Seq(Instruction)
  PROVE  References(t) \in Seq(Instruction)
BY ReferencesAre

\* What comes before a reference does not matter if it is literals.
LEMMA OneReference ==
  ASSUME NEW c \in Seq(Instruction), References(c) = << >>, NEW i \in Nat, NEW o \in Nat
  PROVE  /\ Append(c, Match(i, o)) \in Seq(Instruction) /\ Match(i, o) \in Instruction
         /\ References(Append(c, Match(i, o))) = << Match(i, o) >>
<1> DEFINE m == Match(i, o)
           s == << m >>
<1>1. m \in Instruction /\ s \in Seq(Instruction) /\ References(s) = s
  BY MatchAmounts, EmptySeq DEF Match, Instruction
<1> HIDE DEF m
<1>2. Append(c, m) = c \o s /\ c \o s \in Seq(Instruction)
  BY <1>1, AppendIsConcat, ConcatProperties
<1> HIDE DEF s
<1>3. References(c \o s) = << >> \o s
  BY <1>1, CountsConcat
<1>4. << >> \o s = s
  BY <1>1, ConcatEmptySeq
<1> QED BY <1>1, <1>2, <1>3, <1>4 DEF m, s

\* The references of what a search emits for a match and from there on.
LEMMA SentRefers ==
  ASSUME NEW d \in Seq(Byte), NEW s, s.lm \in Nat, s.o \in Nat, s.lm <= s.o, s.o <= Len(d),
         NEW i \in Nat, NEW rest \in Seq(Instruction)
  PROVE  References(SentAt(d, s, i, rest)) = << Match(i, s.o) >> \o References(rest)
<1> DEFINE lo == s.lm
           hi == s.o
           c == Chunks(Slice(d, lo, hi), lo)
           t == Append(c, Match(i, hi))
<1>1. lo \in Nat /\ hi \in Nat /\ lo <= hi /\ hi <= Len(d)
  OBVIOUS
<1>2. SentAt(d, s, i, rest) = t \o rest
  BY DEF SentAt, Pending
<1> HIDE DEF lo, hi
<1>3. c \in Seq(Instruction) /\ References(c) = << >>
  BY <1>1, SliceChunksAmount
<1> HIDE DEF c
<1>4. t \in Seq(Instruction) /\ References(t) = << Match(i, hi) >>
  BY <1>1, <1>3, OneReference
<1> HIDE DEF t
<1>5. References(t \o rest) = References(t) \o References(rest)
  BY <1>4, CountsConcat
<1> QED BY <1>2, <1>4, <1>5 DEF hi

\* The engine and the source while the stream is read.
LEMMA StreamGround ==
  ASSUME SharedInv, Reading
  PROVE  /\ Loaded /\ AreBlocks(basis, KnownBlocks) /\ ReaderTypeOK /\ BufferInv
         /\ basis \in Seq(Byte) /\ data \in Seq(Byte) /\ results \in Seq(Instruction)
         /\ NumBlocks(basis) \in Nat /\ Len(data) \in Nat /\ BlockSize \in Nat \ {0}
         /\ offset \in Nat /\ lastMatch \in Nat /\ wantIdx \in Nat /\ fed \in Nat
         /\ fileSize \in Nat /\ lastMatch <= offset /\ bufBase <= lastMatch
         /\ lastMatch <= fed /\ fed <= Len(data) /\ fed = bufBase + bufLen
         /\ bufBase \in Nat /\ bufLen \in Nat /\ outcome = "none"
         /\ NumBlocks(basis) # 0
<1>1. /\ ReaderInv /\ ChainInv /\ ReaderTypeOK /\ BufferInv /\ pc # "build"
      /\ checksums # << >> /\ outcome = "none"
  BY DEF SharedInv, ReaderInv, BufferInv, CallInv, Reading, Filling, Looping
<1>2. Loaded
  BY <1>1 DEF Loaded, TableType, ReaderTypeOK
<1>3. AreBlocks(basis, KnownBlocks)
  BY <1>2, KnownAreBlocks DEF AreBlocks
<1>4. Len(data) \in Nat /\ NumBlocks(basis) \in Nat
  BY <1>1, LenProperties, NumBlocksType DEF ReaderTypeOK
<1>5. NumBlocks(basis) # 0
  <2>1. Len(checksums) = NumBlocks(basis) /\ checksums \in Seq(BlockSums)
    BY <1>1, <1>2, LoadedFacts DEF ReaderTypeOK
  <2> QED BY <1>1, <2>1, EmptySeq
<1>6. fed <= Len(data)
  BY <1>1 DEF BufferInv, Mirrors
<1> QED BY <1>1, <1>2, <1>3, <1>4, <1>5, <1>6, BlockSizeAssumption DEF ReaderTypeOK, BufferInv

\* A tail of a block or more is sent as a block only if the window at its
\* beginning is one.
LEMMA TailUnknown ==
  ASSUME Loaded, AmpleProbes, data \in Seq(Byte), NEW lm \in Nat, lm + BlockSize <= Len(data),
         Candidates(basis, KnownBlocks, Slice(data, lm, lm + BlockSize)) = {}
  PROVE  References(TailResult(basis, data, lm)) = << >>
<1> DEFINE n == Len(data)
           b == lm \div BlockSize
           w == Slice(data, lm, n)
<1>1. /\ n \in Nat /\ BlockSize \in Nat \ {0} /\ b \in Nat /\ lm <= n /\ n <= Len(data)
      /\ basis \in Seq(Byte)
  <2>1. n \in Nat /\ BlockSize \in Nat \ {0} /\ basis \in Seq(Byte)
    BY LenProperties, BlockSizeAssumption DEF Loaded
  <2>2. b \in Nat
    BY <2>1, QuotientType
  <2> HIDE DEF b
  <2> QED BY <2>1, <2>2
<1> HIDE DEF b, n
<1>2. Len(w) = n - lm
  BY <1>1, SliceType, ZenonT(60)
<1>3. ~ (b < NumBlocks(basis) /\ Block(basis, b) = w)
  <2> SUFFICES ASSUME b < NumBlocks(basis), Block(basis, b) = w PROVE FALSE
    OBVIOUS
  <2>1. b \in 0 .. NumBlocks(basis) - 1
    BY <1>1, NumBlocksType
  <2>2. Len(Block(basis, b)) <= BlockSize
    <3>1. /\ Len(Block(basis, b)) = BlockEnd(basis, b) - b * BlockSize
          /\ BlockEnd(basis, b) - b * BlockSize <= BlockSize
      BY <1>1, <2>1, BlockType, BlockBounds
    <3> QED BY <3>1
  <2>3. n = lm + BlockSize
    <3>1. n - lm <= BlockSize /\ lm + BlockSize <= n
      BY <1>2, <2>2 DEF n
    <3> QED BY <1>1, <3>1
  <2>4. b \in Candidates(basis, KnownBlocks, Slice(data, lm, lm + BlockSize))
    <3>1. b \in KnownBlocks
      BY <2>1, AllKnown
    <3> QED BY <2>3, <3>1 DEF Candidates
  <2> QED BY <2>4
<1>4. TailResult(basis, data, lm) = Chunks(w, lm)
  BY <1>3 DEF TailResult, b, w, n
<1>5. References(Chunks(w, lm)) = << >>
  BY <1>1, SliceChunksAmount
<1> QED BY <1>4, <1>5

LEMMA RemainingRefers ==
  ASSUME SharedInv, Reading, lastMatch <= fileSize
  PROVE  References(Remaining(buf, bufLen)) = << >>
<1> DEFINE hi == Least(bufBase + bufLen, fileSize)
           c == Chunks(Buffered(lastMatch, hi), lastMatch)
<1>1. /\ ReaderTypeOK /\ BufferInv /\ data \in Seq(Byte) /\ lastMatch \in Nat
      /\ hi \in Nat /\ lastMatch <= hi /\ hi <= fed /\ hi <= Len(data) /\ bufBase <= lastMatch
  BY StreamGround DEF Least
<1>2. Remaining(buf, bufLen) = IF lastMatch >= hi THEN << >> ELSE c
  BY DEF Remaining, Buffered
<1> HIDE DEF hi
<1>3. Buffered(lastMatch, hi) = Slice(data, lastMatch, hi)
  BY <1>1, BufferedIs
<1>4. References(Chunks(Slice(data, lastMatch, hi), lastMatch)) = << >>
  BY <1>1, SliceChunksAmount
<1>5. References(c) = << >> /\ References(<< >>) = << >>
  BY <1>3, <1>4, NothingAmounts
<1> HIDE DEF c
<1> QED BY <1>2, <1>5

\* At its end a stream that has read everything refers to what a search in
\* memory refers to whose last match ended there.
LEMMA StreamTailRefers ==
  ASSUME SharedInv, pc = "stream", Whole, fed = Len(data)
  PROVE  References(StreamTail) = References(TailResult(basis, data, lastMatch))
<1> DEFINE n == Len(data)
           b == lastMatch \div BlockSize
<1>0. Reading
  BY DEF Reading, Looping
<1>1. /\ Loaded /\ data \in Seq(Byte) /\ n \in Nat /\ lastMatch \in Nat /\ bufBase <= lastMatch
      /\ lastMatch <= n /\ fileSize = n /\ bufBase + bufLen >= fileSize /\ ReaderTypeOK
      /\ BufferInv /\ n <= fed /\ lastMatch <= fileSize /\ n <= Len(data)
      /\ Len(checksums) \in Nat /\ Len(checksums) = NumBlocks(basis)
  BY <1>0, StreamGround, LoadedFacts DEF Whole
<1>2. TailBytes = Slice(data, lastMatch, n)
  BY DEF TailBytes
<1>3. /\ Buffered(lastMatch, fileSize) = TailBytes
      /\ TailBytes \in Seq(Byte) /\ Len(TailBytes) = fileSize - lastMatch
  <2> HIDE DEF n
  <2>1. Buffered(lastMatch, n) = Slice(data, lastMatch, n)
    BY <1>0, <1>1, BufferedIs
  <2>2. Slice(data, lastMatch, n) \in Seq(Byte) /\ Len(Slice(data, lastMatch, n)) = n - lastMatch
    BY <1>1, SliceType, ZenonT(60)
  <2> QED BY <1>1, <1>2, <2>1, <2>2
<1>4. StreamTailBlocks = TailBlocks
  BY <1>1, <1>3 DEF StreamTailBlocks, TailBlocks
<1>5. TailResult(basis, data, lastMatch) =
        IF TailIsBlock(b) /\ lastMatch < n THEN << Match(b, lastMatch) >>
        ELSE Chunks(TailBytes, lastMatch)
  BY DEF TailResult, TailIsBlock, TailBytes
<1>6. CASE lastMatch < fileSize /\ StreamTailBlocks # {}
  <2> DEFINE i == Max(StreamTailBlocks)
  <2>1. i \in TailBlocks /\ i \in 1 .. Len(checksums)
    <3>1. StreamTailBlocks \subseteq 1 .. Len(checksums)
      BY DEF StreamTailBlocks
    <3> QED BY <1>1, <1>4, <1>6, <3>1, LargestElement
  <2>2. StreamTail = << Match(checksums[i].index, lastMatch) >>
    BY <1>6 DEF StreamTail
  <2> HIDE DEF i
  <2>3. TailIsBlock(i - 1) /\ checksums[i].index = i - 1
    BY <1>1, <1>3, <2>1, TailBlocksAre
  <2>4. i - 1 = b
    BY <2>3 DEF TailIsBlock
  <2>5. lastMatch < n
    BY <1>1, <1>6
  <2> QED BY <1>5, <2>2, <2>3, <2>4, <2>5
<1>7. CASE ~ (lastMatch < fileSize /\ StreamTailBlocks # {})
  <2>1. StreamTail = Remaining(buf, bufLen)
    BY <1>7 DEF StreamTail
  <2>2. ~ (TailIsBlock(b) /\ lastMatch < n)
    <3> SUFFICES ASSUME TailIsBlock(b), TailBlocks = {} PROVE FALSE
      BY <1>1, <1>4, <1>7
    <3>1. b \in Nat
      BY <1>1, BlockSizeAssumption, QuotientType
    <3>2. b < Len(checksums)
      <4>1. b < NumBlocks(basis)
        BY DEF TailIsBlock
      <4> HIDE DEF b
      <4> QED BY <1>1, <4>1
    <3> HIDE DEF b
    <3> DEFINE i == b + 1
    <3>3. i \in 1 .. Len(checksums) /\ TailIsBlock(i - 1)
      BY <1>1, <3>1, <3>2
    <3> HIDE DEF i
    <3>4. i \in TailBlocks
      BY <1>1, <1>3, <3>3, TailBlocksAre
    <3> QED BY <3>4
  <2>3. TailResult(basis, data, lastMatch) = Chunks(TailBytes, lastMatch)
    BY <1>5, <2>2
  <2>4. References(Chunks(TailBytes, lastMatch)) = << >>
    BY <1>1, <1>3, ChunksAmount
  <2>5. References(Remaining(buf, bufLen)) = << >>
    BY <1>0, <1>1, RemainingRefers
  <2> QED BY <2>1, <2>3, <2>4, <2>5
<1> QED BY <1>6, <1>7

\* What is behind a search, and what it still will emit, do not change while
\* the scan stands still.
LEMMA WayStays ==
  ASSUME InPace, UNCHANGED engineVars,
         UNCHANGED << data, results, offset, lastMatch, wantIdx >>
  PROVE  InPace'
<1>1. /\ Answer' = Answer
      /\ (Scanner(basis, KnownBlocks, data))' = Scanner(basis, KnownBlocks, data)
      /\ (ScanStates(basis, data))' = ScanStates(basis, data)
      /\ KnownBlocks' = KnownBlocks /\ basis' = basis
  BY AnswerStays, KnownStay DEF engineVars
<1>2. ASSUME NEW lm \in Nat, Alongside(lm)
      PROVE  Alongside(lm)'
  <2>1. There(lm)' = There(lm) /\ NoneKnown(lm, offset)' = NoneKnown(lm, offset)
    BY <1>1 DEF There, NoneKnown
  <2> QED BY <1>1, <1>2, <2>1 DEF Alongside
<1> QED BY <1>2 DEF InPace

\* A call that has returned an error promises nothing.
LEMMA FailedSame ==
  ASSUME pc' = "returned", outcome' # "nil"
  PROVE  SameInv'
BY DEF SameInv, SameAsBatch, Success, Filling, Looping

LEMMA ReturnedSame ==
  ASSUME pc' = "returned",
         Whole' /\ ~ Unread' /\ AmpleProbes' => References(results') = References(Answer')
  PROVE  SameInv'
BY DEF SameInv, SameAsBatch, Success, Filling, Looping, Whole, Answer

\* Where there is nothing to match, a search in memory refers to nothing either.
LEMMA LiteralsSame ==
  ASSUME SharedInv, SameInv, pc = "literals", Whole
  PROVE  References(Answer) = << >>
<1>1. /\ checksums = << >> \/ Len(data) < BlockSize
      /\ data \in Seq(Byte) /\ basis \in Seq(Byte) /\ checksums = Signature(basis)
  BY DEF SameInv, Whole, SharedInv, ChainInv, ReaderInv, ReaderTypeOK
<1>2. NumBlocks(basis) = 0 \/ Len(data) < BlockSize
  <2>1. Len(Signature(basis)) = NumBlocks(basis) /\ Len(<< >>) = 0
    BY <1>1, SignatureEntries, EmptySeq
  <2> QED BY <1>1, <2>1
<1>3. Answer = Chunks(data, 0)
  BY <1>2, Zenon DEF Answer, SearchResult
<1> QED BY <1>1, <1>3, ChunksAmount

LEMMA StreamLiteralsSame ==
  ASSUME SharedInv, SameInv, StreamLiterals
  PROVE  SameInv'
<1>1. /\ pc = "literals" /\ fed = offset /\ offset \in Nat /\ offset < fileSize
      /\ fileSize \in Nat /\ offset <= Len(data) /\ data \in Seq(Byte) /\ ReaderTypeOK
      /\ results \in Seq(Instruction) /\ References(results) = << >>
  <2>1. /\ pc = "literals" /\ offset < fileSize /\ ReaderTypeOK /\ References(results) = << >>
        /\ fed = offset /\ offset <= Len(Source)
    BY DEF SharedInv, SameInv, ReaderInv, LiteralsInv, StreamLiterals
  <2>2. /\ offset \in Nat /\ fileSize \in Nat /\ data \in Seq(Byte)
        /\ results \in Seq(Instruction)
    BY <2>1 DEF ReaderTypeOK
  <2>3. Len(Source) \in Nat /\ Len(data) \in Nat /\ Len(Source) <= Len(data)
    BY <2>1, <2>2, SourceType, LenProperties
  <2> QED BY <2>1, <2>2, <2>3
<1> DEFINE want == Least(ChunkSize, fileSize - offset)
<1>2. want \in Nat
  BY <1>1, ChunkSizeAssumption DEF Least
<1> HIDE DEF want
<1>3. PICK r \in FullReads(want) :
        \E h \in Handed(Chunks(Slice(data, fed, fed + r.n), offset)) :
             /\ Give(Chunks(Slice(data, fed, fed + r.n), offset), h)
             /\ IF r.err = "nil" THEN Continue(h, pc) ELSE Return(h, Hidden(r.err))
  BY DEF StreamLiterals, want
<1> DEFINE lo == fed
           hi == fed + r.n
           t == Chunks(Slice(data, lo, hi), lo)
<1>4. PICK h \in Handed(t) :
        /\ results' = results \o SubSeq(t, 1, h.given)
        /\ IF r.err = "nil" THEN Continue(h, pc) ELSE Return(h, Hidden(r.err))
  BY <1>1, <1>3 DEF Give
<1>5. lo \in Nat /\ hi \in Nat /\ lo <= hi /\ hi <= Len(data)
  <2>1. fed <= Len(data)
    BY <1>1
  <2>2. r.n \in Nat /\ fed + r.n <= Len(data)
    BY <1>1, <1>2, <2>1, FullReadsType
  <2> QED BY <1>1, <2>2
<1> HIDE DEF lo, hi
<1>6. t \in Seq(Instruction) /\ References(t) = << >>
  BY <1>1, <1>5, SliceChunksAmount
<1> HIDE DEF t
<1>7. CASE h.err = "callback"
  <2>1. pc' = "returned" /\ outcome' = "callback"
    BY <1>4, <1>7 DEF Continue, Return
  <2> QED BY <2>1, FailedSame
<1>8. CASE h.err = "nil"
  <2>1. results' = results \o t
    BY <1>4, <1>6, <1>8, HandedType, SubSeqFull
  <2>2. References(results') = << >> \o << >>
    BY <1>1, <1>6, <2>1, CountsConcat
  <2>3. References(results') = << >>
    BY <2>2, NothingAmounts, ConcatEmptySeq
  <2>4. UNCHANGED engineVars /\ UNCHANGED << data, fileSize >> /\ pc' \in {"literals", "returned"}
    BY <1>1, <1>4 DEF StreamLiterals, Continue, Return
  <2>5. CASE pc' = "literals"
    <3>1. checksums' = checksums /\ fileSize' = fileSize
      BY <2>4 DEF engineVars
    <3> QED BY <1>1, <2>3, <2>5, <3>1
            DEF SameInv, SameAsBatch, Success, Filling, Looping
  <2>6. CASE pc' = "returned"
    <3>1. Answer' = Answer /\ (Whole' => Whole)
      BY <2>4, AnswerStays DEF Whole
    <3>2. Whole => References(Answer) = << >>
      BY <1>1, LiteralsSame
    <3> QED BY <2>3, <2>6, <3>1, <3>2, ReturnedSame
  <2> QED BY <2>4, <2>5, <2>6
<1> QED BY <1>6, <1>7, <1>8, HandedType

LEMMA LiteralsEndSame ==
  ASSUME SharedInv, SameInv, LiteralsEnd
  PROVE  SameInv'
<1>1. /\ pc = "literals" /\ pc' = "returned" /\ UNCHANGED engineVars
      /\ UNCHANGED << data, results, fileSize >>
  BY DEF LiteralsEnd, searchVars
<1>2. Answer' = Answer /\ (Whole' => Whole)
  BY <1>1, AnswerStays DEF Whole
<1>3. References(results) = << >> /\ (Whole => References(Answer) = << >>)
  BY <1>1, LiteralsSame DEF SameInv
<1> QED BY <1>1, <1>2, <1>3, ReturnedSame

\* A reader that does not join its end to its last bytes has given them before.
LEMMA LastRead ==
  ASSUME ReaderTypeOK, BufferInv, Reading, ~ JoinedEOF, NEW r \in Reads, r.err = "eof"
  PROVE  fed = Len(data)
<1> DEFINE full  == Least(BufCap - bufLen, Left)
           sizes == {n \in ReadSizes : n <= full} \cup ({full} \ {0})
<1>1. Len(data) \in Nat /\ fed \in Nat
  BY LenProperties DEF ReaderTypeOK
<1>2. ~ (bufLen >= BufCap)
  <2> SUFFICES ASSUME bufLen >= BufCap PROVE FALSE
    OBVIOUS
  <2>1. r = [n |-> 0, err |-> "short"]
    BY DEF Reads
  <2> QED BY <2>1
<1>3. r \in UNION {
        {[n |-> n, err |-> "nil"] : n \in sizes},
        {[n |-> n, err |-> "eof"] : n \in {0} \cap {Left}},
        {[n |-> n, err |-> "eof"] : n \in {m \in sizes \cap {Left} : JoinedEOF}},
        {[n |-> n, err |-> "io"] : n \in {m \in sizes \cup {0} : ReadFails}} }
  BY <1>2, Zenon DEF Reads
<1> HIDE DEF sizes
<1>4. Left = 0
  BY <1>3
<1> QED BY <1>1, <1>4 DEF Left

\* While the buffer is filled or refilled.
LEMMA ReadMoreSame ==
  ASSUME SharedInv, SameInv, ReadMore
  PROVE  SameInv'
<1>1. /\ pc \in {"fill", "slide"} /\ pc' = pc /\ UNCHANGED engineVars
      /\ UNCHANGED << data, results, offset, lastMatch, wantIdx, fileSize, needEnd, bufBase >>
  BY DEF ReadMore, Take, searchVars
<1>2. Reading
  BY <1>1 DEF Reading, Filling, Looping
<1>3. pc' = "slide" => fed' < needEnd'
  <2>1. PICK r \in Reads : ~ Satisfied(r) /\ Take(r)
    BY DEF ReadMore
  <2>2. /\ bufLen' = bufLen + r.n /\ fed' = bufBase + bufLen' /\ fed' \in Nat
    BY <1>1, <1>2, <2>1, StreamGround, TakeMirrors
  <2>3. ~ (bufBase + bufLen + r.n >= needEnd) /\ needEnd \in Nat /\ bufBase \in Nat /\ bufLen \in Nat
        /\ r.n \in Nat
    BY <1>2, <2>1, StreamGround, ReadsType DEF Satisfied, ReaderTypeOK
  <2> QED BY <1>1, <2>2, <2>3
<1>4. Looping' /\ Whole' => Looping /\ Whole
  BY <1>1 DEF Looping, Whole
<1>5. Looping' /\ Whole' => InPace'
  BY <1>1, <1>4, WayStays DEF SameInv
<1>6. Filling' => wantIdx' = 0
  BY <1>1 DEF SameInv, Filling
<1> QED BY <1>1, <1>3, <1>5, <1>6 DEF SameInv, SameAsBatch, Success

LEMMA FillFailSame ==
  ASSUME SharedInv, SameInv, FillFail
  PROVE  SameInv'
<1>1. pc' = "returned" /\ outcome' # "nil"
  BY DEF FillFail
<1> QED BY <1>1, FailedSame

\* Less than a block is less than what was announced.
LEMMA FillShortSame ==
  ASSUME SharedInv, SameInv, FillShort
  PROVE  SameInv'
<1>1. pc = "fill" /\ UNCHANGED data /\ fileSize' = fileSize
  BY DEF FillShort
<1>2. PICK r \in Reads : r.err = "eof" /\ bufLen + r.n \in 1 .. BlockSize - 1 /\ Take(r)
  BY DEF FillShort
<1>3. Reading /\ ReaderInv
  BY <1>1 DEF Reading, Filling, SharedInv
<1>4. /\ ReaderTypeOK /\ BufferInv /\ BlockSize <= fileSize /\ bufBase = 0
      /\ fileSize \in Nat /\ BlockSize \in Nat /\ Len(data) \in Nat
  BY <1>1, <1>3, StreamGround DEF BufferInv, ReaderInv, FillInv, Filling
<1>5. bufLen' = bufLen + r.n /\ fed' = bufBase + bufLen' /\ fed' = Len(data)
  BY <1>1, <1>2, <1>3, <1>4, TakeMirrors
<1>6. ~ Whole'
  BY <1>1, <1>2, <1>4, <1>5 DEF Whole
<1>7. pc' = "returned"
  BY DEF FillShort, Return
<1> QED BY <1>6, <1>7, ReturnedSame

\* The stream begins where a search in memory begins.
LEMMA FillDoneSame ==
  ASSUME SharedInv, SameInv, FillDone
  PROVE  SameInv'
<1>1. /\ pc = "fill" /\ pc' = "stream" /\ UNCHANGED engineVars
      /\ UNCHANGED << data, results, offset, lastMatch, wantIdx, fileSize >>
  BY DEF FillDone
<1>2. Reading /\ ReaderInv
  BY <1>1 DEF Reading, Filling, SharedInv
<1>3. /\ offset = 0 /\ lastMatch = 0 /\ results = << >> /\ wantIdx = 0 /\ BlockSize <= fileSize
  BY <1>1, <1>2 DEF SameInv, ReaderInv, FillInv, BufferInv, Filling
<1>4. Whole => InPace
  <2> SUFFICES ASSUME Whole PROVE Alongside(0)
    BY DEF InPace
  <2> DEFINE s == [o |-> 0, lm |-> 0, want |-> 0]
             g == Scanner(basis, KnownBlocks, data)
  <2>1. /\ data \in Seq(Byte) /\ Len(data) \in Nat /\ BlockSize \in Nat \ {0}
        /\ NumBlocks(basis) \in Nat /\ NumBlocks(basis) # 0 /\ AreBlocks(basis, KnownBlocks)
        /\ ~ (Len(data) < BlockSize)
    BY <1>2, <1>3, StreamGround DEF Whole
  <2>2. There(0) = s
    BY <1>3 DEF There
  <2>3. s \in ScanStates(basis, data) /\ s.lm <= s.o
    BY <2>1 DEF ScanStates
  <2>4. Answer = g[s]
    <3>1. SearchResult(basis, KnownBlocks, data) = g[s]
      BY <2>1, Zenon DEF SearchResult, Scanner
    <3> QED BY <3>1 DEF Answer
  <2>5. g[s] \in Seq(Instruction)
    BY <2>1, <2>3, ScannerType
  <2>6. References(results) \o References(g[There(0)]) = References(Answer)
    <3> DEFINE a == g[s]
               ra == References(a)
    <3>1. ra \in Seq(Instruction)
      <4> HIDE DEF a
      <4> QED BY <2>5, ReferencesType DEF a
    <3>2. References(results) = << >> /\ g[There(0)] = a /\ Answer = a
      BY <1>3, <2>2, <2>4, NothingAmounts
    <3> HIDE DEF a
    <3>3. References(g[There(0)]) = ra /\ References(Answer) = ra
      BY <3>2
    <3> HIDE DEF ra
    <3> QED BY <3>1, <3>2, <3>3, ConcatEmptySeq
  <2>7. NoneKnown(0, offset)
    BY <1>3 DEF NoneKnown
  <2>8. 0 \in 0 .. lastMatch /\ 0 = lastMatch
    BY <1>3
  <2>9. There(0) \in ScanStates(basis, data)
    BY <2>2, <2>3
  <2> QED BY <2>6, <2>7, <2>8, <2>9 DEF Alongside
<1>5. Whole' => InPace'
  BY <1>1, <1>4, WayStays DEF Whole
<1> QED BY <1>1, <1>5 DEF SameInv, SameAsBatch, Success, Filling

LEMMA SlideSame ==
  ASSUME SharedInv, SameInv, Slide
  PROVE  SameInv'
<1>1. /\ pc = "stream" /\ pc' = "slide" /\ UNCHANGED engineVars
      /\ UNCHANGED << data, results, offset, lastMatch, wantIdx, fileSize, fed >>
      /\ needEnd' = SlideEnd /\ bufEnd < SlideEnd
  BY DEF Slide, Scanning, SlideNeeded, searchVars
<1>2. bufEnd = fed
  BY <1>1 DEF SharedInv, ReaderInv, AheadInv, Looping
<1>3. Whole' => InPace'
  BY <1>1, WayStays DEF SameInv, Whole, Looping
<1> QED BY <1>1, <1>2, <1>3 DEF SameInv, SameAsBatch, Success, Filling

LEMMA SlideDoneSame ==
  ASSUME SharedInv, SameInv, SlideDone
  PROVE  SameInv'
<1>1. /\ pc = "slide" /\ pc' = "stream" /\ UNCHANGED engineVars
      /\ UNCHANGED << data, results, offset, lastMatch, wantIdx, fileSize >>
  BY DEF SlideDone, searchVars
<1>2. Whole' => InPace'
  BY <1>1, WayStays DEF SameInv, Whole, Looping
<1> QED BY <1>1, <1>2 DEF SameInv, SameAsBatch, Success, Filling

\* A reader that reports its end only after its bytes does not end a refill of
\* a source that has what was announced.
LEMMA SlideFailSame ==
  ASSUME SharedInv, SameInv, ~ JoinedEOF, SlideFail
  PROVE  SameInv'
<1>1. pc = "slide" /\ UNCHANGED data /\ fileSize' = fileSize
  BY DEF SlideFail
<1>2. PICK r \in Reads :
        /\ r.err # "nil" /\ Take(r)
        /\ \E h \in Handed(Remaining(buf', bufLen')) : Return(h, Hidden(r.err))
  BY DEF SlideFail
<1>3. Reading /\ ReaderInv
  BY <1>1 DEF Reading, Looping, SharedInv
<1>4. /\ ReaderTypeOK /\ BufferInv /\ fed < needEnd /\ needEnd = SlideEnd
      /\ fileSize \in Nat /\ BlockSize \in Nat /\ Len(data) \in Nat /\ offset \in Nat
      /\ fed \in Nat
  BY <1>1, <1>3, StreamGround DEF ReaderInv, AheadInv, Looping, SameInv
<1>5. pc' = "returned" /\ outcome' \in {"callback", Hidden(r.err)}
  BY <1>2 DEF Return
<1>6. CASE outcome' # "nil"
  BY <1>5, <1>6, FailedSame
<1>7. CASE outcome' = "nil"
  <2>1. r.err = "eof"
    BY <1>2, <1>5, <1>7 DEF Hidden
  <2>2. fed = Len(data)
    BY <1>3, <1>4, <2>1, LastRead
  <2>3. ~ Whole'
    BY <1>1, <1>4, <2>2 DEF Whole, SlideEnd, Least
  <2> QED BY <1>5, <2>3, ReturnedSame
<1> QED BY <1>6, <1>7

\* A match of the stream is a match of the search it goes alongside of, and
\* there both have emitted everything before.
LEMMA StreamMatchSame ==
  ASSUME SharedInv, SameInv, StreamMatch
  PROVE  SameInv'
<1> DEFINE v == Value(CurrentSum)
           w == StreamWindow
           literals == Chunks(Buffered(lastMatch, offset), lastMatch)
           F(s) == Scanner(basis, KnownBlocks, data)[s]
<1>1. /\ Scanning /\ ~ SlideNeeded /\ Reading /\ pc = "stream" /\ ReaderInv
  BY DEF StreamMatch, WindowChecked, Scanning, SharedInv, Reading, Looping
<1>2. /\ Loaded /\ AreBlocks(basis, KnownBlocks) /\ NumBlocks(basis) \in Nat
      /\ ReaderTypeOK /\ BufferInv /\ data \in Seq(Byte) /\ results \in Seq(Instruction)
      /\ Len(data) \in Nat /\ BlockSize \in Nat \ {0}
      /\ offset \in Nat /\ lastMatch \in Nat /\ lastMatch <= offset /\ bufBase <= lastMatch
      /\ wantIdx \in Nat /\ fed \in Nat /\ fed <= Len(data)
  BY <1>1, StreamGround
<1>0. PICK e \in Nat : e = offset + BlockSize
  BY <1>2
<1>3. /\ e <= fed /\ w = Slice(data, offset, e) /\ w \in Seq(Byte) /\ Len(w) = BlockSize
      /\ v = Checksum1(w) /\ Checksum1(w) \in Nat
  <2>1. /\ CurrentSum = Reset(w) /\ v \in Nat
    BY <1>1, StreamHead
  <2> QED BY <1>0, <1>1, <2>1, StreamHead DEF Checksum1
<1>4. PICK k \in Compared(v) :
        /\ Agrees(v, w, k)
        /\ \A j \in Compared(v) : j < k => ~ Agrees(v, w, j)
        /\ wantIdx' = Preferred(v, w, k) + 1
        /\ LET insts == Append(literals, Match(Preferred(v, w, k), offset))
           IN  \E h \in Handed(insts) :
                 /\ results' = results \o SubSeq(insts, 1, h.given)
                 /\ Continue(h, pc)
  BY DEF StreamMatch
<1> DEFINE i == Preferred(v, w, k)
           m == Match(i, offset)
           t == Append(literals, m)
<1>5. PICK h \in Handed(t) : results' = results \o SubSeq(t, 1, h.given) /\ Continue(h, pc)
  BY <1>4
<1>6. /\ Candidates(basis, KnownBlocks, w) # {}
      /\ i = Chosen(basis, KnownBlocks, w, wantIdx)
      /\ i \in 0 .. NumBlocks(basis) - 1
  <2> HIDE DEF w, v
  <2>1. Len(w) <= BlockSize
    BY <1>2, <1>3
  <2>2. /\ k \in Compared(Checksum1(w)) /\ Agrees(Checksum1(w), w, k)
        /\ \A j \in Compared(Checksum1(w)) : j < k => ~ Agrees(Checksum1(w), w, j)
    BY <1>3, <1>4
  <2>3. /\ Candidates(basis, KnownBlocks, w) # {}
        /\ Preferred(Checksum1(w), w, k) = Chosen(basis, KnownBlocks, w, wantIdx)
        /\ Preferred(Checksum1(w), w, k) \in 0 .. NumBlocks(basis) - 1
    BY <1>2, <1>3, <2>1, <2>2, PreferredIsChosen
  <2> QED BY <1>3, <2>3
<1>7. i \in Nat /\ wantIdx' = i + 1
  BY <1>2, <1>4, <1>6
<1>8. /\ lastMatch' = e /\ offset' = e /\ UNCHANGED engineVars /\ UNCHANGED << data, fileSize >>
  BY <1>0 DEF StreamMatch
<1> HIDE DEF i, v, w, F
<1>9. t \in Seq(Instruction) /\ m \in Instruction /\ References(t) = << m >>
  <2>1. Buffered(lastMatch, offset) = Slice(data, lastMatch, offset) /\ offset <= Len(data)
    BY <1>0, <1>1, <1>2, <1>3, BufferedIs
  <2>2. literals \in Seq(Instruction) /\ References(literals) = << >>
    BY <1>2, <2>1, SliceChunksAmount
  <2> HIDE DEF literals
  <2> QED BY <1>2, <1>7, <2>2, OneReference
<1> HIDE DEF literals, t, m
<1>10. CASE h.err = "callback"
  <2>1. pc' = "returned" /\ outcome' = "callback"
    BY <1>5, <1>10 DEF Continue, Return
  <2> QED BY <2>1, FailedSame
<1>11. CASE h.err = "nil"
  <2>1. results' = results \o t /\ pc' = "stream"
    BY <1>1, <1>5, <1>9, <1>11, HandedType, SubSeqFull DEF Continue
  <2>2. ASSUME Whole, NEW lm \in Nat, Alongside(lm)
        PROVE  Alongside(e)'
    <3> DEFINE s == There(lm)
    <3>1. /\ s \in ScanStates(basis, data) /\ s.o = offset /\ s.lm = lm /\ s.want = wantIdx
          /\ lm <= offset /\ References(results) \o References(F(s)) = References(Answer)
      BY <1>2, <2>2 DEF Alongside, There, F
    <3>2. MatchesAt(basis, KnownBlocks, data, s, i)
      BY <1>0, <1>2, <1>3, <1>6, <3>1 DEF MatchesAt
    <3>3. After(s, i) = [o |-> e, lm |-> e, want |-> i + 1]
      BY <1>0, <3>1 DEF After
    <3> HIDE DEF s
    <3>4. F(s) = SentAt(data, s, i, F(After(s, i)))
      BY <1>2, <3>1, <3>2, ScannerMatches DEF F
    <3>5. After(s, i) \in ScanStates(basis, data)
      <4>1. s.o + BlockSize <= Len(data)
        BY <1>0, <1>2, <1>3, <3>1
      <4>2. i = Chosen(basis, KnownBlocks, w, s.want)
        BY <1>6, <3>1
      <4> QED BY <1>2, <1>6, <3>1, <4>1, <4>2, MatchGoesOn
    <3> DEFINE a == After(s, i)
               rest == F(a)
    <3>6. rest \in Seq(Instruction)
      <4>1. a.lm <= a.o
        BY <1>2, <3>3
      <4> QED BY <1>2, <3>5, <4>1, ScannerType DEF F
    <3>7. References(F(s)) = << m >> \o References(rest)
      <4> HIDE DEF rest
      <4>1. F(s) = SentAt(data, s, i, rest)
        BY <3>4 DEF rest
      <4>2. References(SentAt(data, s, i, rest)) = << Match(i, s.o) >> \o References(rest)
        <5>1. /\ s.lm \in Nat /\ s.o \in Nat /\ s.lm <= s.o /\ s.o <= Len(data)
              /\ data \in Seq(Byte) /\ i \in Nat
          BY <1>0, <1>2, <1>3, <1>7, <3>1
        <5> HIDE DEF i
        <5> QED BY <3>6, <5>1, SentRefers
      <4>3. Match(i, s.o) = m
        BY <3>1 DEF m
      <4> QED BY <4>1, <4>2, <4>3
    <3>8. References(results') = References(results) \o << m >>
      BY <1>2, <1>9, <2>1, CountsConcat
    <3>9. References(results') \o References(rest) = References(Answer)
      <4> DEFINE ra == References(results)
                 rb == References(rest)
                 rm == << m >>
      <4>1. ra \in Seq(Instruction) /\ rb \in Seq(Instruction) /\ rm \in Seq(Instruction)
        <5> HIDE DEF rest
        <5> QED BY <1>2, <1>9, <3>6, ReferencesType
      <4>2. References(results') = ra \o rm /\ ra \o (rm \o rb) = References(Answer)
        BY <3>1, <3>7, <3>8
      <4> HIDE DEF ra, rb, rm
      <4>3. (ra \o rm) \o rb = ra \o (rm \o rb)
        BY <4>1, ConcatAssociative, SMTT(30)
      <4> QED BY <4>2, <4>3 DEF rb
    <3>10. /\ Answer' = Answer
           /\ (Scanner(basis, KnownBlocks, data))' = Scanner(basis, KnownBlocks, data)
           /\ (ScanStates(basis, data))' = ScanStates(basis, data)
      BY <1>8, AnswerStays
    <3>11. There(e)' = a
      BY <1>7, <1>8, <3>3 DEF There
    <3>12. e \in 0 .. lastMatch' /\ e = lastMatch'
      BY <1>2, <1>8
    <3>13. NoneKnown(e, offset)'
      BY <1>2, <1>8 DEF NoneKnown
    <3>14. There(e)' \in (ScanStates(basis, data))'
      BY <3>5, <3>10, <3>11
    <3>15. References(results') \o References((Scanner(basis, KnownBlocks, data))'[There(e)'])
             = References(Answer')
      BY <3>9, <3>10, <3>11 DEF F
    <3> QED BY <3>12, <3>13, <3>14, <3>15 DEF Alongside
  <2>3. Whole' => InPace'
    <3>1. Whole' => InPace
      BY <1>1, <1>8 DEF SameInv, Whole, Looping
    <3> QED BY <1>8, <2>2, <3>1 DEF InPace, Whole
  <2> QED BY <2>1, <2>3 DEF SameInv, SameAsBatch, Success, Filling
<1> QED BY <1>5, <1>9, <1>10, <1>11, HandedType

\* A miss of the stream is a miss of the search it goes alongside of, whether
\* or not the stream sends a chunk of the literals behind it.
LEMMA StreamMissSame ==
  ASSUME SharedInv, SameInv, StreamMiss
  PROVE  SameInv'
<1> DEFINE v == Value(CurrentSum)
           w == StreamWindow
           t == Backlog
           F(s) == Scanner(basis, KnownBlocks, data)[s]
<1>1. /\ Scanning /\ ~ SlideNeeded /\ Reading /\ pc = "stream" /\ ReaderInv
  BY DEF StreamMiss, WindowChecked, Scanning, SharedInv, Reading, Looping
<1>2. /\ Loaded /\ AreBlocks(basis, KnownBlocks) /\ NumBlocks(basis) \in Nat
      /\ ReaderTypeOK /\ BufferInv /\ data \in Seq(Byte) /\ results \in Seq(Instruction)
      /\ Len(data) \in Nat /\ BlockSize \in Nat \ {0}
      /\ offset \in Nat /\ lastMatch \in Nat /\ lastMatch <= offset /\ bufBase <= lastMatch
      /\ wantIdx \in Nat /\ fed \in Nat /\ fed <= Len(data)
  BY <1>1, StreamGround
<1>3. /\ nextLiteralCheck = lastMatch + ChunkSize /\ ChunkSize \in Nat
  BY <1>1, ChunkSizeAssumption DEF ReaderInv, AheadInv, Looping
<1>4. /\ offset + BlockSize <= fed /\ w = Slice(data, offset, offset + BlockSize)
      /\ w \in Seq(Byte) /\ Len(w) = BlockSize /\ v = Checksum1(w) /\ Checksum1(w) \in Nat
  <2>1. /\ CurrentSum = Reset(w) /\ v \in Nat
    BY <1>1, StreamHead
  <2> QED BY <1>1, <2>1, StreamHead DEF Checksum1
<1>5. \A k \in Compared(v) : ~ Agrees(v, w, k)
  BY DEF StreamMiss
<1>6. PICK h \in Handed(t) : results' = results \o SubSeq(t, 1, h.given) /\ Continue(h, pc)
  BY DEF StreamMiss
<1>7. t \in Seq(Instruction) /\ References(t) = << >>
  <2>1. CASE offset >= nextLiteralCheck
    <3> DEFINE hi == lastMatch + ChunkSize
    <3>1. hi \in Nat /\ lastMatch <= hi /\ hi <= fed /\ hi <= Len(data)
      BY <1>2, <1>3, <1>4, <2>1
    <3>2. t = Chunks(Buffered(lastMatch, hi), lastMatch)
      BY <2>1 DEF Backlog
    <3> HIDE DEF hi, t
    <3>3. Buffered(lastMatch, hi) = Slice(data, lastMatch, hi)
      BY <1>1, <1>2, <3>1, BufferedIs
    <3> QED BY <1>2, <3>1, <3>2, <3>3, SliceChunksAmount
  <2>2. CASE ~ (offset >= nextLiteralCheck)
    BY <2>2, NothingAmounts DEF Backlog
  <2> QED BY <2>1, <2>2
<1>8. /\ offset' = offset + 1 /\ UNCHANGED engineVars /\ UNCHANGED << data, fileSize, wantIdx >>
      /\ lastMatch' = lastMatch + (IF offset >= nextLiteralCheck THEN ChunkSize ELSE 0)
  BY DEF StreamMiss, NextOffset, bufVars
<1>9. /\ lastMatch' \in Nat /\ lastMatch <= lastMatch'
      /\ lastMatch' = lastMatch \/ lastMatch' + BlockSize <= Len(data)
  BY <1>2, <1>3, <1>4, <1>8
<1> HIDE DEF v, w, t, F
<1>10. CASE h.err = "callback"
  <2>1. pc' = "returned" /\ outcome' = "callback"
    BY <1>6, <1>10 DEF Continue, Return
  <2> QED BY <2>1, FailedSame
<1>11. CASE h.err = "nil"
  <2>1. results' = results \o t /\ pc' = "stream"
    BY <1>1, <1>6, <1>7, <1>11, HandedType, SubSeqFull DEF Continue
  <2>2. References(results') = References(results)
    <3> DEFINE ra == References(results)
    <3>0. References(results') = References(results) \o References(t)
      BY <1>2, <1>7, <2>1, CountsConcat
    <3>1. ra \in Seq(Instruction) /\ References(results') = ra \o << >>
      BY <1>2, <1>7, <3>0, ReferencesType
    <3> HIDE DEF ra
    <3>2. ra \o << >> = ra
      BY <3>1, ConcatEmptySeq
    <3> QED BY <3>1, <3>2 DEF ra
  <2>3. Candidates(basis, KnownBlocks, w) = {}
    <3>1. Len(w) <= BlockSize /\ \A k \in Compared(Checksum1(w)) : ~ Agrees(Checksum1(w), w, k)
      BY <1>2, <1>4, <1>5
    <3> QED BY <1>2, <1>4, <3>1, MissMeansNone
  <2>4. /\ Answer' = Answer
        /\ (Scanner(basis, KnownBlocks, data))' = Scanner(basis, KnownBlocks, data)
        /\ (ScanStates(basis, data))' = ScanStates(basis, data)
        /\ KnownBlocks' = KnownBlocks /\ basis' = basis /\ data' = data
    BY <1>8, AnswerStays, KnownStay DEF engineVars
  <2>5. ASSUME Whole, NEW lm \in Nat, Alongside(lm)
        PROVE  Alongside(lm)'
    <3> DEFINE s == There(lm)
    <3>1. /\ s \in ScanStates(basis, data) /\ s.o = offset /\ s.lm = lm /\ s.want = wantIdx
          /\ lm <= lastMatch /\ (lm = lastMatch \/ lastMatch + BlockSize <= Len(data))
          /\ References(results) \o References(F(s)) = References(Answer)
          /\ NoneKnown(lm, offset)
      BY <1>2, <2>5 DEF Alongside, There, F
    <3> HIDE DEF s
    <3>2. s.o + BlockSize <= Len(data)
      BY <1>2, <1>4, <3>1
    <3>3. F(s) = F(Missed(s))
      <4>1. Candidates(basis, KnownBlocks, Slice(data, s.o, s.o + BlockSize)) = {}
        BY <1>4, <2>3, <3>1
      <4>2. /\ NumBlocks(basis) \in Nat /\ data \in Seq(Byte) /\ AreBlocks(basis, KnownBlocks)
            /\ s \in ScanStates(basis, data) /\ s.o + BlockSize <= Len(data)
        BY <1>2, <3>1, <3>2
      <4>3. Scanner(basis, KnownBlocks, data)[s] = Scanner(basis, KnownBlocks, data)[Missed(s)]
        BY ONLY <4>1, <4>2, ScannerMisses
      <4> QED BY <4>3 DEF F
    <3>4. Missed(s) \in ScanStates(basis, data) /\ Missed(s) = [o |-> s.o + 1, lm |-> s.lm, want |-> s.want]
      BY <1>2, <3>1, <3>2, MissGoesOn
    <3>5. There(lm)' = Missed(s)
      BY <1>8, <3>1, <3>4 DEF There
    <3>6. lm \in 0 .. lastMatch' /\ (lm = lastMatch' \/ lastMatch' + BlockSize <= Len(data'))
      BY <1>2, <1>9, <2>4, <3>1
    <3>7. NoneKnown(lm, offset)'
      <4> SUFFICES ASSUME NEW o \in lm .. offset
                   PROVE  Candidates(basis, KnownBlocks, Slice(data, o, o + BlockSize)) = {}
        BY <1>2, <1>8, <2>4 DEF NoneKnown
      <4>1. CASE o \in lm .. offset - 1
        BY <3>1, <4>1 DEF NoneKnown
      <4>2. CASE o = offset
        BY <1>4, <2>3, <4>2
      <4> QED BY <1>2, <4>1, <4>2
    <3>8. There(lm)' \in (ScanStates(basis, data))'
      BY <2>4, <3>4, <3>5
    <3>9. References(results') \o References((Scanner(basis, KnownBlocks, data))'[There(lm)'])
            = References(Answer')
      BY <2>2, <2>4, <3>1, <3>3, <3>5 DEF F
    <3> QED BY <3>6, <3>7, <3>8, <3>9 DEF Alongside
  <2>6. Whole' => InPace'
    <3>1. Whole' => InPace
      BY <1>1, <1>8 DEF SameInv, Whole, Looping
    <3> QED BY <1>8, <2>5, <3>1 DEF InPace, Whole
  <2> QED BY <2>1, <2>6 DEF SameInv, SameAsBatch, Success, Filling
<1> QED BY <1>6, <1>7, <1>10, <1>11, HandedType

\* At the end the tails differ at most in the literals: a tail of a block or
\* more is no block, or the scan would have met it.
LEMMA TailsRefer ==
  ASSUME SharedInv, pc = "stream", Whole, AmpleProbes, offset + BlockSize > Len(data),
         NEW lm \in Nat, Alongside(lm)
  PROVE  References(TailResult(basis, data, lm)) = References(TailResult(basis, data, lastMatch))
<1>0. Reading
  BY DEF Reading, Looping
<1>1. /\ Loaded /\ data \in Seq(Byte) /\ Len(data) \in Nat /\ BlockSize \in Nat \ {0}
      /\ offset \in Nat /\ lastMatch \in Nat /\ lastMatch <= offset
      /\ lm <= lastMatch /\ (lm = lastMatch \/ lastMatch + BlockSize <= Len(data))
      /\ NoneKnown(lm, offset)
  BY <1>0, StreamGround DEF Alongside
<1>2. CASE lm = lastMatch
  BY <1>2
<1>3. CASE lm # lastMatch
  <2>1. /\ lm \in lm .. offset - 1 /\ lastMatch \in lm .. offset - 1
        /\ lm + BlockSize <= Len(data) /\ lastMatch + BlockSize <= Len(data)
    BY <1>1, <1>3
  <2>2. /\ Candidates(basis, KnownBlocks, Slice(data, lm, lm + BlockSize)) = {}
        /\ Candidates(basis, KnownBlocks, Slice(data, lastMatch, lastMatch + BlockSize)) = {}
    BY <1>1, <2>1 DEF NoneKnown
  <2>3. References(TailResult(basis, data, lm)) = << >>
    BY <1>1, <2>1, <2>2, TailUnknown
  <2>4. References(TailResult(basis, data, lastMatch)) = << >>
    BY <1>1, <2>1, <2>2, TailUnknown
  <2> QED BY <2>3, <2>4
<1> QED BY <1>2, <1>3

LEMMA StreamEndSame ==
  ASSUME SharedInv, SameInv, StreamEnd
  PROVE  SameInv'
<1> DEFINE t == StreamTail
<1>1. /\ pc = "stream" /\ pc' = "returned" /\ offset + BlockSize > fileSize
      /\ UNCHANGED engineVars /\ UNCHANGED << data, fileSize, fed >>
  BY DEF StreamEnd, Return, bufVars
<1>2. Reading /\ ReaderInv
  BY <1>1 DEF Reading, Looping, SharedInv
<1>3. PICK h \in Handed(t) : results' = results \o SubSeq(t, 1, h.given) /\ Return(h, "nil")
  BY DEF StreamEnd, Give
<1>4. t \in Seq(Instruction)
  BY <1>1, <1>2, StreamTailCovers
<1>5. CASE h.err = "callback"
  <2>1. outcome' = "callback"
    BY <1>3, <1>5 DEF Return
  <2> QED BY <1>1, <2>1, FailedSame
<1>6. CASE h.err = "nil"
  <2> SUFFICES ASSUME Whole', ~ Unread', AmpleProbes'
               PROVE  References(results') = References(Answer')
    BY <1>1, ReturnedSame
  <2>1. Whole /\ ~ Unread /\ AmpleProbes
    BY <1>1 DEF Whole, Unread, AmpleProbes, engineVars
  <2>2. /\ AreBlocks(basis, KnownBlocks) /\ NumBlocks(basis) \in Nat /\ data \in Seq(Byte)
        /\ results \in Seq(Instruction) /\ fed \in Nat /\ fed <= Len(data) /\ Len(data) \in Nat
    BY <1>2, StreamGround
  <2>3. fed = Len(data) /\ offset + BlockSize > Len(data)
    BY <1>1, <2>1, <2>2 DEF Whole, Unread, Least
  <2>4. PICK lm \in Nat : Alongside(lm)
    BY <1>1, <2>1 DEF SameInv, InPace, Looping
  <2>5. Scanner(basis, KnownBlocks, data)[There(lm)] = TailResult(basis, data, lm)
    <3> DEFINE s == There(lm)
    <3>1. s \in ScanStates(basis, data) /\ s.o = offset /\ s.lm = lm
      BY <2>4 DEF Alongside, There
    <3> HIDE DEF s
    <3>2. Scanner(basis, KnownBlocks, data)[s] = TailResult(basis, data, s.lm)
      BY <2>2, <2>3, <3>1, ScannerEnds
    <3> QED BY <3>1, <3>2 DEF s
  <2>6. References(results) \o References(TailResult(basis, data, lm)) = References(Answer)
    BY <2>4, <2>5 DEF Alongside
  <2>7. References(t) = References(TailResult(basis, data, lm))
    <3>1. References(t) = References(TailResult(basis, data, lastMatch))
      BY <1>1, <2>1, <2>3, StreamTailRefers
    <3> QED BY <1>1, <2>1, <2>3, <2>4, <3>1, TailsRefer
  <2> HIDE DEF t
  <2>8. results' = results \o t
    BY <1>3, <1>4, <1>6, HandedType, SubSeqFull
  <2>9. References(results') = References(results) \o References(t)
    BY <1>4, <2>2, <2>8, CountsConcat
  <2>10. Answer' = Answer
    BY <1>1, AnswerStays
  <2> QED BY <2>6, <2>7, <2>9, <2>10
<1> HIDE DEF t
<1> QED BY <1>3, <1>4, <1>5, <1>6, HandedType

LEMMA StillSame ==
  ASSUME SameInv, UNCHANGED allVars
  PROVE  SameInv'
<1>1. /\ UNCHANGED engineVars /\ UNCHANGED << data, results, offset, lastMatch, wantIdx >>
      /\ UNCHANGED << pc, checksums, fileSize, fed, needEnd, outcome >>
  BY DEF allVars, vars, engineVars, searchVars, readerVars, bufVars
<1>2. Answer' = Answer /\ (InPace => InPace')
  BY <1>1, AnswerStays, WayStays
<1>3. SameAsBatch'
  BY <1>1, <1>2 DEF SameInv, SameAsBatch, Success, Unread, AmpleProbes, Answer
<1> QED BY <1>1, <1>2, <1>3 DEF SameInv, Filling, Looping, Whole

LEMMA EngineSame ==
  ASSUME SharedInv, SameInv, EngineStep
  PROVE  SameInv'
<1>0. UNCHANGED readerVars /\ outcome' = outcome
  BY DEF EngineStep, readerVars
<1>1. CASE pc' \in {"build", "idle"}
  BY <1>1 DEF SameInv, SameAsBatch, Success, Filling, Looping
<1>2. CASE Rest
  BY <1>0, <1>2, StillSame DEF Rest, allVars
<1>3. CASE SearchProgress
  <2>1. pc \in {"called", "scan", "tail"} /\ pc' \in {"scan", "tail", "returned"}
    BY <1>3 DEF SearchProgress, SearchLiterals, SearchBegin, ScanMatch, ScanMiss, ScanEnd,
                TailMatch, TailLiterals
  <2>2. outcome' = "batch"
    BY <1>0, <2>1 DEF SharedInv, ReaderInv, CallInv
  <2> QED BY <2>1, <2>2 DEF SameInv, SameAsBatch, Success, Filling, Looping
<1>4. (\E f \in Bases : LoadSignature(f)) \/ LoadNil \/ InsertBlock \/ Built
        => pc' \in {"build", "idle"}
  BY DEF LoadSignature, LoadNil, InsertBlock, Built
<1> QED BY <1>1, <1>2, <1>3, <1>4 DEF EngineStep, Progress

LEMMA NextSame ==
  ASSUME SharedInv, SameInv, ~ JoinedEOF, [ReaderNext]_allVars
  PROVE  SameInv'
<1>1. CASE EngineStep
  BY <1>1, EngineSame
<1>2. ASSUME NEW d \in Searched, CallSearch(d) PROVE SameInv'
  <2>1. pc' = "called"
    BY <1>2 DEF CallSearch, Search
  <2> QED BY <2>1 DEF SameInv, SameAsBatch, Success, Filling, Looping
<1>3. ASSUME NEW d \in Inputs, NEW size \in FileSizes(d), CallReader(d, size) PROVE SameInv'
  <2>1. /\ pc' \in {"literals", "fill"} /\ results' = << >> /\ wantIdx' = 0
        /\ pc' = "literals" => checksums = << >> \/ size < BlockSize
        /\ fileSize' = size /\ checksums' = checksums
    BY <1>3 DEF CallReader, engineVars
  <2>2. References(results') = << >>
    BY <2>1, NothingAmounts
  <2> QED BY <2>1, <2>2 DEF SameInv, SameAsBatch, Success, Looping
<1>4. CASE StreamLiterals \/ LiteralsEnd
  BY <1>4, StreamLiteralsSame, LiteralsEndSame
<1>5. CASE ReadMore \/ FillFail \/ FillShort \/ FillDone
  BY <1>5, ReadMoreSame, FillFailSame, FillShortSame, FillDoneSame
<1>6. CASE Slide \/ SlideDone \/ SlideFail
  BY <1>6, SlideSame, SlideDoneSame, SlideFailSame
<1>7. CASE StreamMatch \/ StreamMiss \/ StreamEnd
  BY <1>7, StreamMatchSame, StreamMissSame, StreamEndSame
<1>8. CASE UNCHANGED allVars
  BY <1>8, StillSame
<1> QED BY <1>1, <1>2, <1>3, <1>4, <1>5, <1>6, <1>7, <1>8 DEF ReaderNext, ReaderReturn

\* SearchReader refers to the blocks Search refers to, in the same places and in
\* the same order, for every buffer, every way the source is cut into reads and
\* every mix of calls, when the probes are ample and the reader reports the end
\* of the file by itself (delta_test.go:657).  A reader that reports it along with the
\* last bytes, as io.Reader allows, ends the scan there: the blocks that were
\* still to be matched are sent literally (SlideFail).
THEOREM SameAsInMemory ==
  ASSUME Announced, ~ JoinedEOF
  PROVE  ReaderSpec => []SameAsBatch
<1>1. ReaderInit => SharedInv
  BY InitReaderInv, InitChains, InitFinds DEF ReaderInit, SharedInv
<1>2. SharedInv /\ [ReaderNext]_allVars => SharedInv'
  BY NextShares
<1>3. ReaderInit => SameInv
  BY DEF ReaderInit, Init, SameInv, SameAsBatch, Success, Filling, Looping
<1>4. SharedInv /\ SameInv /\ [ReaderNext]_allVars => SameInv'
  BY NextSame
<1>5. SameInv => SameAsBatch
  BY DEF SameInv
<1> QED BY <1>1, <1>2, <1>3, <1>4, <1>5, PTL DEF ReaderSpec
=============================================================================
