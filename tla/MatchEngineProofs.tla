-------------------------- MODULE MatchEngineProofs --------------------------
(***************************************************************************)
(* The match engine, for every block size, chunk size, table size, probe   *)
(* limit and set of files.  Two invariants carry the proofs.               *)
(*                                                                         *)
(* IInv says where the results stand: the instructions cover the data      *)
(* before lastMatch, the loaded checksums are those of the basis and the   *)
(* table points into them, so that a match by strong checksum is a block   *)
(* of the basis.  What the table holds, in what order it is probed and     *)
(* where probing stops does not matter to it.                              *)
(*                                                                         *)
(* ExactInv adds that they do no harm to what is found: the probe chains   *)
(* are unbroken and in the order of insertion, so that what has been       *)
(* emitted and what the scan will still emit are always what the function  *)
(* SearchResult says.                                                      *)
(***************************************************************************)
EXTENDS MatchEngine, BlocksProofs, FiniteSetTheorems

\* The part of the type invariant that the hash table is about.
TableType ==
  /\ checksums \in Seq(BlockSums) /\ wantIdx \in Nat
  /\ tableSize \in Nat \ {0}
  /\ hashTable \in [0 .. tableSize - 1 -> [sum1 : Nat, idx : Nat]]

TableInv ==
  /\ checksums \in {<< >>, Signature(basis)}
  /\ checksums # << >> => \A h \in 0 .. tableSize - 1 : hashTable[h].idx <= Len(checksums)

ScanInv ==
  /\ pc = "called" => results = << >> /\ lastMatch = 0 /\ offset = 0
  /\ pc \in {"scan", "tail"} =>
       checksums # << >> /\ lastMatch <= offset /\ lastMatch <= Len(data)

IInv == TypeOK /\ TableInv /\ ScanInv /\ RollingInSync /\ ResultsRebuildData /\ LiteralsChunked

LEMMA InitIInv == Init => IInv
<1> SUFFICES ASSUME Init PROVE IInv
  OBVIOUS
<1>1. TypeOK
  BY ModAssumption, EmptySeq DEF Init, TypeOK, Stats, NoStats, Empty, RollingState, Residue
<1> QED BY <1>1 DEF Init, IInv, TableInv, ScanInv, RollingInSync, ResultsRebuildData, LiteralsChunked

-----------------------------------------------------------------------------
(* The operators *)

LEMMA SignatureType ==
  ASSUME NEW f \in Seq(Byte)
  PROVE  Signature(f) \in Seq(BlockSums)
<1>1. NumBlocks(f) \in Nat
  BY RoundedDivision, BlockSizeAssumption, LenProperties DEF NumBlocks
<1>2. ASSUME NEW k \in 1 .. NumBlocks(f)
      PROVE  BlockSum(f, k - 1) \in BlockSums
  <2> DEFINE i == k - 1
  <2>1. i \in 0 .. NumBlocks(f) - 1 /\ i \in Nat
    BY <1>1
  <2> HIDE DEF i
  <2>2. Checksum1(Block(f, i)) \in Nat /\ Strong(Block(f, i)) \in Digest
    BY <2>1, BlockType, Checksum1Type, StrongAssumption
  <2>3. BlockEnd(f, i) - i * BlockSize \in Nat
    BY <2>1, BlockBounds
  <2>4. BlockSum(f, i) \in BlockSums
    BY <2>1, <2>2, <2>3 DEF BlockSum, BlockSums
  <2> QED BY <2>4 DEF i
<1> QED BY <1>1, <1>2 DEF Signature

LEMMA TableCapType ==
  ASSUME NEW f \in Bases
  PROVE  TableCap(NumBlocks(f)) \in Nat \ {0}
<1> DEFINE n == 2 * NumBlocks(f)
           S == {t \in TableSizes : t >= n /\ t >= MinTable}
<1>1. S # {} /\ S \subseteq Nat
  BY BoundsAssumption
<1>2. \E m \in S : \A t \in S : m <= t
  <2> HIDE DEF S
  <2> QED BY <1>1, LeastElement
<1>3. RoundUp(n) \in TableSizes
  <2>1. \E m \in TableSizes : /\ m >= n /\ m >= MinTable
                              /\ \A t \in TableSizes : t >= n /\ t >= MinTable => m <= t
    BY <1>2
  <2> HIDE DEF n
  <2> QED BY <2>1 DEF RoundUp
<1>4. RoundUp(n) \in Nat \ {0} /\ MinTable \in Nat \ {0}
  BY <1>3, BoundsAssumption
<1> HIDE DEF n
<1> QED BY <1>4 DEF TableCap, n

LEMMA SlotInTable ==
  ASSUME TableType, NEW v \in Nat, NEW k \in Nat
  PROVE  \E h \in 0 .. tableSize - 1 : Slot(v, k) = hashTable[h]
<1>1. tableSize \in Nat \ {0} /\ v \div Mod \in Int
  BY ModAssumption DEF TableType
<1>2. Home(v) \in Nat
  BY <1>1, ModType DEF Home
<1>3. (Home(v) + k) % tableSize \in 0 .. tableSize - 1
  <2>1. Home(v) + k \in Int
    BY <1>2
  <2> QED BY <1>1, <2>1, ModType
<1> QED BY <1>3 DEF Slot

\* The block a match refers to, wanted or found, has the window's checksum.
LEMMA PreferredBlock ==
  ASSUME TableType, TableInv, checksums # << >>,
         NEW v \in Nat, NEW w, NEW k \in Compared(v), Agrees(v, w, k)
  PROVE  /\ Preferred(v, w, k) \in 0 .. Len(checksums) - 1
         /\ checksums[Preferred(v, w, k) + 1].sum2 = Strong(w)
<1>1. k \in Nat /\ Slot(v, k).idx # 0
  BY BoundsAssumption DEF Compared, Reached
<1>2. PICK h \in 0 .. tableSize - 1 : Slot(v, k) = hashTable[h]
  BY <1>1, SlotInTable
<1>3. hashTable[h].idx \in Nat /\ hashTable[h].idx <= Len(checksums)
  BY <1>2 DEF TableType, TableInv
<1>4. Slot(v, k).idx \in 1 .. Len(checksums)
  BY <1>1, <1>2, <1>3
<1>5. Len(checksums) \in Nat /\ wantIdx \in Nat
  BY LenProperties DEF TableType
<1>6. CASE /\ wantIdx < Len(checksums)
           /\ checksums[wantIdx + 1].sum1 = v
           /\ checksums[wantIdx + 1].sum2 = Strong(w)
  BY <1>5, <1>6 DEF Preferred
<1>7. CASE ~ (/\ wantIdx < Len(checksums)
              /\ checksums[wantIdx + 1].sum1 = v
              /\ checksums[wantIdx + 1].sum2 = Strong(w))
  <2>1. Preferred(v, w, k) = Slot(v, k).idx - 1
    BY <1>7 DEF Preferred
  <2>2. (Slot(v, k).idx - 1) + 1 = Slot(v, k).idx
    BY <1>4
  <2> QED BY <2>1, <2>2, <1>4, <1>5 DEF Agrees
<1> QED BY <1>6, <1>7

\* The window is a block of the basis: the one its match refers to.
LEMMA MatchedBlock ==
  ASSUME TableType, TableInv, checksums # << >>, basis \in Seq(Byte),
         NEW v \in Nat, NEW w \in Seq(Byte), Len(w) = BlockSize,
         NEW k \in Compared(v), Agrees(v, w, k)
  PROVE  Preferred(v, w, k) \in Nat /\ Block(basis, Preferred(v, w, k)) = w
<1> DEFINE i == Preferred(v, w, k)
<1>1. /\ checksums = Signature(basis) /\ Len(checksums) \in Nat
      /\ i \in 0 .. Len(checksums) - 1 /\ checksums[i + 1].sum2 = Strong(w)
  BY PreferredBlock, LenProperties DEF TableType, TableInv
<1> HIDE DEF i
<1>2. i + 1 \in 1 .. Len(Signature(basis)) /\ (i + 1) - 1 = i /\ Len(w) <= BlockSize
  BY <1>1, BlockSizeAssumption
<1>3. Block(basis, (i + 1) - 1) = w
  BY <1>1, <1>2, StrongIdentifies
<1> QED BY <1>1, <1>2, <1>3 DEF i

\* Literals for data[lo:hi] extend instructions that end at lo.
LEMMA EmitCovers ==
  ASSUME TypeOK, LiteralsChunked, NEW lo \in Nat, NEW hi \in Nat,
         lo <= hi, hi <= Len(data), Rebuilds(basis, data, results, lo)
  PROVE  LET r == EmitLiterals(lo, hi)
         IN  /\ r \in Seq(Instruction)
             /\ Rebuilds(basis, data, r, hi)
             /\ \A i \in 1 .. Len(r) : r[i].isLiteral => Len(r[i].data) \in 1 .. ChunkSize
<1> DEFINE cs == Chunks(Slice(data, lo, hi), lo)
           r == results \o cs
<1>1. /\ cs \in Seq(Instruction) /\ Covers(basis, data, cs, lo, hi)
      /\ \A i \in 1 .. Len(cs) : cs[i].isLiteral /\ Len(cs[i].data) \in 1 .. ChunkSize
  BY ChunksCover DEF TypeOK
<1>2. results \in Seq(Instruction) /\ data \in Seq(Byte)
  BY DEF TypeOK
<1> HIDE DEF cs
<1>3. r \in Seq(Instruction) /\ Covers(basis, data, r, 0, hi)
  BY <1>1, <1>2, CoversConcat, ConcatProperties DEF Rebuilds
<1>4. ASSUME NEW i \in 1 .. Len(r)
      PROVE  r[i].isLiteral => Len(r[i].data) \in 1 .. ChunkSize
  <2>1. /\ Len(r) = Len(results) + Len(cs) /\ Len(results) \in Nat /\ Len(cs) \in Nat
        /\ \A j \in 1 .. Len(r) : r[j] = IF j <= Len(results) THEN results[j]
                                         ELSE cs[j - Len(results)]
    BY <1>1, <1>2, ConcatProperties, LenProperties
  <2>2. CASE i <= Len(results)
    BY <2>1, <2>2 DEF LiteralsChunked
  <2>3. CASE i > Len(results)
    <3>1. i - Len(results) \in 1 .. Len(cs) /\ r[i] = cs[i - Len(results)]
      BY <2>1, <2>3
    <3> QED BY <1>1, <3>1
  <2> QED BY <2>1, <2>2, <2>3
<1> QED BY <1>3, <1>4 DEF EmitLiterals, Rebuilds, cs

\* A reference to the block found at lo extends instructions that end there.
LEMMA MatchExtends ==
  ASSUME NEW b, NEW d \in Seq(Byte), NEW r \in Seq(Instruction),
         NEW i \in Nat, NEW lo \in Nat, NEW hi \in Nat,
         lo <= hi, hi <= Len(d), Block(b, i) = Slice(d, lo, hi),
         Rebuilds(b, d, r, lo),
         \A j \in 1 .. Len(r) : r[j].isLiteral => Len(r[j].data) \in 1 .. ChunkSize
  PROVE  LET u == Append(r, Match(i, lo))
         IN  /\ u \in Seq(Instruction)
             /\ Rebuilds(b, d, u, hi)
             /\ \A j \in 1 .. Len(u) : u[j].isLiteral => Len(u[j].data) \in 1 .. ChunkSize
<1> DEFINE m == Match(i, lo)
           u == Append(r, m)
<1>1. m \in Instruction /\ Covers(b, d, << m >>, lo, hi)
  BY MatchCovers
<1>2. ~ m.isLiteral
  BY DEF Match
<1> HIDE DEF m
<1>3. u = r \o << m >> /\ u \in Seq(Instruction) /\ << m >> \in Seq(Instruction)
  BY <1>1, AppendIsConcat, AppendProperties
<1>4. Rebuilds(b, d, u, hi)
  BY <1>1, <1>3, CoversConcat DEF Rebuilds
<1>5. ASSUME NEW j \in 1 .. Len(u)
      PROVE  u[j].isLiteral => Len(u[j].data) \in 1 .. ChunkSize
  <2>1. /\ Len(u) = Len(r) + 1 /\ Len(r) \in Nat /\ u[Len(u)] = m
        /\ \A k \in 1 .. Len(r) : u[k] = r[k]
    BY <1>1, AppendProperties, LenProperties
  <2>2. CASE j = Len(u)
    BY <1>2, <2>1, <2>2
  <2>3. CASE j # Len(u)
    BY <2>1, <2>3
  <2> QED BY <2>2, <2>3
<1> QED BY <1>3, <1>4, <1>5 DEF m

-----------------------------------------------------------------------------
(* Every step preserves the invariant *)

LEMMA LoadSignatureStep ==
  ASSUME TypeOK, NEW f \in Bases, LoadSignature(f)
  PROVE  IInv'
<1>1. f \in Seq(Byte) /\ Signature(f) \in Seq(BlockSums)
  BY BasesAssumption, SignatureType
<1>2. TableCap(NumBlocks(f)) \in Nat \ {0}
  BY TableCapType
<1>3. tableSize' = TableCap(NumBlocks(f)) /\ hashTable' = [h \in 0 .. tableSize' - 1 |-> Empty]
  BY DEF LoadSignature, FreshTable
<1>4. Len(Signature(f)) \in Nat
  BY <1>1, LenProperties
<1>5. TypeOK'
  BY <1>1, <1>2, <1>3, EmptySeq DEF TypeOK, LoadSignature, Empty
<1>6. TableInv'
  BY <1>3, <1>4 DEF TableInv, LoadSignature, Empty
<1>7. ScanInv' /\ RollingInSync' /\ ResultsRebuildData' /\ LiteralsChunked'
  BY DEF LoadSignature, ScanInv, RollingInSync, ResultsRebuildData, LiteralsChunked
<1> QED BY <1>5, <1>6, <1>7 DEF IInv

LEMMA LoadNilStep ==
  ASSUME TypeOK, LoadNil
  PROVE  IInv'
<1>1. TypeOK'
  BY EmptySeq DEF TypeOK, LoadNil, NilChecksums
<1>2. TableInv' /\ ScanInv'
  BY DEF LoadNil, NilChecksums, TableInv, ScanInv
<1>3. RollingInSync' /\ ResultsRebuildData' /\ LiteralsChunked'
  BY DEF LoadNil, RollingInSync, ResultsRebuildData, LiteralsChunked
<1> QED BY <1>1, <1>2, <1>3 DEF IInv

LEMMA InsertBlockStep ==
  ASSUME IInv, InsertBlock
  PROVE  IInv'
<1>1. Len(checksums) \in Nat /\ inserted \in Nat /\ inserted + 1 \in 1 .. Len(checksums)
  BY LenProperties DEF IInv, TypeOK, InsertBlock
<1>2. checksums[inserted + 1].sum1 \in Nat
  <2>1. checksums[inserted + 1] \in BlockSums
    BY <1>1, ElementOfSeq DEF IInv, TypeOK
  <2> QED BY <2>1 DEF BlockSums
<1> DEFINE e == [sum1 |-> checksums[inserted + 1].sum1, idx |-> inserted + 1]
<1>3. e \in [sum1 : Nat, idx : Nat] /\ e.idx <= Len(checksums)
  BY <1>1, <1>2
<1> HIDE DEF e
<1>4. PICK h : hashTable' = [hashTable EXCEPT ![h] = e]
  BY DEF InsertBlock, e
<1>5. /\ hashTable' \in [0 .. tableSize - 1 -> [sum1 : Nat, idx : Nat]]
      /\ \A g \in 0 .. tableSize - 1 : hashTable'[g] = e \/ hashTable'[g] = hashTable[g]
  BY <1>3, <1>4 DEF IInv, TypeOK
<1>6. TypeOK'
  BY <1>1, <1>5 DEF IInv, TypeOK, InsertBlock, searchVars
<1>7. TableInv'
  BY <1>3, <1>5 DEF IInv, TableInv, InsertBlock
<1>8. ScanInv' /\ RollingInSync' /\ ResultsRebuildData' /\ LiteralsChunked'
  BY DEF IInv, InsertBlock, searchVars, ScanInv, RollingInSync, ResultsRebuildData,
         LiteralsChunked
<1> QED BY <1>6, <1>7, <1>8 DEF IInv

LEMMA BuiltStep ==
  ASSUME IInv, Built
  PROVE  IInv'
<1>1. TypeOK' /\ TableInv'
  BY DEF IInv, Built, engineVars, searchVars, TypeOK, TableInv
<1>2. ScanInv' /\ RollingInSync' /\ ResultsRebuildData' /\ LiteralsChunked'
  BY DEF IInv, Built, engineVars, searchVars, ScanInv, RollingInSync, ResultsRebuildData,
         LiteralsChunked
<1> QED BY <1>1, <1>2 DEF IInv

LEMMA SearchStep ==
  ASSUME TypeOK, TableInv, NEW d \in Inputs, Search(d)
  PROVE  IInv'
<1>1. TypeOK' /\ TableInv'
  BY InputsAssumption, EmptySeq, SMTT(60) DEF Search, engineVars, TypeOK, TableInv
<1>2. ScanInv' /\ RollingInSync' /\ ResultsRebuildData' /\ LiteralsChunked'
  BY DEF Search, ScanInv, RollingInSync, ResultsRebuildData, LiteralsChunked
<1> QED BY <1>1, <1>2 DEF IInv

LEMMA SearchLiteralsStep ==
  ASSUME IInv, SearchLiterals
  PROVE  IInv'
<1>1. pc = "called" /\ results = << >>
  BY DEF IInv, ScanInv, SearchLiterals
<1>2. Rebuilds(basis, data, results, 0)
  BY <1>1, CoversNone DEF Rebuilds
<1>3. Len(data) \in Nat /\ 0 <= Len(data)
  BY LenProperties DEF IInv, TypeOK
<1> DEFINE r == EmitLiterals(0, Len(data))
<1>4. /\ r \in Seq(Instruction) /\ Rebuilds(basis, data, r, Len(data))
      /\ \A i \in 1 .. Len(r) : r[i].isLiteral => Len(r[i].data) \in 1 .. ChunkSize
  <2> DEFINE n == Len(data)
  <2>1. TypeOK /\ LiteralsChunked /\ n \in Nat /\ 0 <= n /\ n <= Len(data)
    BY <1>3 DEF IInv
  <2> HIDE DEF n
  <2>2. LET q == EmitLiterals(0, n)
        IN  /\ q \in Seq(Instruction) /\ Rebuilds(basis, data, q, n)
            /\ \A i \in 1 .. Len(q) : q[i].isLiteral => Len(q[i].data) \in 1 .. ChunkSize
    BY <1>2, <2>1, EmitCovers
  <2> QED BY <2>2 DEF n
<1> HIDE DEF r
<1>5. /\ results' = r /\ pc' = "returned" /\ stats' \in Stats
      /\ UNCHANGED << basis, checksums, hashTable, tableSize, data >>
  <2>1. stats' = [stats EXCEPT !.literalBytes = @ + (Len(data) - 0)] /\ stats \in Stats
    BY DEF SearchLiterals, LiteralCost, IInv, TypeOK
  <2>2. stats' \in Stats
    BY <1>3, <2>1 DEF Stats
  <2> QED BY <2>2 DEF SearchLiterals, r, engineVars
<1>6. TypeOK' /\ TableInv'
  BY <1>4, <1>5 DEF IInv, TypeOK, TableInv, SearchLiterals, engineVars
<1>7. ScanInv' /\ RollingInSync' /\ ResultsRebuildData' /\ LiteralsChunked'
  BY <1>4, <1>5 DEF ScanInv, RollingInSync, ResultsRebuildData, LiteralsChunked
<1> QED BY <1>6, <1>7 DEF IInv

LEMMA SearchBeginStep ==
  ASSUME IInv, SearchBegin
  PROVE  IInv'
<1>1. /\ pc = "called" /\ results = << >> /\ lastMatch = 0 /\ offset = 0
      /\ data \in Seq(Byte) /\ BlockSize <= Len(data) /\ BlockSize \in Nat
      /\ Len(data) \in Nat
  BY BlockSizeAssumption, LenProperties DEF IInv, TypeOK, ScanInv, SearchBegin
<1>2. Slice(data, 0, BlockSize) \in Seq(Byte)
  BY <1>1, SliceType
<1>3. rolling' = Reset(Slice(data, 0, BlockSize)) /\ rolling' \in RollingState
  BY <1>2, BytesAreNaturals, ResetType DEF SearchBegin
<1>4. Rebuilds(basis, data, results, 0)
  BY <1>1, CoversNone DEF Rebuilds
<1>5. TypeOK' /\ TableInv'
  BY <1>3 DEF IInv, TypeOK, TableInv, SearchBegin, engineVars
<1>6. ScanInv' /\ ResultsRebuildData' /\ LiteralsChunked'
  BY <1>1, <1>4 DEF IInv, SearchBegin, engineVars, ScanInv, ResultsRebuildData, LiteralsChunked
<1>7. RollingInSync'
  BY <1>1, <1>3 DEF SearchBegin, RollingInSync, Window
<1> QED BY <1>5, <1>6, <1>7 DEF IInv

\* The window at a scan head, and what the rolling sum and a match say of it.
LEMMA ScanHead ==
  ASSUME IInv, pc = "scan", offset + BlockSize <= Len(data)
  PROVE  /\ Window \in Seq(Byte) /\ Len(Window) = BlockSize
         /\ rolling = Reset(Window) /\ Value(rolling) \in Nat
         /\ Window # << >>
<1>1. /\ data \in Seq(Byte) /\ offset \in Nat /\ Len(data) \in Nat
      /\ BlockSize \in Nat \ {0} /\ rolling \in RollingState
  BY BlockSizeAssumption, LenProperties DEF IInv, TypeOK
<1> DEFINE e == offset + BlockSize
<1>2. e \in Nat /\ offset <= e /\ e <= Len(data) /\ e - offset = BlockSize
  BY <1>1
<1>3. Window = Slice(data, offset, e)
  BY DEF Window
<1> HIDE DEF e
<1>4. Window \in Seq(Byte) /\ Len(Window) = BlockSize
  BY <1>1, <1>2, <1>3, SliceType, ZenonT(60)
<1>5. rolling = Reset(Window)
  BY DEF IInv, RollingInSync
<1> QED BY <1>1, <1>4, <1>5, ValueType, EmptySeq

\* The probe loop counts at most one false alarm per slot it may look at.
LEMMA ComparedFinite ==
  ASSUME NEW v, NEW T, T \subseteq Compared(v)
  PROVE  Cardinality(T) \in Nat
<1>1. T \subseteq 0 .. MaxProbe - 1
  BY DEF Compared
<1>2. IsFiniteSet(0 .. MaxProbe - 1)
  BY FS_Interval, BoundsAssumption
<1>3. IsFiniteSet(T)
  BY <1>1, <1>2, FS_Subset
<1> QED BY <1>3, FS_CardinalityType

LEMMA ScanMatchStep ==
  ASSUME IInv, ScanMatch
  PROVE  IInv'
<1> DEFINE v == Value(rolling)
           w == Window
           e == offset + BlockSize
<1>1. /\ pc = "scan" /\ e <= Len(data) /\ checksums # << >>
      /\ data \in Seq(Byte) /\ basis \in Seq(Byte)
      /\ offset \in Nat /\ lastMatch \in Nat /\ lastMatch <= offset
      /\ Len(data) \in Nat /\ BlockSize \in Nat \ {0}
      /\ Rebuilds(basis, data, results, lastMatch)
  BY BlockSizeAssumption, LenProperties
     DEF IInv, TypeOK, ScanInv, ScanMatch, ResultsRebuildData
<1>2. /\ w \in Seq(Byte) /\ Len(w) = BlockSize /\ v \in Nat /\ w = Slice(data, offset, e)
  BY <1>1, ScanHead DEF Window
<1>3. PICK k \in Compared(v) :
        /\ Agrees(v, w, k)
        /\ wantIdx' = Preferred(v, w, k) + 1
        /\ results' = Append(EmitLiterals(lastMatch, offset),
                             Match(Preferred(v, w, k), offset))
        /\ stats' = [hashHits     |-> stats.hashHits + HashHits(v),
                     falseAlarms  |-> stats.falseAlarms
                                      + Cardinality({j \in Compared(v) : j < k}),
                     matches      |-> stats.matches + 1,
                     literalBytes |-> stats.literalBytes + LiteralCost(lastMatch, offset)]
  BY DEF ScanMatch
<1> DEFINE i == Preferred(v, w, k)
           r == EmitLiterals(lastMatch, offset)
<1>4. i \in Nat /\ Block(basis, i) = w
  <2>1. TableType /\ TableInv
    BY DEF IInv, TypeOK, TableType
  <2> HIDE DEF v, w
  <2> QED BY <1>1, <1>2, <1>3, <2>1, MatchedBlock
<1>5. Block(basis, i) = Slice(data, offset, e)
  BY <1>2, <1>4
<1>6. /\ r \in Seq(Instruction) /\ Rebuilds(basis, data, r, offset)
      /\ \A j \in 1 .. Len(r) : r[j].isLiteral => Len(r[j].data) \in 1 .. ChunkSize
  <2>1. TypeOK /\ LiteralsChunked /\ offset <= Len(data)
    BY <1>1 DEF IInv
  <2> QED BY <1>1, <2>1, EmitCovers
<1>7. /\ results' \in Seq(Instruction) /\ Rebuilds(basis, data, results', e)
      /\ \A j \in 1 .. Len(results') :
            results'[j].isLiteral => Len(results'[j].data) \in 1 .. ChunkSize
  <2>1. i \in Nat /\ e \in Nat /\ offset <= e
    BY <1>1, <1>4
  <2>2. results' = Append(r, Match(i, offset))
    BY <1>3
  <2> HIDE DEF i, r, e
  <2> QED BY <1>1, <1>5, <1>6, <2>1, <2>2, MatchExtends
<1>8. /\ pc' = "scan" /\ lastMatch' = e /\ offset' = e
      /\ UNCHANGED << calls, engineVars, data, before >>
      /\ rolling' = IF offset' + BlockSize <= Len(data)
                    THEN Reset(Slice(data, offset', offset' + BlockSize)) ELSE rolling
  BY DEF ScanMatch
<1>9. rolling' \in RollingState /\ RollingInSync'
  <2>1. CASE e + BlockSize <= Len(data)
    <3> DEFINE z == e + BlockSize
    <3>1. e \in Nat /\ z \in Nat /\ e <= z
      BY <1>1
    <3>2. rolling' = Reset(Slice(data, e, z))
      BY <1>8, <2>1
    <3>3. Slice(data, e, z) \in Seq(Byte)
      <4> HIDE DEF e
      <4>1. z <= Len(data)
        BY <2>1
      <4> HIDE DEF z
      <4> QED BY <1>1, <3>1, <4>1, SliceType, ZenonT(60)
    <3>4. rolling' \in RollingState
      BY <3>2, <3>3, BytesAreNaturals, ResetType
    <3> QED BY <3>2, <3>4, <1>8 DEF RollingInSync, Window
  <2>2. CASE ~ (e + BlockSize <= Len(data))
    BY <2>2, <1>8 DEF RollingInSync, IInv, TypeOK
  <2> QED BY <2>1, <2>2
<1>10. wantIdx' \in Nat /\ stats' \in Stats
  <2>1. wantIdx' \in Nat
    BY <1>3, <1>4
  <2>2. HashHits(v) \in Nat
    BY DEF HashHits
  <2>3. Cardinality({j \in Compared(v) : j < k}) \in Nat
    BY ComparedFinite
  <2>4. LiteralCost(lastMatch, offset) \in Nat
    BY <1>1 DEF LiteralCost
  <2>5. stats \in Stats
    BY DEF IInv, TypeOK
  <2> HIDE DEF v
  <2> QED BY <2>1, <2>2, <2>3, <2>4, <2>5, <1>3, SMTT(60) DEF Stats
<1>11. TypeOK' /\ TableInv'
  <2>1. e \in Nat
    BY <1>1
  <2> HIDE DEF e
  <2> QED BY <1>7, <1>8, <1>9, <1>10, <2>1 DEF IInv, TypeOK, TableInv, engineVars
<1>12. ScanInv' /\ ResultsRebuildData' /\ LiteralsChunked'
  <2>1. e \in Nat
    BY <1>1
  <2> HIDE DEF e
  <2> QED BY <1>1, <1>7, <1>8, <2>1
          DEF ScanInv, ResultsRebuildData, LiteralsChunked, engineVars
<1> QED BY <1>9, <1>11, <1>12 DEF IInv

\* The window after a miss is the old one without its first byte and with the
\* byte that follows it.
LEMMA NextWindow ==
  ASSUME NEW f \in Seq(Byte), NEW lo \in Nat, NEW hi \in Nat, lo < hi, hi < Len(f)
  PROVE  Slice(f, lo + 1, hi + 1) = Append(Tail(Slice(f, lo, hi)), f[hi + 1])
<1> DEFINE w == Slice(f, lo, hi)
           n == hi - lo
           u == Slice(f, lo + 1, hi + 1)
           t == Append(Tail(w), f[hi + 1])
<1>1. Len(f) \in Nat /\ n \in Nat \ {0} /\ f[hi + 1] \in Byte
  BY LenProperties, ElementOfSeq
<1>2. w \in Seq(Byte) /\ Len(w) = n /\ \A i \in 1 .. n : w[i] = f[lo + i]
  <2>1. lo <= hi /\ hi <= Len(f)
    BY <1>1
  <2> HIDE DEF w
  <2>2. /\ Slice(f, lo, hi) \in Seq(Byte) /\ Len(Slice(f, lo, hi)) = hi - lo
        /\ \A i \in 1 .. hi - lo : Slice(f, lo, hi)[i] = f[lo + i]
    BY <2>1, SliceType, ZenonT(60)
  <2> QED BY <2>2 DEF w
<1>3. u \in Seq(Byte) /\ Len(u) = n /\ \A i \in 1 .. n : u[i] = f[lo + 1 + i]
  <2> DEFINE a == lo + 1
             b == hi + 1
  <2>1. a \in Nat /\ b \in Nat /\ a <= b /\ b <= Len(f) /\ b - a = n
    BY <1>1
  <2>2. u = Slice(f, a, b)
    OBVIOUS
  <2> HIDE DEF a, b, u
  <2>3. u \in Seq(Byte) /\ Len(u) = b - a /\ \A i \in 1 .. b - a : u[i] = f[a + i]
    BY <2>1, <2>2, SliceType, ZenonT(60)
  <2> QED BY <2>1, <2>3 DEF a
<1> HIDE DEF w, u
<1>4. w # << >>
  BY <1>1, <1>2, EmptySeq
<1>5. /\ Tail(w) \in Seq(Byte) /\ Len(Tail(w)) = n - 1
      /\ \A i \in 1 .. n - 1 : Tail(w)[i] = w[i + 1]
  BY <1>1, <1>2, <1>4, HeadTailProperties
<1>6. /\ t \in Seq(Byte) /\ Len(t) = n /\ t[n] = f[hi + 1]
      /\ \A i \in 1 .. n - 1 : t[i] = Tail(w)[i]
  <2> HIDE DEF n
  <2>1. (n - 1) + 1 = n
    BY <1>1
  <2> QED BY <1>1, <1>5, <2>1, AppendProperties
<1>7. ASSUME NEW i \in 1 .. n
      PROVE  u[i] = t[i]
  <2>1. CASE i = n
    BY <1>1, <1>3, <1>6, <2>1
  <2>2. CASE i # n
    <3>1. i \in 1 .. n - 1 /\ i + 1 \in 1 .. n
      BY <1>1, <2>2
    <3> HIDE DEF n, t
    <3>2. t[i] = w[i + 1]
      BY <1>5, <1>6, <3>1
    <3>3. w[i + 1] = f[lo + (i + 1)] /\ u[i] = f[lo + 1 + i]
      BY <1>2, <1>3, <3>1
    <3>4. i \in Nat /\ lo + (i + 1) = lo + 1 + i
      BY <3>1
    <3> QED BY <3>2, <3>3, <3>4
  <2> QED BY <2>1, <2>2
<1> HIDE DEF n, t
<1>8. u = t
  BY <1>3, <1>6, <1>7, SeqEqual
<1> QED BY <1>8 DEF u, t, w

\* The sum of a window, rolled, is the sum of the next one.
LEMMA RolledSum ==
  ASSUME NEW f \in Seq(Byte), NEW lo \in Nat, NEW hi \in Nat,
         hi = lo + BlockSize, hi < Len(f)
  PROVE  Roll(Reset(Slice(f, lo, hi)), f[lo + 1], f[hi + 1], BlockSize)
           = Reset(Slice(f, lo + 1, hi + 1))
<1> DEFINE w == Slice(f, lo, hi)
           old == f[lo + 1]
           new == f[hi + 1]
<1>1. /\ Len(f) \in Nat /\ BlockSize \in Nat \ {0} /\ lo < hi
      /\ lo <= hi /\ hi <= Len(f) /\ hi - lo = BlockSize
  BY LenProperties, BlockSizeAssumption
<1>2. old \in Nat /\ new \in Nat
  <2>1. lo + 1 \in 1 .. Len(f) /\ hi + 1 \in 1 .. Len(f)
    BY <1>1
  <2>2. f[lo + 1] \in Byte /\ f[hi + 1] \in Byte
    BY <2>1, ElementOfSeq
  <2> QED BY <2>2, ByteAssumption
<1>3. w \in Seq(Byte) /\ Len(w) = BlockSize /\ w[1] = old
  <2>0. f \in Seq(Byte) /\ lo \in Nat /\ hi \in Nat /\ lo <= hi /\ hi <= Len(f)
    BY <1>1
  <2>1. /\ Slice(f, lo, hi) \in Seq(Byte) /\ Len(Slice(f, lo, hi)) = hi - lo
        /\ \A i \in 1 .. hi - lo : Slice(f, lo, hi)[i] = f[lo + i]
    BY ONLY <2>0, SliceType
  <2>2. 1 \in 1 .. hi - lo
    BY <1>1
  <2> QED BY <1>1, <2>1, <2>2
<1>4. Slice(f, lo + 1, hi + 1) = Append(Tail(w), new)
  BY <1>1, NextWindow
<1> HIDE DEF w, old, new
<1>5. w \in Seq(Nat) /\ w # << >>
  BY <1>1, <1>3, BytesAreNaturals, EmptySeq
<1>6. Roll(Reset(w), w[1], new, Len(w)) = Reset(Append(Tail(w), new))
  BY <1>2, <1>5, RollIsReset
<1> QED BY <1>3, <1>4, <1>6 DEF w, old, new

LEMMA ScanMissStep ==
  ASSUME IInv, ScanMiss
  PROVE  IInv'
<1>1. /\ pc = "scan" /\ offset + BlockSize <= Len(data)
      /\ checksums # << >> /\ data \in Seq(Byte)
      /\ offset \in Nat /\ lastMatch \in Nat /\ lastMatch <= offset
      /\ Len(data) \in Nat /\ BlockSize \in Nat \ {0}
      /\ rolling \in RollingState
  BY BlockSizeAssumption, LenProperties DEF IInv, TypeOK, ScanInv, ScanMiss
<1>2. /\ Window \in Seq(Byte) /\ Len(Window) = BlockSize /\ Window # << >>
      /\ rolling = Reset(Window)
  BY <1>1, ScanHead
<1>3. /\ pc' = "scan" /\ offset' = offset + 1
      /\ UNCHANGED << calls, engineVars, data, lastMatch, wantIdx, results, before >>
      /\ rolling' = IF offset + BlockSize < Len(data)
                    THEN Roll(rolling, data[offset + 1],
                              data[offset + BlockSize + 1], BlockSize)
                    ELSE rolling
  BY <1>1 DEF ScanMiss, NextOffset
<1>4. rolling' \in RollingState /\ RollingInSync'
  <2>1. CASE offset + BlockSize < Len(data)
    <3> DEFINE e == offset + BlockSize
               next == offset + 1
               over == e + 1
    <3>1. /\ e \in Nat /\ e = offset + BlockSize /\ e < Len(data)
          /\ next \in Nat /\ over \in Nat /\ next <= over /\ over <= Len(data)
          /\ next + BlockSize = over
      BY <1>1, <2>1
    <3>2. Window = Slice(data, offset, e)
      BY DEF Window
    <3>3. rolling' = Roll(Reset(Slice(data, offset, e)), data[offset + 1],
                          data[e + 1], BlockSize)
      BY <1>2, <1>3, <2>1, <3>2
    <3>4. rolling' = Reset(Slice(data, next, over))
      <4> HIDE DEF e
      <4> QED BY <1>1, <3>1, <3>3, RolledSum DEF next, over
    <3>5. Slice(data, next, over) \in Seq(Byte)
      <4> HIDE DEF next, over
      <4> QED BY <1>1, <3>1, SliceType, ZenonT(60)
    <3>6. rolling' \in RollingState
      <4> HIDE DEF next, over
      <4> QED BY <3>4, <3>5, BytesAreNaturals, ResetType
    <3>7. Window' = Slice(data, next, over)
      BY <1>3, <3>1 DEF Window
    <3> HIDE DEF next, over
    <3> QED BY <3>4, <3>6, <3>7 DEF RollingInSync
  <2>2. CASE ~ (offset + BlockSize < Len(data))
    <3>1. ~ (offset' + BlockSize <= Len(data'))
      BY <1>1, <1>3, <2>2
    <3> QED BY <1>1, <1>3, <2>2, <3>1 DEF RollingInSync
  <2> QED BY <2>1, <2>2
<1>5. stats' \in Stats
  <2> DEFINE hits == HashHits(Value(rolling))
             alarms == Cardinality(Compared(Value(rolling)))
  <2>1. alarms \in Nat /\ hits \in Nat
    BY ComparedFinite DEF HashHits
  <2>2. /\ stats' = [stats EXCEPT !.hashHits = @ + hits, !.falseAlarms = @ + alarms]
        /\ stats \in Stats
    BY DEF ScanMiss, IInv, TypeOK
  <2> HIDE DEF hits, alarms
  <2>3. /\ stats.hashHits + hits \in Nat /\ stats.falseAlarms + alarms \in Nat
        /\ stats.matches \in Nat /\ stats.literalBytes \in Nat
    BY <2>1, <2>2 DEF Stats
  <2>4. stats' = [hashHits     |-> stats.hashHits + hits,
                  falseAlarms  |-> stats.falseAlarms + alarms,
                  matches      |-> stats.matches,
                  literalBytes |-> stats.literalBytes]
    BY <2>2 DEF Stats
  <2> QED BY <2>3, <2>4 DEF Stats
<1>6. TypeOK' /\ TableInv'
  BY <1>1, <1>3, <1>4, <1>5 DEF IInv, TypeOK, TableInv, engineVars
<1>7. ScanInv' /\ ResultsRebuildData' /\ LiteralsChunked'
  BY <1>1, <1>3 DEF IInv, ScanInv, ResultsRebuildData, LiteralsChunked, engineVars
<1> QED BY <1>4, <1>6, <1>7 DEF IInv

LEMMA ScanEndStep ==
  ASSUME IInv, ScanEnd
  PROVE  IInv'
<1>1. TypeOK' /\ TableInv'
  BY DEF IInv, ScanEnd, engineVars, searchVars, TypeOK, TableInv
<1>2. ScanInv' /\ RollingInSync' /\ ResultsRebuildData' /\ LiteralsChunked'
  BY DEF IInv, ScanEnd, engineVars, searchVars, ScanInv, RollingInSync,
         ResultsRebuildData, LiteralsChunked
<1> QED BY <1>1, <1>2 DEF IInv

\* A string with the length and the strong checksum of an entry of the
\* signature is the block of that entry.
LEMMA EntryIsBlock ==
  ASSUME basis \in Seq(Byte), TableInv, NEW i \in 1 .. Len(checksums),
         NEW w \in Seq(Byte),
         checksums[i].length = Len(w), checksums[i].sum2 = Strong(w)
  PROVE  checksums[i].index \in Nat /\ Block(basis, checksums[i].index) = w
<1>0. checksums = Signature(basis)
  <2>1. Len(<< >>) = 0
    BY EmptySeq
  <2> QED BY <2>1 DEF TableInv
<1>1. /\ checksums[i] = BlockSum(basis, i - 1)
      /\ i - 1 \in 0 .. NumBlocks(basis) - 1
  BY <1>0, SignatureEntries
<1> DEFINE b == i - 1
<1>2. /\ BlockSum(basis, b).length = BlockEnd(basis, b) - b * BlockSize
      /\ b \in 0 .. NumBlocks(basis) - 1
      /\ checksums[i].index = b
  BY <1>1 DEF BlockSum
<1>3. Len(w) <= BlockSize
  <2>1. BlockEnd(basis, b) - b * BlockSize <= BlockSize
    <3> HIDE DEF b
    <3> QED BY <1>2, BlockBounds
  <2> QED BY <1>1, <1>2, <2>1
<1>4. Block(basis, i - 1) = w
  BY <1>0, <1>3, StrongIdentifies
<1> QED BY <1>2, <1>4

LEMMA TailMatchStep ==
  ASSUME IInv, TailMatch
  PROVE  IInv'
<1>1. /\ pc = "tail" /\ lastMatch < Len(data) /\ checksums = Signature(basis)
      /\ data \in Seq(Byte) /\ basis \in Seq(Byte) /\ lastMatch \in Nat
      /\ Len(data) \in Nat /\ Rebuilds(basis, data, results, lastMatch)
      /\ results \in Seq(Instruction) /\ BlockSize \in Nat \ {0}
  BY BlockSizeAssumption, LenProperties
     DEF IInv, TypeOK, TableInv, ScanInv, TailMatch, ResultsRebuildData
<1>2. PICK i \in TailBlocks :
        /\ results' = Append(results, Match(checksums[i].index, lastMatch))
        /\ lastMatch' = lastMatch + checksums[i].length
  BY DEF TailMatch
<1>3. /\ TailBytes \in Seq(Byte) /\ Len(TailBytes) = Len(data) - lastMatch
  <2> DEFINE n == Len(data)
  <2>1. n \in Nat /\ lastMatch <= n /\ n <= Len(data)
    BY <1>1
  <2>2. TailBytes = Slice(data, lastMatch, n)
    BY DEF TailBytes
  <2> HIDE DEF n
  <2>3. TailBytes \in Seq(Byte) /\ Len(TailBytes) = n - lastMatch
    BY <1>1, <2>1, <2>2, SliceType, ZenonT(60)
  <2> QED BY <2>3 DEF n
<1>4. i \in 1 .. Len(checksums) /\ checksums[i].length = Len(TailBytes)
      /\ checksums[i].sum2 = Strong(TailBytes) /\ TableInv
  BY <1>2 DEF TailBlocks, IInv
<1>7. checksums[i].index \in Nat /\ Block(basis, checksums[i].index) = TailBytes
  BY <1>1, <1>3, <1>4, EntryIsBlock
<1>8. lastMatch' = Len(data)
  BY <1>1, <1>2, <1>3, <1>4
<1>9. /\ results' \in Seq(Instruction) /\ Rebuilds(basis, data, results', Len(data))
      /\ \A j \in 1 .. Len(results') :
            results'[j].isLiteral => Len(results'[j].data) \in 1 .. ChunkSize
  <2> DEFINE b == checksums[i].index
             n == Len(data)
  <2>1. /\ b \in Nat /\ n \in Nat /\ lastMatch <= n /\ n <= Len(data)
        /\ Block(basis, b) = Slice(data, lastMatch, n)
    BY <1>1, <1>7 DEF TailBytes
  <2>2. results' = Append(results, Match(b, lastMatch))
    BY <1>2
  <2>3. \A j \in 1 .. Len(results) :
            results[j].isLiteral => Len(results[j].data) \in 1 .. ChunkSize
    BY DEF IInv, LiteralsChunked
  <2> HIDE DEF b, n
  <2>4. /\ results' \in Seq(Instruction) /\ Rebuilds(basis, data, results', n)
        /\ \A j \in 1 .. Len(results') :
              results'[j].isLiteral => Len(results'[j].data) \in 1 .. ChunkSize
    BY <1>1, <2>1, <2>2, <2>3, MatchExtends
  <2> QED BY <2>4 DEF n
<1>10. stats' \in Stats
  <2>1. stats' = [stats EXCEPT !.matches = @ + 1] /\ stats \in Stats
    BY DEF TailMatch, IInv, TypeOK
  <2> QED BY <2>1 DEF Stats
<1>11. /\ pc' = "returned"
       /\ UNCHANGED << calls, engineVars, data, rolling, offset, wantIdx, before >>
  BY DEF TailMatch
<1>12. TypeOK' /\ TableInv'
  BY <1>1, <1>8, <1>9, <1>10, <1>11 DEF IInv, TypeOK, TableInv, engineVars
<1>13. ScanInv' /\ RollingInSync' /\ ResultsRebuildData' /\ LiteralsChunked'
  BY <1>9, <1>11 DEF ScanInv, RollingInSync, ResultsRebuildData, LiteralsChunked, engineVars
<1> QED BY <1>12, <1>13 DEF IInv

LEMMA TailLiteralsStep ==
  ASSUME IInv, TailLiterals
  PROVE  IInv'
<1> DEFINE n == Len(data)
           r == EmitLiterals(lastMatch, n)
<1>1. /\ pc = "tail" /\ lastMatch \in Nat /\ n \in Nat /\ lastMatch <= n
      /\ n <= Len(data) /\ Rebuilds(basis, data, results, lastMatch)
  BY LenProperties DEF IInv, TypeOK, ScanInv, TailLiterals, ResultsRebuildData
<1>2. /\ pc' = "returned" /\ results' = r
      /\ stats' = [stats EXCEPT !.literalBytes = @ + (n - lastMatch)]
      /\ UNCHANGED << calls, engineVars, data, rolling, offset, lastMatch, wantIdx, before >>
  BY DEF TailLiterals, LiteralCost
<1>3. stats' \in Stats
  <2>1. stats \in Stats /\ n - lastMatch \in Nat
    BY <1>1 DEF IInv, TypeOK
  <2> HIDE DEF n, r
  <2> QED BY <1>2, <2>1 DEF Stats
<1>4. /\ r \in Seq(Instruction) /\ Rebuilds(basis, data, r, n)
      /\ \A j \in 1 .. Len(r) : r[j].isLiteral => Len(r[j].data) \in 1 .. ChunkSize
  <2>1. TypeOK /\ LiteralsChunked
    BY DEF IInv
  <2> HIDE DEF n
  <2> QED BY <1>1, <2>1, EmitCovers
<1>5. TypeOK' /\ TableInv'
  <2> HIDE DEF r
  <2> QED BY <1>2, <1>3, <1>4 DEF IInv, TypeOK, TableInv, engineVars
<1>6. ScanInv' /\ RollingInSync' /\ ResultsRebuildData' /\ LiteralsChunked'
  <2> HIDE DEF r
  <2> QED BY <1>2, <1>4
          DEF ScanInv, RollingInSync, ResultsRebuildData, LiteralsChunked, engineVars
<1> QED BY <1>5, <1>6 DEF IInv

LEMMA NextIInv ==
  ASSUME IInv, [Next]_vars
  PROVE  IInv'
<1>1. CASE Next
  <2>1. ASSUME NEW f \in Bases, LoadSignature(f) PROVE IInv'
    BY <2>1, LoadSignatureStep DEF IInv
  <2>2. CASE LoadNil
    BY <2>2, LoadNilStep DEF IInv
  <2>3. ASSUME NEW d \in Inputs, Search(d) PROVE IInv'
    BY <2>3, SearchStep DEF IInv
  <2>4. CASE InsertBlock
    BY <2>4, InsertBlockStep
  <2>5. CASE Built
    BY <2>5, BuiltStep
  <2>6. CASE SearchLiterals
    BY <2>6, SearchLiteralsStep
  <2>7. CASE SearchBegin
    BY <2>7, SearchBeginStep
  <2>8. CASE ScanMatch
    BY <2>8, ScanMatchStep
  <2>9. CASE ScanMiss
    BY <2>9, ScanMissStep
  <2>10. CASE ScanEnd
    BY <2>10, ScanEndStep
  <2>11. CASE TailMatch
    BY <2>11, TailMatchStep
  <2>12. CASE TailLiterals
    BY <2>12, TailLiteralsStep
  <2>13. CASE UNCHANGED vars
    BY <2>13 DEF IInv, vars, engineVars, searchVars, TypeOK, TableInv, ScanInv,
                 RollingInSync, Window, ResultsRebuildData, LiteralsChunked
  <2>14. CASE Rest
    BY <2>13, <2>14 DEF Rest
  <2> QED BY <1>1, <2>1, <2>2, <2>3, <2>4, <2>5, <2>6, <2>7, <2>8, <2>9, <2>10,
             <2>11, <2>12, <2>14 DEF Next, Progress, SearchProgress
<1>2. CASE UNCHANGED vars
  BY <1>2 DEF IInv, vars, engineVars, searchVars, TypeOK, TableInv, ScanInv,
              RollingInSync, Window, ResultsRebuildData, LiteralsChunked
<1> QED BY <1>1, <1>2

-----------------------------------------------------------------------------
(* The theorems *)

\* The invariant holds whatever signatures are loaded and whatever sources
\* are searched, in any order, on one engine (engine.go, Search in search.go).
THEOREM Invariant == Spec => []IInv
<1>1. IInv /\ [Next]_vars => IInv'
  BY NextIInv
<1> QED BY InitIInv, <1>1, PTL DEF Spec

\* The state of the engine and of its scan keeps its type.
THEOREM TypeCorrect == Spec => []TypeOK
<1>1. IInv => TypeOK
  BY DEF IInv
<1> QED BY <1>1, Invariant, PTL

\* Search is lossless: the instructions it has emitted rebuild the data they
\* stand for, for every signature, block size, table and probe limit.
THEOREM Lossless == Spec => []ResultsRebuildData
<1>1. IInv => ResultsRebuildData
  BY DEF IInv
<1> QED BY <1>1, Invariant, PTL

\* At the head of the scan loop (search.go) the rolling sum, rolled after a
\* miss and reset after a match, is that of the window at offset.
THEOREM RollingStaysInSync == Spec => []RollingInSync
<1>1. IInv => RollingInSync
  BY DEF IInv
<1> QED BY <1>1, Invariant, PTL

\* emitLiterals never emits an empty literal or one above CHUNK_SIZE.
THEOREM LiteralsStayChunked == Spec => []LiteralsChunked
<1>1. IInv => LiteralsChunked
  BY DEF IInv
<1> QED BY <1>1, Invariant, PTL

-----------------------------------------------------------------------------
(* The hash table: t has m slots and holds the blocks 1 .. n of signature cs *)

\* The k-th slot of the probe chain of v.
Position(m, v, k) == (((v + v \div Mod) % m) + k) % m

Probe(t, m, v, k) == t[Position(m, v, k)]

\* Each entry is that of a block inserted, and of one only.
EntriesTrue(t, m, cs, n) ==
  \A h \in 0 .. m - 1 : t[h].idx # 0 =>
    /\ t[h].idx \in 1 .. n
    /\ t[h].sum1 = cs[t[h].idx].sum1
    /\ \A g \in 0 .. m - 1 : t[g].idx = t[h].idx => g = h

\* Block i is at the k-th slot of its chain, which is occupied up to there.
FoundAt(t, m, cs, i, k) ==
  /\ Probe(t, m, cs[i].sum1, k) = [sum1 |-> cs[i].sum1, idx |-> i]
  /\ \A j \in 0 .. k : Probe(t, m, cs[i].sum1, j).idx # 0

AllFound(t, m, cs, n) == \A i \in 1 .. n : \E k \in 0 .. m - 1 : FoundAt(t, m, cs, i, k)

\* Of two blocks with one weak checksum the earlier one comes first.
InOrder(t, m, cs, n) ==
  \A i, j \in 1 .. n : \A k, l \in 0 .. m - 1 :
    /\ i < j /\ cs[i].sum1 = cs[j].sum1
    /\ Probe(t, m, cs[i].sum1, k).idx = i
    /\ Probe(t, m, cs[j].sum1, l).idx = j
    => k < l

Chained(t, m, cs, n) ==
  EntriesTrue(t, m, cs, n) /\ AllFound(t, m, cs, n) /\ InOrder(t, m, cs, n)

Tables(m) == [0 .. m - 1 -> [sum1 : Nat, idx : Nat]]

LEMMA InjectiveMod ==
  ASSUME NEW a \in Nat, NEW m \in Nat \ {0},
         NEW j \in 0 .. m - 1, NEW k \in 0 .. m - 1, (a + j) % m = (a + k) % m
  PROVE  j = k
<1> DEFINE p == (a + j) \div m
           q == (a + k) \div m
           r == (a + j) % m
<1>1. p \in Int /\ q \in Int /\ r \in 0 .. m - 1
  OBVIOUS
<1>2. a + j = p * m + r /\ a + k = q * m + r
  OBVIOUS
<1> HIDE DEF p, q, r
<1>3. CASE p <= q - 1
  <2>1. p * m <= (q - 1) * m /\ (q - 1) * m = q * m - m /\ p * m \in Int /\ q * m \in Int
    BY <1>1, <1>3, ScaleMonotone
  <2> QED BY <1>1, <1>2, <2>1
<1>4. CASE q <= p - 1
  <2>1. q * m <= (p - 1) * m /\ (p - 1) * m = p * m - m /\ p * m \in Int /\ q * m \in Int
    BY <1>1, <1>4, ScaleMonotone
  <2> QED BY <1>1, <1>2, <2>1
<1>5. CASE p = q
  BY <1>1, <1>2, <1>5
<1> QED BY <1>1, <1>3, <1>4, <1>5

\* A probe chain stays inside the table and visits each slot once.
LEMMA ChainPositions ==
  ASSUME NEW m \in Nat \ {0}, NEW v \in Nat
  PROVE  /\ \A k \in Nat : Position(m, v, k) \in 0 .. m - 1
         /\ \A j, k \in 0 .. m - 1 : Position(m, v, j) = Position(m, v, k) => j = k
<1> DEFINE home == (v + v \div Mod) % m
<1>1. home \in Nat
  <2>1. v + v \div Mod \in Int
    BY ModAssumption
  <2> QED BY <2>1, ModType
<1>2. \A k : Position(m, v, k) = (home + k) % m
  BY DEF Position
<1> HIDE DEF home
<1>3. ASSUME NEW k \in Nat
      PROVE  Position(m, v, k) \in 0 .. m - 1
  <2>1. home + k \in Int
    BY <1>1
  <2> QED BY <1>2, <2>1, ModType
<1>4. ASSUME NEW j \in 0 .. m - 1, NEW k \in 0 .. m - 1,
             Position(m, v, j) = Position(m, v, k)
      PROVE  j = k
  BY <1>1, <1>2, <1>4, InjectiveMod
<1> QED BY <1>3, <1>4

\* A block has one place in its chain.
LEMMA OnePlace ==
  ASSUME NEW m \in Nat \ {0}, NEW t, NEW cs, NEW n \in Nat, Chained(t, m, cs, n),
         NEW i \in 1 .. n, cs[i].sum1 \in Nat
  PROVE  \E k \in 0 .. m - 1 :
           /\ FoundAt(t, m, cs, i, k)
           /\ \A l \in 0 .. m - 1 : Probe(t, m, cs[i].sum1, l).idx = i => l = k
<1> DEFINE v == cs[i].sum1
<1>1. PICK k \in 0 .. m - 1 : FoundAt(t, m, cs, i, k)
  BY DEF Chained, AllFound
<1>2. ASSUME NEW l \in 0 .. m - 1, Probe(t, m, v, l).idx = i
      PROVE  l = k
  <2>0. Probe(t, m, v, k).idx = i
    BY <1>1 DEF FoundAt
  <2> HIDE DEF v
  <2>1. v \in Nat /\ k \in Nat /\ l \in Nat /\ i # 0
    BY DEF v
  <2>2. Position(m, v, k) \in 0 .. m - 1 /\ Position(m, v, l) \in 0 .. m - 1
    BY <2>1, ChainPositions
  <2>3. Position(m, v, l) = Position(m, v, k)
    BY <1>2, <2>0, <2>1, <2>2 DEF Probe, Chained, EntriesTrue
  <2> QED BY <2>1, <2>3, ChainPositions
<1> QED BY <1>1, <1>2

\* One turn of the insertion loop: the table stays chained.
LEMMA InsertionChained ==
  ASSUME NEW m \in Nat \ {0}, NEW t \in Tables(m), NEW cs, NEW n \in Nat,
         Chained(t, m, cs, n), \A i \in 1 .. n + 1 : cs[i].sum1 \in Nat,
         NEW k0 \in 0 .. m - 1,
         Probe(t, m, cs[n + 1].sum1, k0).idx = 0,
         \A j \in 0 .. k0 - 1 : Probe(t, m, cs[n + 1].sum1, j).idx # 0
  PROVE  Chained([t EXCEPT ![Position(m, cs[n + 1].sum1, k0)] =
                    [sum1 |-> cs[n + 1].sum1, idx |-> n + 1]], m, cs, n + 1)
<1> DEFINE b == n + 1
           v == cs[b].sum1
           h0 == Position(m, v, k0)
           e == [sum1 |-> v, idx |-> b]
           r == [t EXCEPT ![h0] = e]
<1>1. /\ b \in Nat /\ b # 0 /\ b \notin 1 .. n /\ 1 .. n \subseteq 1 .. b
      /\ \A i \in 1 .. b : i # b => i \in 1 .. n
      /\ \A i \in 1 .. b : cs[i].sum1 \in Nat
      /\ v \in Nat /\ k0 \in Nat /\ e.idx = b /\ e.sum1 = v
  OBVIOUS
<1>2. Probe(t, m, v, k0).idx = 0 /\ \A j \in 0 .. k0 - 1 : Probe(t, m, v, j).idx # 0
  OBVIOUS
<1>3. v = cs[b].sum1 /\ h0 = Position(m, v, k0)
  OBVIOUS
<1> HIDE DEF b, v, h0, e
<1>4. h0 \in 0 .. m - 1 /\ t[h0].idx = 0
  BY <1>1, <1>2, <1>3, ChainPositions DEF Probe
<1>5. r[h0] = e /\ \A h \in 0 .. m - 1 : h # h0 => r[h] = t[h]
  BY <1>4 DEF Tables
<1> HIDE DEF r
\* The chains before and after.
<1>6. ASSUME NEW u \in Nat, NEW k \in Nat
      PROVE  /\ Position(m, u, k) \in 0 .. m - 1
             /\ Position(m, u, k) = h0 => Probe(r, m, u, k) = e /\ Probe(t, m, u, k).idx = 0
             /\ Position(m, u, k) # h0 => Probe(r, m, u, k) = Probe(t, m, u, k)
  <2>1. Position(m, u, k) \in 0 .. m - 1
    BY ChainPositions
  <2> QED BY <1>4, <1>5, <2>1 DEF Probe
<1>7. EntriesTrue(r, m, cs, b)
  <2> SUFFICES ASSUME NEW h \in 0 .. m - 1, r[h].idx # 0
               PROVE  /\ r[h].idx \in 1 .. b
                      /\ r[h].sum1 = cs[r[h].idx].sum1
                      /\ \A g \in 0 .. m - 1 : r[g].idx = r[h].idx => g = h
    BY DEF EntriesTrue
  <2>1. \A g \in 0 .. m - 1 : t[g].idx # 0 => t[g].idx \in 1 .. n
    BY DEF Chained, EntriesTrue
  <2>2. CASE h = h0
    <3>1. r[h].idx = b /\ r[h].sum1 = v
      BY <1>1, <1>5, <2>2
    <3>2. ASSUME NEW g \in 0 .. m - 1, g # h
          PROVE  r[g].idx # b
      BY <1>1, <1>5, <2>1, <2>2, <3>2
    <3> QED BY <1>1, <1>3, <3>1, <3>2
  <2>3. CASE h # h0
    <3>1. r[h] = t[h] /\ t[h].idx \in 1 .. n
      BY <1>5, <2>1, <2>3
    <3>2. /\ t[h].sum1 = cs[t[h].idx].sum1
          /\ \A g \in 0 .. m - 1 : t[g].idx = t[h].idx => g = h
      BY <3>1 DEF Chained, EntriesTrue
    <3>3. ASSUME NEW g \in 0 .. m - 1, r[g].idx = r[h].idx
          PROVE  g = h
      <4>1. g # h0
        BY <1>1, <1>5, <3>1, <3>3
      <4> QED BY <1>5, <3>1, <3>2, <3>3, <4>1
    <3> QED BY <1>1, <3>1, <3>2, <3>3
  <2> QED BY <2>2, <2>3
<1>8. ASSUME NEW i \in 1 .. n, NEW k \in Nat, FoundAt(t, m, cs, i, k)
      PROVE  FoundAt(r, m, cs, i, k)
  <2> DEFINE u == cs[i].sum1
  <2>1. u \in Nat /\ \A j \in 0 .. k : j \in Nat
    BY <1>1
  <2>2. /\ Probe(t, m, u, k) = [sum1 |-> u, idx |-> i]
        /\ \A j \in 0 .. k : Probe(t, m, u, j).idx # 0
    BY <1>8 DEF FoundAt
  <2> HIDE DEF u
  <2>3. \A j \in 0 .. k : Probe(r, m, u, j) = Probe(t, m, u, j)
    BY <1>6, <2>1, <2>2
  <2>4. k \in 0 .. k
    OBVIOUS
  <2> QED BY <2>2, <2>3, <2>4 DEF FoundAt, u
<1>9. FoundAt(r, m, cs, b, k0)
  <2>1. Probe(r, m, v, k0) = e
    BY <1>1, <1>3, <1>6
  <2>2. ASSUME NEW j \in 0 .. k0
        PROVE  Probe(r, m, v, j).idx # 0
    <3>1. CASE j = k0
      BY <1>1, <2>1, <3>1
    <3>2. CASE j # k0
      <4>1. j \in 0 .. k0 - 1 /\ j \in Nat
        BY <1>1, <3>2
      <4>2. Probe(t, m, v, j).idx # 0
        BY <1>2, <4>1
      <4> QED BY <1>1, <1>6, <4>1, <4>2
    <3> QED BY <3>1, <3>2
  <2> QED BY <1>3, <2>1, <2>2 DEF FoundAt, e
<1>10. AllFound(r, m, cs, b)
  <2> SUFFICES ASSUME NEW i \in 1 .. b
               PROVE  \E k \in 0 .. m - 1 : FoundAt(r, m, cs, i, k)
    BY DEF AllFound
  <2>1. CASE i = b
    BY <1>9, <2>1
  <2>2. CASE i # b
    <3>1. i \in 1 .. n
      BY <1>1, <2>2
    <3>2. PICK k \in 0 .. m - 1 : FoundAt(t, m, cs, i, k)
      BY <3>1 DEF Chained, AllFound
    <3> QED BY <1>8, <3>1, <3>2
  <2> QED BY <2>1, <2>2
<1>11. InOrder(r, m, cs, b)
  <2> SUFFICES ASSUME NEW i \in 1 .. b, NEW j \in 1 .. b,
                      NEW k \in 0 .. m - 1, NEW l \in 0 .. m - 1,
                      i < j, cs[i].sum1 = cs[j].sum1,
                      Probe(r, m, cs[i].sum1, k).idx = i,
                      Probe(r, m, cs[j].sum1, l).idx = j
               PROVE  k < l
    BY DEF InOrder
  <2> DEFINE u == cs[i].sum1
  <2>1. /\ u \in Nat /\ k \in Nat /\ l \in Nat /\ u = cs[i].sum1 /\ u = cs[j].sum1
        /\ Probe(r, m, u, k).idx = i /\ Probe(r, m, u, l).idx = j
    BY <1>1
  <2>2. i \in 1 .. n /\ i # b
    BY <1>1
  <2> HIDE DEF u
  <2>3. Probe(t, m, u, k).idx = i
    <3>1. Position(m, u, k) # h0
      BY ONLY <1>1, <1>6, <2>1, <2>2
    <3> QED BY <1>6, <2>1, <3>1
  <2>4. CASE j # b
    <3>1. j \in 1 .. n
      BY <1>1, <2>4
    <3>2. Position(m, u, l) # h0
      BY ONLY <1>1, <1>6, <2>1, <2>4
    <3>3. Probe(t, m, u, l).idx = j
      BY <1>6, <2>1, <3>2
    <3> QED BY <2>1, <2>2, <2>3, <3>1, <3>3 DEF Chained, InOrder
  <2>5. CASE j = b
    <3>1. u = v /\ h0 = Position(m, u, k0)
      BY <1>3, <2>1, <2>5
    <3>2. Position(m, u, l) = h0
      <4> SUFFICES ASSUME Position(m, u, l) # h0 PROVE FALSE
        OBVIOUS
      <4>1. Probe(r, m, u, l) = Probe(t, m, u, l) /\ Position(m, u, l) \in 0 .. m - 1
        BY <1>6, <2>1
      <4>2. Probe(t, m, u, l).idx = b
        BY <2>1, <2>5, <4>1
      <4> QED BY <1>1, <4>1, <4>2 DEF Probe, Chained, EntriesTrue
    <3>3. l = k0
      <4>1. Position(m, u, l) = Position(m, u, k0)
        BY <3>1, <3>2
      <4> QED BY <2>1, <4>1, ChainPositions
    <3>4. PICK p \in 0 .. m - 1 :
            /\ FoundAt(t, m, cs, i, p)
            /\ \A q \in 0 .. m - 1 : Probe(t, m, cs[i].sum1, q).idx = i => q = p
      BY <2>1, <2>2, OnePlace
    <3>5. k = p
      BY <2>1, <2>3, <3>4
    <3>6. \A q \in 0 .. k : Probe(t, m, v, q).idx # 0
      BY <2>1, <3>1, <3>4, <3>5 DEF FoundAt
    <3>7. ~ (k0 <= k)
      <4>1. k0 <= k => k0 \in 0 .. k
        BY <1>1, <2>1
      <4> QED BY <1>2, <3>6, <4>1
    <3> QED BY <1>1, <2>1, <3>3, <3>7
  <2> QED BY <2>4, <2>5
<1>12. Chained(r, m, cs, b)
  BY <1>7, <1>10, <1>11 DEF Chained
<1> QED BY <1>12 DEF r, e, h0, v, b

\* A table has a slot that no block of the signature needs.
LEMMA TableHasRoom ==
  ASSUME NEW f \in Bases, Signature(f) # << >>
  PROVE  Len(Signature(f)) < TableCap(NumBlocks(f))
<1>1. f \in Seq(Byte) /\ NumBlocks(f) \in Nat /\ Len(Signature(f)) = NumBlocks(f)
  BY BasesAssumption, SignatureEntries, RoundedDivision, BlockSizeAssumption, LenProperties
     DEF NumBlocks
<1>2. NumBlocks(f) > 0
  <2>1. Signature(f) \in Seq(BlockSums)
    BY <1>1, SignatureType
  <2> QED BY <1>1, <2>1, EmptySeq
<1> DEFINE n == 2 * NumBlocks(f)
           S == {t \in TableSizes : t >= n /\ t >= MinTable}
<1>3. S # {} /\ S \subseteq Nat
  BY BoundsAssumption
<1>4. \E m \in S : \A t \in S : m <= t
  <2> HIDE DEF S
  <2> QED BY <1>3, LeastElement
<1>5. RoundUp(n) \in TableSizes /\ RoundUp(n) >= n
  <2>1. \E m \in TableSizes : /\ m >= n /\ m >= MinTable
                              /\ \A t \in TableSizes : t >= n /\ t >= MinTable => m <= t
    BY <1>4
  <2> HIDE DEF n
  <2> QED BY <2>1 DEF RoundUp
<1>6. RoundUp(n) \in Nat /\ MinTable \in Nat
  BY <1>5, BoundsAssumption
<1> DEFINE cap == RoundUp(n)
<1>7. cap \in Nat /\ cap >= 2 * NumBlocks(f)
  BY <1>5, <1>6
<1>8. TableCap(NumBlocks(f)) = IF cap = MinTable /\ NumBlocks(f) > Crowded
                              THEN 2 * MinTable ELSE cap
  BY DEF TableCap
<1> HIDE DEF cap
<1> QED BY <1>1, <1>2, <1>6, <1>7, <1>8

\* A chain is never longer than the blocks in the table.
LEMMA ReachedWithin ==
  ASSUME NEW m \in Nat \ {0}, NEW t, NEW cs, NEW n \in Nat, n < m,
         EntriesTrue(t, m, cs, n), NEW v \in Nat, NEW k \in Nat,
         \A j \in 0 .. k : Probe(t, m, v, j).idx # 0
  PROVE  k < n
<1> SUFFICES ASSUME n <= k PROVE FALSE
  OBVIOUS
<1> DEFINE f == [j \in 0 .. n |-> Probe(t, m, v, j).idx]
<1>1. ASSUME NEW j \in 0 .. n
      PROVE  /\ Position(m, v, j) \in 0 .. m - 1
             /\ t[Position(m, v, j)].idx \in 1 .. n
             /\ f[j] = t[Position(m, v, j)].idx
  <2>1. j \in Nat /\ j \in 0 .. k
    OBVIOUS
  <2>2. Position(m, v, j) \in 0 .. m - 1
    BY <2>1, ChainPositions
  <2> QED BY <2>1, <2>2 DEF Probe, EntriesTrue
<1>2. f \in [0 .. n -> 1 .. n]
  BY <1>1
<1>3. /\ IsFiniteSet(0 .. n) /\ Cardinality(0 .. n) = n + 1
      /\ IsFiniteSet(1 .. n) /\ Cardinality(1 .. n) = n
  BY FS_Interval
<1> HIDE DEF f
<1>4. PICK x \in 0 .. n, y \in 0 .. n : x # y /\ f[x] = f[y]
  <2> DEFINE S == 0 .. n
             T == 1 .. n
  <2>1. /\ IsFiniteSet(S) /\ IsFiniteSet(T) /\ Cardinality(T) < Cardinality(S)
        /\ f \in [S -> T]
    BY <1>2, <1>3
  <2> HIDE DEF S, T
  <2>2. \E x, y \in S : x # y /\ f[x] = f[y]
    BY <2>1, FS_PigeonHole
  <2> QED BY <2>2 DEF S
<1>5. Position(m, v, x) = Position(m, v, y)
  <2>1. /\ t[Position(m, v, x)].idx = t[Position(m, v, y)].idx
        /\ t[Position(m, v, y)].idx # 0
    BY <1>1, <1>4
  <2> QED BY <1>1, <2>1 DEF EntriesTrue
<1>6. x \in 0 .. m - 1 /\ y \in 0 .. m - 1
  OBVIOUS
<1> QED BY <1>4, <1>5, <1>6, ChainPositions

-----------------------------------------------------------------------------
(* The table of the engine *)

\* The signature is loaded, it fills less than the whole table, and its
\* blocks inserted so far are chained.
ChainInv ==
  /\ checksums = Signature(basis) /\ inserted \in Nat
  /\ checksums # << >> =>
       /\ Len(checksums) < tableSize
       /\ inserted <= Len(checksums)
       /\ pc # "build" => inserted = Len(checksums)
       /\ Chained(hashTable, tableSize, checksums, inserted)

LEMMA SlotIsProbe ==
  ASSUME NEW v, NEW k
  PROVE  Slot(v, k) = Probe(hashTable, tableSize, v, k)
BY DEF Slot, Home, Probe, Position

LEMMA ChecksumTypes ==
  ASSUME TableType
  PROVE  /\ Len(checksums) \in Nat
         /\ \A i \in 1 .. Len(checksums) : checksums[i].sum1 \in Nat
<1>1. ASSUME NEW i \in 1 .. Len(checksums)
      PROVE  checksums[i].sum1 \in Nat
  <2>1. checksums[i] \in BlockSums
    BY ElementOfSeq DEF TableType
  <2> QED BY <2>1 DEF BlockSums
<1>2. Len(checksums) \in Nat
  BY LenProperties DEF TableType
<1> QED BY <1>1, <1>2

LEMMA NoSignature == Signature(<< >>) = << >>
<1>1. << >> \in Seq(Byte) /\ Len(<< >>) = 0
  BY EmptySeq
<1>2. NumBlocks(<< >>) = 0
  BY <1>1, BlockSizeAssumption DEF NumBlocks
<1>3. Len(Signature(<< >>)) = 0 /\ Signature(<< >>) \in Seq(BlockSums)
  BY <1>1, <1>2, SignatureEntries, SignatureType
<1> QED BY <1>3, EmptySeq

LEMMA InitChains ==
  ASSUME Init
  PROVE  ChainInv
BY NoSignature DEF Init, ChainInv

LEMMA LoadChains ==
  ASSUME NEW f \in Bases, LoadSignature(f)
  PROVE  ChainInv'
<1>1. /\ basis' = f /\ checksums' = Signature(f) /\ inserted' = 0 /\ pc' = "build"
      /\ tableSize' = TableCap(NumBlocks(f))
      /\ hashTable' = [h \in 0 .. tableSize' - 1 |-> Empty]
  BY DEF LoadSignature, FreshTable
<1>2. f \in Seq(Byte) /\ Len(Signature(f)) \in Nat
  BY BasesAssumption, SignatureType, LenProperties
<1>3. Chained(hashTable', tableSize', checksums', inserted')
  BY <1>1 DEF Chained, EntriesTrue, AllFound, InOrder, Empty
<1>4. checksums' # << >> => Len(checksums') < tableSize'
  BY <1>1, TableHasRoom
<1>5. /\ checksums' = Signature(basis') /\ inserted' \in Nat /\ inserted' <= Len(checksums')
      /\ pc' = "build"
  BY <1>1, <1>2
<1> QED BY <1>3, <1>4, <1>5 DEF ChainInv

LEMMA InsertBlockChains ==
  ASSUME IInv, ChainInv, InsertBlock
  PROVE  ChainInv'
<1> DEFINE v == checksums[inserted + 1].sum1
<1>1. /\ TableType /\ inserted \in Nat /\ Len(checksums) \in Nat
      /\ inserted + 1 \in 1 .. Len(checksums)
      /\ \A i \in 1 .. Len(checksums) : checksums[i].sum1 \in Nat
  <2>1. TableType /\ inserted \in Nat /\ inserted < Len(checksums)
    BY DEF IInv, TypeOK, TableType, InsertBlock
  <2> QED BY <2>1, ChecksumTypes
<1>2. PICK k0 \in 0 .. tableSize - 1 :
        /\ FirstEmpty(v, k0)
        /\ hashTable' = [hashTable EXCEPT ![Position(tableSize, v, k0)] =
                           [sum1 |-> v, idx |-> inserted + 1]]
  BY DEF InsertBlock, Home, Position
<1>3. /\ Probe(hashTable, tableSize, v, k0).idx = 0
      /\ \A j \in 0 .. k0 - 1 : Probe(hashTable, tableSize, v, j).idx # 0
  BY <1>2, SlotIsProbe DEF FirstEmpty
<1>0. checksums # << >>
  BY <1>1, EmptySeq
<1>4. /\ checksums # << >> /\ Len(checksums) < tableSize
      /\ checksums = Signature(basis)
      /\ Chained(hashTable, tableSize, checksums, inserted)
      /\ tableSize \in Nat \ {0} /\ hashTable \in Tables(tableSize)
      /\ \A i \in 1 .. inserted + 1 : checksums[i].sum1 \in Nat
  <2>1. tableSize \in Nat \ {0} /\ hashTable \in Tables(tableSize)
    BY <1>1 DEF TableType, Tables
  <2>2. \A i \in 1 .. inserted + 1 : checksums[i].sum1 \in Nat
    BY <1>1
  <2> QED BY <1>0, <2>1, <2>2 DEF ChainInv
<1>5. Chained(hashTable', tableSize, checksums, inserted + 1)
  <2> DEFINE m == tableSize
             t == hashTable
             cs == checksums
             n == inserted
  <2>1. /\ m \in Nat \ {0} /\ t \in Tables(m) /\ n \in Nat /\ Chained(t, m, cs, n)
        /\ \A i \in 1 .. n + 1 : cs[i].sum1 \in Nat
        /\ k0 \in 0 .. m - 1
        /\ Probe(t, m, cs[n + 1].sum1, k0).idx = 0
        /\ \A j \in 0 .. k0 - 1 : Probe(t, m, cs[n + 1].sum1, j).idx # 0
    BY <1>1, <1>3, <1>4
  <2>2. hashTable' = [t EXCEPT ![Position(m, cs[n + 1].sum1, k0)] =
                    [sum1 |-> cs[n + 1].sum1, idx |-> n + 1]]
    BY <1>2
  <2> HIDE DEF m, t, cs, n
  <2>3. Chained(hashTable', m, cs, n + 1)
    BY <2>1, <2>2, InsertionChained
  <2> QED BY <2>3 DEF m, cs, n
<1>6. /\ checksums' = checksums /\ basis' = basis /\ tableSize' = tableSize
      /\ inserted' = inserted + 1 /\ pc' = "build"
  BY DEF InsertBlock
<1> QED BY <1>1, <1>4, <1>5, <1>6 DEF ChainInv

\* No other step touches the table.
LEMMA ChainsKept ==
  ASSUME ChainInv, UNCHANGED engineVars,
         pc' = "build" => pc = "build",
         pc = "build" /\ pc' # "build" => inserted = Len(checksums)
  PROVE  ChainInv'
BY DEF ChainInv, engineVars

LEMMA NextChains ==
  ASSUME IInv, ChainInv, [Next]_vars
  PROVE  ChainInv'
<1>1. ASSUME NEW f \in Bases, LoadSignature(f) PROVE ChainInv'
  BY <1>1, LoadChains
<1>2. CASE LoadNil
  BY <1>2, NoSignature DEF LoadNil, NilChecksums, ChainInv
<1>3. CASE InsertBlock
  BY <1>3, InsertBlockChains
<1>4. CASE Built
  BY <1>4, ChainsKept DEF Built
<1>5. ASSUME NEW d \in Inputs, Search(d) PROVE ChainInv'
  BY <1>5, ChainsKept DEF Search, AtRest
<1>6. CASE SearchProgress
  <2>1. UNCHANGED engineVars /\ pc # "build" /\ pc' # "build"
    BY <1>6 DEF SearchProgress, SearchLiterals, SearchBegin, ScanMatch, ScanMiss, ScanEnd,
                TailMatch, TailLiterals
  <2> QED BY <2>1, ChainsKept
<1>7. CASE UNCHANGED vars
  BY <1>7, ChainsKept DEF vars
<1>8. CASE Rest
  BY <1>7, <1>8 DEF Rest
<1> QED BY <1>1, <1>2, <1>3, <1>4, <1>5, <1>6, <1>7, <1>8 DEF Next, Progress

LEMMA ChainsUnbroken ==
  ASSUME ChainInv
  PROVE  ProbeChainsUnbroken
<1>1. ASSUME checksums # << >>, NEW i \in 1 .. inserted
      PROVE  \E k \in 0 .. tableSize - 1 :
               /\ Slot(checksums[i].sum1, k) = [sum1 |-> checksums[i].sum1, idx |-> i]
               /\ Reached(checksums[i].sum1, k)
  <2>1. PICK k \in 0 .. tableSize - 1 : FoundAt(hashTable, tableSize, checksums, i, k)
    BY <1>1 DEF ChainInv, Chained, AllFound
  <2> QED BY <2>1, SlotIsProbe DEF FoundAt, Reached
<1> QED BY <1>1 DEF ProbeChainsUnbroken

-----------------------------------------------------------------------------
(* What a probe finds *)

\* A signature is loaded and the table built.
Loaded ==
  /\ TableType /\ ChainInv /\ basis \in Seq(Byte)
  /\ checksums # << >> /\ pc # "build"

LEMMA LoadedFacts ==
  ASSUME Loaded
  PROVE  /\ checksums = Signature(basis) /\ Len(checksums) = NumBlocks(basis)
         /\ Len(checksums) \in Nat /\ inserted = Len(checksums)
         /\ Len(checksums) < tableSize /\ tableSize \in Nat \ {0}
         /\ Chained(hashTable, tableSize, checksums, Len(checksums))
         /\ \A i \in 0 .. NumBlocks(basis) - 1 :
               /\ checksums[i + 1] = BlockSum(basis, i)
               /\ checksums[i + 1].sum1 \in Nat
<1>1. /\ checksums = Signature(basis) /\ inserted = Len(checksums)
      /\ Len(checksums) < tableSize /\ TableType /\ basis \in Seq(Byte)
      /\ Chained(hashTable, tableSize, checksums, Len(checksums))
  BY DEF Loaded, ChainInv
<1>2. Len(checksums) \in Nat /\ \A i \in 1 .. Len(checksums) : checksums[i].sum1 \in Nat
  BY <1>1, ChecksumTypes
<1>3. /\ Len(checksums) = NumBlocks(basis)
      /\ \A k \in 1 .. NumBlocks(basis) : checksums[k] = BlockSum(basis, k - 1)
  BY <1>1, SignatureEntries
<1>4. ASSUME NEW i \in 0 .. NumBlocks(basis) - 1
      PROVE  checksums[i + 1] = BlockSum(basis, i) /\ checksums[i + 1].sum1 \in Nat
  <2>1. i + 1 \in 1 .. NumBlocks(basis) /\ (i + 1) - 1 = i
    BY <1>2, <1>3
  <2>2. checksums[i + 1] = BlockSum(basis, (i + 1) - 1)
    BY <1>3, <2>1
  <2>3. checksums[i + 1] = BlockSum(basis, i)
    BY <2>1, <2>2
  <2> QED BY <1>2, <1>3, <2>1, <2>3
<1>5. tableSize \in Nat \ {0}
  BY <1>1 DEF TableType
<1> QED BY <1>1, <1>2, <1>3, <1>4, <1>5

\* A slot compared holds a block with the weak checksum looked for, which a
\* probe for that checksum of course leads to.
LEMMA ComparedBlock ==
  ASSUME Loaded, NEW v \in Nat, NEW k \in Compared(v)
  PROVE  /\ k \in 0 .. tableSize - 1 /\ k \in Nat
         /\ Slot(v, k).idx \in 1 .. Len(checksums)
         /\ checksums[Slot(v, k).idx].sum1 = v
         /\ Slot(v, k).idx - 1 \in KnownBlocks
<1> DEFINE j == Slot(v, k).idx
           i == j - 1
<1>1. k \in Nat /\ Reached(v, k) /\ Slot(v, k).sum1 = v
  BY BoundsAssumption DEF Compared
<1>2. \A p \in 0 .. k : Probe(hashTable, tableSize, v, p).idx # 0
  BY <1>1, SlotIsProbe DEF Reached
<1>3. /\ tableSize \in Nat \ {0} /\ Len(checksums) \in Nat /\ Len(checksums) < tableSize
      /\ EntriesTrue(hashTable, tableSize, checksums, Len(checksums))
  BY LoadedFacts DEF Chained
<1>4. k < Len(checksums)
  <2> DEFINE m == tableSize
             n == Len(checksums)
  <2>1. /\ m \in Nat \ {0} /\ n \in Nat /\ n < m
        /\ EntriesTrue(hashTable, m, checksums, n)
        /\ \A p \in 0 .. k : Probe(hashTable, m, v, p).idx # 0
    BY <1>2, <1>3
  <2> HIDE DEF m, n
  <2>2. k < n
    BY <1>1, <2>1, ReachedWithin
  <2> QED BY <2>2 DEF n
<1>5. Position(tableSize, v, k) \in 0 .. tableSize - 1
      /\ Slot(v, k) = hashTable[Position(tableSize, v, k)]
  BY <1>1, <1>3, ChainPositions, SlotIsProbe DEF Probe
<1>6. j # 0
  BY <1>1 DEF Reached
<1>7. j \in 1 .. Len(checksums) /\ checksums[j].sum1 = v
  BY <1>1, <1>3, <1>5, <1>6 DEF EntriesTrue
<1> HIDE DEF j
<1>8. i \in 0 .. Len(checksums) - 1 /\ i + 1 = j
  BY <1>3, <1>7
<1>9. i \in KnownBlocks
  <2>1. \E q \in Compared(checksums[i + 1].sum1) :
           Slot(checksums[i + 1].sum1, q).idx = i + 1
    BY <1>7, <1>8 DEF j
  <2> QED BY <1>8, <2>1 DEF KnownBlocks
<1>10. k \in 0 .. tableSize - 1
  BY <1>1, <1>3, <1>4
<1> QED BY <1>1, <1>7, <1>9, <1>10 DEF j

\* The strong checksum of an entry is that of a window exactly if the window
\* is the block, and then so is the weak one.
LEMMA EntryOfBlock ==
  ASSUME Loaded, NEW i \in 0 .. NumBlocks(basis) - 1,
         NEW w \in Seq(Byte), Len(w) <= BlockSize
  PROVE  /\ checksums[i + 1].sum2 = Strong(w) <=> Block(basis, i) = w
         /\ Block(basis, i) = w => checksums[i + 1].sum1 = Checksum1(w)
<1>1. checksums[i + 1] = BlockSum(basis, i) /\ basis \in Seq(Byte)
  BY LoadedFacts DEF Loaded
<1>2. Block(basis, i) \in BlockStrings /\ w \in BlockStrings
  BY <1>1, BlockType, ShortStrings
<1> QED BY <1>1, <1>2, StrongAssumption DEF BlockSum

LEMMA KnownAreBlocks ==
  ASSUME Loaded
  PROVE  KnownBlocks \subseteq 0 .. NumBlocks(basis) - 1
BY LoadedFacts DEF KnownBlocks

\* A window agrees with the entry at a slot compared exactly if the block of
\* that entry is a candidate.
LEMMA AgreesIsCandidate ==
  ASSUME Loaded, NEW w \in Seq(Byte), Len(w) <= BlockSize,
         NEW v \in Nat, NEW k \in Compared(v)
  PROVE  Agrees(v, w, k) <=> Slot(v, k).idx - 1 \in Candidates(basis, KnownBlocks, w)
<1> DEFINE i == Slot(v, k).idx - 1
<1>1. Slot(v, k).idx \in 1 .. Len(checksums) /\ i \in KnownBlocks
  BY ComparedBlock
<1>2. i \in 0 .. NumBlocks(basis) - 1 /\ i + 1 = Slot(v, k).idx
  BY <1>1, LoadedFacts
<1> HIDE DEF i
<1>3. checksums[i + 1].sum2 = Strong(w) <=> Block(basis, i) = w
  BY <1>2, EntryOfBlock
<1>4. Agrees(v, w, k) <=> i \in Candidates(basis, KnownBlocks, w)
  BY <1>1, <1>2, <1>3 DEF Agrees, Candidates
<1> QED BY <1>4 DEF i

\* Every candidate is at a slot that is compared.
LEMMA CandidateIsCompared ==
  ASSUME Loaded, NEW w \in Seq(Byte), Len(w) <= BlockSize,
         NEW i \in Candidates(basis, KnownBlocks, w)
  PROVE  \E k \in Compared(Checksum1(w)) : Slot(Checksum1(w), k).idx = i + 1
<1>1. i \in KnownBlocks /\ Block(basis, i) = w /\ i \in 0 .. NumBlocks(basis) - 1
  BY KnownAreBlocks DEF Candidates
<1>2. checksums[i + 1].sum1 = Checksum1(w)
  BY <1>1, EntryOfBlock
<1> QED BY <1>1, <1>2 DEF KnownBlocks

\* The first agreeing slot holds the least candidate.
LEMMA FirstIsLeast ==
  ASSUME Loaded, NEW w \in Seq(Byte), Len(w) <= BlockSize, Checksum1(w) \in Nat,
         NEW k \in Compared(Checksum1(w)), Agrees(Checksum1(w), w, k),
         \A j \in Compared(Checksum1(w)) : j < k => ~ Agrees(Checksum1(w), w, j)
  PROVE  Slot(Checksum1(w), k).idx - 1 = Min(Candidates(basis, KnownBlocks, w))
<1> DEFINE v == Checksum1(w)
           C == Candidates(basis, KnownBlocks, w)
           i == Slot(v, k).idx - 1
<1>1. C \subseteq Nat
  BY KnownAreBlocks DEF Candidates
<1>2. i \in C
  BY AgreesIsCandidate
<1>3. ASSUME NEW y \in C
      PROVE  i <= y
  <2>1. PICK l \in Compared(v) : Slot(v, l).idx = y + 1
    BY CandidateIsCompared
  <2>2. y \in Nat /\ i \in Nat /\ (y + 1) - 1 = y /\ Slot(v, k).idx = i + 1
    <3>1. Slot(v, k).idx \in 1 .. Len(checksums) /\ Len(checksums) \in Nat
      BY ComparedBlock, LoadedFacts
    <3> HIDE DEF C, v
    <3> QED BY <1>1, <1>2, <3>1
  <2>3. Agrees(v, w, l)
    <3>1. Slot(v, l).idx - 1 \in C
      BY <2>1, <2>2
    <3> QED BY <3>1, AgreesIsCandidate
  <2>4. /\ k \in 0 .. tableSize - 1 /\ l \in 0 .. tableSize - 1 /\ k \in Nat /\ l \in Nat
        /\ y + 1 \in 1 .. Len(checksums) /\ i + 1 \in 1 .. Len(checksums)
        /\ checksums[y + 1].sum1 = v /\ checksums[i + 1].sum1 = v
    BY <2>1, <2>2, ComparedBlock
  <2>5. ~ (l < k)
    BY <2>3
  <2> SUFFICES ASSUME y < i PROVE FALSE
    BY <2>2
  <2>6. InOrder(hashTable, tableSize, checksums, Len(checksums))
    BY LoadedFacts DEF Chained
  <2>7. /\ Probe(hashTable, tableSize, v, k).idx = i + 1
        /\ Probe(hashTable, tableSize, v, l).idx = y + 1
    BY <2>1, <2>2, SlotIsProbe
  <2> DEFINE a == y + 1
             b == i + 1
  <2>8. a < b /\ a \in 1 .. Len(checksums) /\ b \in 1 .. Len(checksums)
        /\ checksums[a].sum1 = v /\ checksums[b].sum1 = v
        /\ Probe(hashTable, tableSize, v, k).idx = b
        /\ Probe(hashTable, tableSize, v, l).idx = a
    BY <2>2, <2>4, <2>7
  <2> HIDE DEF a, b, v, i
  <2>9. l < k
    BY <2>4, <2>6, <2>8 DEF InOrder
  <2> QED BY <2>5, <2>9
<1> HIDE DEF C, i
<1>4. \A x \in C : (\A y \in C : x <= y) => x = i
  BY <1>1, <1>2, <1>3
<1>5. Min(C) = i
  BY <1>2, <1>3, <1>4 DEF Min
<1> QED BY <1>5 DEF C, i

\* What ScanMatch refers to is what the result function chooses.
LEMMA PreferredIsChosen ==
  ASSUME Loaded, NEW w \in Seq(Byte), Len(w) <= BlockSize, Checksum1(w) \in Nat,
         NEW k \in Compared(Checksum1(w)), Agrees(Checksum1(w), w, k),
         \A j \in Compared(Checksum1(w)) : j < k => ~ Agrees(Checksum1(w), w, j)
  PROVE  /\ Candidates(basis, KnownBlocks, w) # {}
         /\ Preferred(Checksum1(w), w, k) = Chosen(basis, KnownBlocks, w, wantIdx)
         /\ Preferred(Checksum1(w), w, k) \in 0 .. NumBlocks(basis) - 1
         /\ Block(basis, Preferred(Checksum1(w), w, k)) = w
<1> DEFINE v == Checksum1(w)
           i == Slot(v, k).idx - 1
<1>1. /\ i \in Candidates(basis, KnownBlocks, w)
      /\ i = Min(Candidates(basis, KnownBlocks, w))
  BY AgreesIsCandidate, FirstIsLeast
<1>2. /\ wantIdx \in Nat /\ Len(checksums) = NumBlocks(basis) /\ NumBlocks(basis) \in Nat
  BY LoadedFacts DEF Loaded, TableType
<1>3. i \in 0 .. NumBlocks(basis) - 1 /\ Block(basis, i) = w
  BY <1>1, KnownAreBlocks DEF Candidates
<1> HIDE DEF i
<1>4. (wantIdx < Len(checksums) /\ checksums[wantIdx + 1].sum1 = v
         /\ checksums[wantIdx + 1].sum2 = Strong(w))
       <=> (wantIdx < NumBlocks(basis) /\ Block(basis, wantIdx) = w)
  <2>1. CASE wantIdx < NumBlocks(basis)
    <3>1. wantIdx \in 0 .. NumBlocks(basis) - 1
      BY <1>2, <2>1
    <3> QED BY <1>2, <2>1, <3>1, EntryOfBlock
  <2>2. CASE ~ (wantIdx < NumBlocks(basis))
    BY <1>2, <2>2
  <2> QED BY <2>1, <2>2
<1>5. CASE wantIdx < NumBlocks(basis) /\ Block(basis, wantIdx) = w
  <2>1. Preferred(v, w, k) = wantIdx
    BY <1>4, <1>5 DEF Preferred
  <2>2. Chosen(basis, KnownBlocks, w, wantIdx) = wantIdx
    BY <1>5 DEF Chosen
  <2>3. wantIdx \in 0 .. NumBlocks(basis) - 1
    BY <1>2, <1>5
  <2> QED BY <1>1, <1>5, <2>1, <2>2, <2>3
<1>6. CASE ~ (wantIdx < NumBlocks(basis) /\ Block(basis, wantIdx) = w)
  <2>1. Preferred(v, w, k) = i
    BY <1>4, <1>6 DEF Preferred, i
  <2>2. Chosen(basis, KnownBlocks, w, wantIdx) = i
    BY <1>1, <1>6 DEF Chosen
  <2> QED BY <1>1, <1>3, <2>1, <2>2
<1> QED BY <1>5, <1>6

\* When no slot compared agrees, no block known is the window.
LEMMA MissMeansNone ==
  ASSUME Loaded, NEW w \in Seq(Byte), Len(w) <= BlockSize, Checksum1(w) \in Nat,
         \A k \in Compared(Checksum1(w)) : ~ Agrees(Checksum1(w), w, k)
  PROVE  Candidates(basis, KnownBlocks, w) = {}
<1> SUFFICES ASSUME NEW i \in Candidates(basis, KnownBlocks, w) PROVE FALSE
  OBVIOUS
<1>1. PICK k \in Compared(Checksum1(w)) : Slot(Checksum1(w), k).idx = i + 1
  BY CandidateIsCompared
<1>2. (i + 1) - 1 = i
  BY KnownAreBlocks, LoadedFacts DEF Candidates
<1>3. Agrees(Checksum1(w), w, k)
  BY <1>1, <1>2, AgreesIsCandidate
<1> QED BY <1>3

\* No probe is cut short that has no more than the blocks before it.
LEMMA AllKnown ==
  ASSUME Loaded, AmpleProbes
  PROVE  KnownBlocks = 0 .. NumBlocks(basis) - 1
<1> SUFFICES ASSUME NEW i \in 0 .. NumBlocks(basis) - 1
             PROVE  i \in KnownBlocks
  BY KnownAreBlocks
<1> DEFINE n == Len(checksums)
           m == tableSize
           v == checksums[i + 1].sum1
<1>1. /\ n \in Nat /\ n = NumBlocks(basis) /\ n < m /\ m \in Nat \ {0}
      /\ Chained(hashTable, m, checksums, n) /\ v \in Nat
      /\ i + 1 \in 1 .. n /\ i \in 0 .. n - 1
      /\ MaxProbe \in Nat /\ MaxChain \in Nat /\ MaxProbe > n /\ MaxChain >= n
  BY LoadedFacts, BoundsAssumption DEF AmpleProbes
<1>2. PICK k \in 0 .. m - 1 : FoundAt(hashTable, m, checksums, i + 1, k)
  BY <1>1 DEF Chained, AllFound
<1>3. /\ k \in Nat
      /\ Probe(hashTable, m, v, k) = [sum1 |-> v, idx |-> i + 1]
      /\ \A j \in 0 .. k : Probe(hashTable, m, v, j).idx # 0
  BY <1>1, <1>2 DEF FoundAt
<1> HIDE DEF n, m, v
<1>4. k < n
  BY <1>1, <1>3, ReachedWithin DEF Chained
<1>5. /\ Slot(v, k) = [sum1 |-> v, idx |-> i + 1] /\ Reached(v, k)
  BY <1>3, SlotIsProbe DEF Reached, m
<1>6. Cardinality({j \in 0 .. k : Slot(v, j).sum1 = v}) <= MaxChain
  <2> DEFINE T == {j \in 0 .. k : Slot(v, j).sum1 = v}
             S == 0 .. k
  <2>1. IsFiniteSet(S) /\ Cardinality(S) = k + 1 /\ T \in SUBSET S
    BY <1>3, FS_Interval
  <2> HIDE DEF T, S
  <2>2. Cardinality(T) <= Cardinality(S) /\ Cardinality(T) \in Nat
    BY <2>1, FS_Subset, FS_CardinalityType
  <2>3. Cardinality(T) <= MaxChain
    BY <1>1, <1>3, <1>4, <2>1, <2>2
  <2> QED BY <2>3 DEF T
<1>7. k \in Compared(v)
  <2>1. k \in 0 .. MaxProbe - 1 /\ Slot(v, k).sum1 = v
    BY <1>1, <1>3, <1>4, <1>5
  <2> QED BY <1>5, <1>6, <2>1 DEF Compared
<1>8. \E q \in Compared(checksums[i + 1].sum1) :
         Slot(checksums[i + 1].sum1, q).idx = i + 1
  BY <1>5, <1>7 DEF v
<1>9. i \in 0 .. Len(checksums) - 1
  BY <1>1 DEF n
<1> QED BY <1>8, <1>9 DEF KnownBlocks

-----------------------------------------------------------------------------
(* Search computes it *)

\* Where the scan is, what Search has to return, and what it still will emit.
Here == [o |-> offset, lm |-> lastMatch, want |-> wantIdx]
Answer == SearchResult(basis, KnownBlocks, data)
ToCome == Scanner(basis, KnownBlocks, data)[Here]

\* What has been emitted and what is to come are what Search has to return.
FoundInv ==
  /\ pc = "called" => wantIdx = 0
  /\ pc = "scan" => Here \in ScanStates(basis, data) /\ results \o ToCome = Answer
  /\ pc = "tail" => /\ offset + BlockSize > Len(data)
                    /\ results \o TailResult(basis, data, lastMatch) = Answer
  /\ ComputesSearchResult

LEMMA SliceAll ==
  ASSUME NEW S, NEW f \in Seq(S)
  PROVE  Slice(f, 0, Len(f)) = f
<1> DEFINE n == Len(f)
           p == SubSeq(f, 1, n)
<1>1. n \in Nat /\ n <= Len(f)
  BY LenProperties
<1> HIDE DEF n
<1>2. p \in Seq(S) /\ Len(p) = n /\ \A i \in 1 .. n : p[i] = f[i]
  BY <1>1, PrefixType
<1>3. Len(p) = Len(f)
  BY <1>2 DEF n
<1>4. p = f
  <2> HIDE DEF p
  <2> QED BY <1>2, <1>3, SeqEqual
<1> QED BY <1>4 DEF Slice, n

\* u before t is r before v.
Joined(u, t, r, v) == u \o t = r \o v

LEMMA AppendInside ==
  ASSUME NEW S, NEW r \in Seq(S), NEW c \in Seq(S), NEW m \in S, NEW t \in Seq(S)
  PROVE  Joined(Append(r \o c, m), t, r, Append(c, m) \o t)
<1> DEFINE one == << m >>
           cm == c \o one
           rc == r \o c
<1>1. one \in Seq(S)
  OBVIOUS
<1> HIDE DEF one
<1>2. cm \in Seq(S) /\ rc \in Seq(S)
  BY <1>1, ConcatProperties
<1>3. Append(c, m) = cm /\ Append(rc, m) = rc \o one
  <2> HIDE DEF rc
  <2> QED BY <1>2, AppendIsConcat DEF one
<1>4. rc \o one = r \o cm
  BY <1>1, ConcatAssociative, SMTT(30)
<1> HIDE DEF cm
<1>5. (r \o cm) \o t = r \o (cm \o t)
  BY <1>2, ConcatAssociative, SMTT(30)
<1>6. Append(rc, m) \o t = r \o (Append(c, m) \o t)
  BY <1>3, <1>4, <1>5
<1> QED BY <1>6 DEF Joined, rc

\* The table is that of the loaded signature while the engine searches.
LEMMA Searching ==
  ASSUME IInv, ChainInv, pc \in {"scan", "tail"}
  PROVE  /\ Loaded /\ AreBlocks(basis, KnownBlocks)
         /\ basis \in Seq(Byte) /\ data \in Seq(Byte) /\ results \in Seq(Instruction)
         /\ offset \in Nat /\ lastMatch \in Nat /\ wantIdx \in Nat
         /\ lastMatch <= offset /\ lastMatch <= Len(data) /\ Len(data) \in Nat
         /\ BlockSize \in Nat \ {0}
<1>1. Loaded
  BY DEF IInv, TypeOK, TableType, ScanInv, Loaded
<1>2. AreBlocks(basis, KnownBlocks)
  BY <1>1, KnownAreBlocks DEF AreBlocks
<1> QED BY <1>1, <1>2, BlockSizeAssumption, LenProperties DEF IInv, TypeOK, ScanInv

\* While the signature stays, so do the blocks known.
LEMMA KnownStay ==
  ASSUME UNCHANGED engineVars
  PROVE  KnownBlocks' = KnownBlocks
BY DEF engineVars, KnownBlocks, Compared, Reached, Slot, Home

LEMMA AnswerStays ==
  ASSUME UNCHANGED engineVars, UNCHANGED data
  PROVE  Answer' = Answer /\ (Scanner(basis, KnownBlocks, data))' = Scanner(basis, KnownBlocks, data)
         /\ (ScanStates(basis, data))' = ScanStates(basis, data)
<1>1. KnownBlocks' = KnownBlocks /\ basis' = basis /\ data' = data
  BY KnownStay DEF engineVars
<1> QED BY <1>1 DEF Answer

LEMMA SearchLiteralsFinds ==
  ASSUME IInv, ChainInv, SearchLiterals
  PROVE  FoundInv'
<1>1. /\ results = << >> /\ pc' = "returned" /\ UNCHANGED engineVars /\ UNCHANGED data
      /\ data \in Seq(Byte) /\ basis \in Seq(Byte)
      /\ results' = results \o Chunks(Slice(data, 0, Len(data)), 0)
      /\ checksums = << >> \/ Len(data) < BlockSize
  BY DEF SearchLiterals, EmitLiterals, IInv, ScanInv, TypeOK
<1> DEFINE cs == Chunks(data, 0)
<1>2. Slice(data, 0, Len(data)) = data
  BY <1>1, SliceAll
<1>3. cs \in Seq(Instruction)
  <2> DEFINE n == Len(data)
             ds == Chunks(Slice(data, 0, n), 0)
  <2>1. n \in Nat /\ 0 \in Nat /\ 0 <= n /\ n <= Len(data)
    BY <1>1, LenProperties
  <2>2. ds = cs
    BY <1>2
  <2> HIDE DEF n, cs
  <2>3. ds \in Seq(Instruction) /\ Covers(basis, data, ds, 0, n)
    BY <1>1, <2>1, ChunksCover
  <2> QED BY <2>2, <2>3
<1>4. results' = cs
  <2> HIDE DEF cs
  <2>1. results' = << >> \o cs
    BY <1>1, <1>2 DEF cs
  <2> QED BY <1>3, <2>1, ConcatEmptySeq
<1>5. NumBlocks(basis) = 0 \/ Len(data) < BlockSize
  <2>1. checksums = Signature(basis) /\ Len(Signature(basis)) = NumBlocks(basis)
    BY <1>1, SignatureEntries DEF ChainInv
  <2>2. Len(<< >>) = 0
    BY EmptySeq
  <2> QED BY <1>1, <2>1, <2>2
<1>6. Answer = cs
  BY <1>5, Zenon DEF Answer, SearchResult
<1>7. Answer' = Answer
  BY <1>1, AnswerStays
<1> HIDE DEF cs
<1>8. ComputesSearchResult'
  BY <1>4, <1>6, <1>7 DEF ComputesSearchResult, Answer
<1> QED BY <1>1, <1>8 DEF FoundInv

LEMMA SearchBeginFinds ==
  ASSUME IInv, ChainInv, FoundInv, SearchBegin
  PROVE  FoundInv'
<1>1. /\ pc = "called" /\ results = << >> /\ pc' = "scan" /\ UNCHANGED engineVars
      /\ UNCHANGED << data, offset, lastMatch, wantIdx, results >>
      /\ offset = 0 /\ lastMatch = 0 /\ wantIdx = 0
      /\ data \in Seq(Byte) /\ basis \in Seq(Byte)
      /\ checksums # << >> /\ Len(data) >= BlockSize
  BY DEF SearchBegin, IInv, ScanInv, TypeOK, FoundInv
<1> DEFINE s == [o |-> 0, lm |-> 0, want |-> 0]
<1>2. Len(data) \in Nat /\ BlockSize \in Nat \ {0} /\ NumBlocks(basis) \in Nat
      /\ ~ (Len(data) < BlockSize)
  BY <1>1, LenProperties, BlockSizeAssumption, RoundedDivision DEF NumBlocks
<1>3. NumBlocks(basis) # 0
  <2>1. checksums = Signature(basis) /\ Len(Signature(basis)) = NumBlocks(basis)
    BY <1>1, SignatureEntries DEF ChainInv
  <2>2. Signature(basis) \in Seq(BlockSums)
    BY <1>1, SignatureType
  <2> QED BY <1>1, <2>1, <2>2, EmptySeq
<1>4. s \in ScanStates(basis, data) /\ Here = s /\ Here' = s /\ s.lm <= s.o
  BY <1>1, <1>2 DEF ScanStates, Here
<1>5. Answer = Scanner(basis, KnownBlocks, data)[s]
  <2> DEFINE g == Scanner(basis, KnownBlocks, data)
  <2>1. SearchResult(basis, KnownBlocks, data) = g[s]
    BY <1>2, <1>3, Zenon DEF SearchResult, Scanner
  <2> QED BY <2>1 DEF Answer
<1>6. AreBlocks(basis, KnownBlocks)
  <2>1. Loaded
    BY <1>1 DEF Loaded, IInv, TypeOK, TableType
  <2> QED BY <2>1, KnownAreBlocks DEF AreBlocks
<1>7. Scanner(basis, KnownBlocks, data)[s] \in Seq(Instruction)
  BY <1>1, <1>4, <1>6, ScannerType, NumBlocksType
<1>8. /\ Answer' = Answer
      /\ (Scanner(basis, KnownBlocks, data))' = Scanner(basis, KnownBlocks, data)
      /\ (ScanStates(basis, data))' = ScanStates(basis, data)
  BY <1>1, AnswerStays
<1>9. ToCome' = Answer'
  BY <1>4, <1>5, <1>8 DEF ToCome
<1>10. results' \o ToCome' = Answer'
  <2> DEFINE r == Scanner(basis, KnownBlocks, data)[s]
  <2>1. results' = << >> /\ ToCome' = r /\ Answer' = r /\ r \in Seq(Instruction)
    BY <1>1, <1>5, <1>7, <1>8, <1>9
  <2> HIDE DEF r
  <2> QED BY <2>1, ConcatEmptySeq
<1>11. Here' \in (ScanStates(basis, data))'
  BY <1>4, <1>8
<1> QED BY <1>1, <1>10, <1>11 DEF FoundInv, ComputesSearchResult

\* The weak checksum looked for is that of the window.
LEMMA WindowSum ==
  ASSUME IInv, pc = "scan", offset + BlockSize <= Len(data)
  PROVE  /\ Window \in Seq(Byte) /\ Len(Window) = BlockSize
         /\ Value(rolling) = Checksum1(Window) /\ Checksum1(Window) \in Nat
         /\ Window = Slice(data, Here.o, Here.o + BlockSize) /\ Here.o = offset
<1>1. /\ Window \in Seq(Byte) /\ Len(Window) = BlockSize
      /\ rolling = Reset(Window) /\ Value(rolling) \in Nat
  BY ScanHead
<1>2. Value(rolling) = Checksum1(Window)
  BY <1>1 DEF Checksum1
<1> QED BY <1>1, <1>2 DEF Here, Window

LEMMA ScanMatchFinds ==
  ASSUME IInv, ChainInv, FoundInv, ScanMatch
  PROVE  FoundInv'
<1> DEFINE v == Value(rolling)
           w == Window
           e == offset + BlockSize
           F(s) == Scanner(basis, KnownBlocks, data)[s]
<1>1. /\ pc = "scan" /\ e <= Len(data) /\ results \in Seq(Instruction)
      /\ basis \in Seq(Byte) /\ data \in Seq(Byte) /\ Len(data) \in Nat
      /\ Loaded /\ AreBlocks(basis, KnownBlocks)
      /\ Here \in ScanStates(basis, data) /\ Here.lm <= Here.o
      /\ results \o F(Here) = Answer
      /\ Here.o = offset /\ Here.lm = lastMatch /\ Here.want = wantIdx
      /\ BlockSize \in Nat \ {0} /\ wantIdx \in Nat /\ offset \in Nat
  BY Searching DEF ScanMatch, FoundInv, Here, ToCome
<1>2. /\ w \in Seq(Byte) /\ Len(w) = BlockSize /\ v = Checksum1(w) /\ Checksum1(w) \in Nat
      /\ w = Slice(data, Here.o, Here.o + BlockSize)
  BY <1>1, WindowSum
<1>3. PICK k \in Compared(v) :
        /\ Agrees(v, w, k)
        /\ \A j \in Compared(v) : j < k => ~ Agrees(v, w, j)
        /\ wantIdx' = Preferred(v, w, k) + 1
        /\ results' = Append(EmitLiterals(lastMatch, offset),
                             Match(Preferred(v, w, k), offset))
  BY DEF ScanMatch
<1> DEFINE i == Preferred(v, w, k)
<1>4. /\ Candidates(basis, KnownBlocks, w) # {}
      /\ i = Chosen(basis, KnownBlocks, w, wantIdx)
      /\ i \in 0 .. NumBlocks(basis) - 1
  <2> HIDE DEF w, v
  <2>1. Len(w) <= BlockSize
    BY <1>1, <1>2
  <2>2. /\ k \in Compared(Checksum1(w)) /\ Agrees(Checksum1(w), w, k)
        /\ \A j \in Compared(Checksum1(w)) : j < k => ~ Agrees(Checksum1(w), w, j)
    BY <1>2, <1>3
  <2>3. /\ Candidates(basis, KnownBlocks, w) # {}
        /\ Preferred(Checksum1(w), w, k) = Chosen(basis, KnownBlocks, w, wantIdx)
        /\ Preferred(Checksum1(w), w, k) \in 0 .. NumBlocks(basis) - 1
    BY <1>1, <1>2, <2>1, <2>2, PreferredIsChosen
  <2> QED BY <1>2, <2>3
<1>5. i \in Nat
  <2>1. NumBlocks(basis) \in Nat
    BY <1>1, LoadedFacts
  <2> QED BY <1>4, <2>1
<1>6. results' = Append(results \o Chunks(Slice(data, lastMatch, offset), lastMatch),
                        Match(i, offset))
  BY <1>3 DEF EmitLiterals
<1> HIDE DEF i, v, w, F
<1>7. MatchesAt(basis, KnownBlocks, data, Here, i)
  BY <1>1, <1>2, <1>4 DEF MatchesAt
<1>8. F(Here) = SentAt(data, Here, i, F(After(Here, i)))
  BY <1>1, <1>7, ScannerMatches, NumBlocksType DEF F
<1>9. After(Here, i) \in ScanStates(basis, data)
  <2>1. Here.o + BlockSize <= Len(data)
    BY <1>1
  <2>2. i = Chosen(basis, KnownBlocks, w, Here.want)
    BY <1>1, <1>4
  <2> QED BY <1>1, <1>4, <2>1, <2>2, MatchGoesOn, NumBlocksType
<1>10. F(After(Here, i)) \in Seq(Instruction)
  <2>1. After(Here, i).lm <= After(Here, i).o
    BY <1>1 DEF After
  <2> QED BY <1>1, <1>9, <2>1, ScannerType, NumBlocksType DEF F
<1>11. /\ Chunks(Slice(data, lastMatch, offset), lastMatch) \in Seq(Instruction)
       /\ Match(i, offset) \in Instruction
  BY <1>1, <1>5, StepType
<1>12. results' \o F(After(Here, i)) = results \o SentAt(data, Here, i, F(After(Here, i)))
  <2> DEFINE c == Chunks(Slice(data, lastMatch, offset), lastMatch)
             m == Match(i, offset)
             t == F(After(Here, i))
             sent == SentAt(data, Here, i, t)
  <2>1. sent = Append(c, m) \o t
    BY <1>1 DEF SentAt, Pending
  <2>2. results' = Append(results \o c, m)
    BY <1>6
  <2>3. c \in Seq(Instruction) /\ m \in Instruction /\ t \in Seq(Instruction)
    BY <1>10, <1>11
  <2> HIDE DEF c, m, t, sent
  <2>4. Joined(Append(results \o c, m), t, results, Append(c, m) \o t)
    BY <1>1, <2>3, AppendInside
  <2>5. Joined(results', t, results, sent)
    BY <2>1, <2>2, <2>4
  <2> QED BY <2>5 DEF t, sent, Joined
<1>13. results' \o F(After(Here, i)) = Answer
  BY <1>1, <1>8, <1>12
<1>14. /\ pc' = "scan" /\ lastMatch' = e /\ offset' = e /\ wantIdx' = i + 1
       /\ UNCHANGED engineVars /\ UNCHANGED data
  BY <1>3 DEF ScanMatch, i, w, v
<1>15. Here' = After(Here, i)
  BY <1>1, <1>14 DEF Here, After
<1>16. /\ Answer' = Answer
       /\ (Scanner(basis, KnownBlocks, data))' = Scanner(basis, KnownBlocks, data)
       /\ (ScanStates(basis, data))' = ScanStates(basis, data)
  BY <1>14, AnswerStays
<1>17. ToCome' = F(After(Here, i))
  BY <1>15, <1>16 DEF ToCome, F
<1>18. results' \o ToCome' = Answer' /\ Here' \in (ScanStates(basis, data))'
  BY <1>9, <1>13, <1>15, <1>16, <1>17
<1> QED BY <1>14, <1>18 DEF FoundInv, ComputesSearchResult

LEMMA ScanMissFinds ==
  ASSUME IInv, ChainInv, FoundInv, ScanMiss
  PROVE  FoundInv'
<1> DEFINE v == Value(rolling)
           w == Window
<1>1. /\ pc = "scan" /\ offset + BlockSize <= Len(data) /\ results \in Seq(Instruction)
      /\ basis \in Seq(Byte) /\ data \in Seq(Byte)
      /\ Loaded /\ AreBlocks(basis, KnownBlocks)
      /\ Here \in ScanStates(basis, data)
      /\ results \o ToCome = Answer
      /\ Here.o = offset /\ Here.lm = lastMatch /\ Here.want = wantIdx
      /\ BlockSize \in Nat \ {0}
  BY Searching DEF ScanMiss, FoundInv, Here
<1>2. /\ w \in Seq(Byte) /\ Len(w) = BlockSize /\ v = Checksum1(w) /\ Checksum1(w) \in Nat
      /\ w = Slice(data, Here.o, Here.o + BlockSize)
  BY <1>1, WindowSum
<1>3. \A k \in Compared(v) : ~ Agrees(v, w, k)
  BY DEF ScanMiss
<1> HIDE DEF v, w
<1>4. Candidates(basis, KnownBlocks, w) = {}
  <2>1. Len(w) <= BlockSize /\ \A k \in Compared(Checksum1(w)) : ~ Agrees(Checksum1(w), w, k)
    BY <1>1, <1>2, <1>3
  <2> QED BY <1>1, <1>2, <2>1, MissMeansNone
<1>5. Here.o + BlockSize <= Len(data)
  BY <1>1
<1>6. Scanner(basis, KnownBlocks, data)[Here] = Scanner(basis, KnownBlocks, data)[Missed(Here)]
  BY <1>1, <1>2, <1>4, <1>5, ScannerMisses, NumBlocksType
<1>7. /\ Missed(Here) \in ScanStates(basis, data)
      /\ Missed(Here) = [o |-> offset + 1, lm |-> lastMatch, want |-> wantIdx]
  BY <1>1, <1>5, MissGoesOn
<1>8. /\ pc' = "scan" /\ offset' = offset + 1
      /\ UNCHANGED engineVars /\ UNCHANGED << data, lastMatch, wantIdx, results >>
  BY DEF ScanMiss, NextOffset
<1>9. Here' = Missed(Here)
  BY <1>7, <1>8 DEF Here
<1>10. /\ Answer' = Answer
       /\ (Scanner(basis, KnownBlocks, data))' = Scanner(basis, KnownBlocks, data)
       /\ (ScanStates(basis, data))' = ScanStates(basis, data)
  BY <1>8, AnswerStays
<1>11. ToCome' = ToCome
  BY <1>6, <1>9, <1>10 DEF ToCome
<1>12. results' \o ToCome' = Answer' /\ Here' \in (ScanStates(basis, data))'
  BY <1>1, <1>7, <1>8, <1>9, <1>10, <1>11
<1> QED BY <1>8, <1>12 DEF FoundInv, ComputesSearchResult

LEMMA ScanEndFinds ==
  ASSUME IInv, ChainInv, FoundInv, ScanEnd
  PROVE  FoundInv'
<1>1. /\ pc = "scan" /\ offset + BlockSize > Len(data)
      /\ basis \in Seq(Byte) /\ data \in Seq(Byte) /\ AreBlocks(basis, KnownBlocks)
      /\ Here \in ScanStates(basis, data) /\ results \o ToCome = Answer
      /\ Here.o = offset /\ Here.lm = lastMatch
  BY Searching DEF ScanEnd, FoundInv, Here
<1>2. ToCome = TailResult(basis, data, lastMatch)
  <2>1. Here.o + BlockSize > Len(data)
    BY <1>1
  <2>2. Scanner(basis, KnownBlocks, data)[Here] = TailResult(basis, data, Here.lm)
    BY <1>1, <2>1, ScannerEnds, NumBlocksType
  <2> QED BY <1>1, <2>2 DEF ToCome
<1>3. /\ pc' = "tail" /\ UNCHANGED engineVars
      /\ UNCHANGED << data, offset, lastMatch, results >>
  BY DEF ScanEnd, searchVars
<1>4. Answer' = Answer /\ basis' = basis
  BY <1>3, AnswerStays DEF engineVars
<1>5. (TailResult(basis, data, lastMatch))' = TailResult(basis, data, lastMatch)
  BY <1>3, <1>4
<1>6. results' \o (TailResult(basis, data, lastMatch))' = Answer'
  BY <1>1, <1>2, <1>3, <1>4, <1>5
<1> QED BY <1>1, <1>3, <1>6 DEF FoundInv, ComputesSearchResult

LEMMA QuotientType ==
  ASSUME NEW m \in Nat \ {0}, NEW a \in Nat
  PROVE  a \div m \in Nat
OBVIOUS

LEMMA QuotientOf ==
  ASSUME NEW m \in Nat \ {0}, NEW a \in Nat, NEW q \in Nat
  PROVE  q * m = a <=> a % m = 0 /\ a \div m = q
<1> DEFINE p == a \div m
           r == a % m
<1>1. a = p * m + r /\ p \in Nat /\ r \in 0 .. m - 1
  OBVIOUS
<1>2. q * m = a => r = 0 /\ p = q
  OBVIOUS
<1> HIDE DEF p, r
<1>3. r = 0 /\ p = q => q * m = a
  <2> SUFFICES ASSUME r = 0, p = q PROVE q * m = a
    OBVIOUS
  <2>1. a = q * m + 0 /\ q * m \in Nat
    BY <1>1
  <2> QED BY <2>1
<1> QED BY <1>2, <1>3 DEF p, r

\* The tail as the result function sees it: whether and as which block it is
\* sent.
TailIsBlock(i) ==
  /\ lastMatch % BlockSize = 0 /\ lastMatch \div BlockSize = i
  /\ i < NumBlocks(basis) /\ Block(basis, i) = TailBytes

LEMMA TailBlocksAre ==
  ASSUME Loaded, TailBytes \in Seq(Byte), lastMatch \in Nat,
         NEW i \in 1 .. Len(checksums)
  PROVE  /\ i \in TailBlocks <=> TailIsBlock(i - 1)
         /\ checksums[i].index = i - 1 /\ i - 1 \in Nat
<1> DEFINE b == i - 1
<1>1. /\ b \in Nat /\ b \in 0 .. NumBlocks(basis) - 1 /\ b + 1 = i /\ b < NumBlocks(basis)
      /\ basis \in Seq(Byte) /\ BlockSize \in Nat \ {0}
      /\ NumBlocks(basis) \in Nat
  <2>1. Len(checksums) \in Nat /\ Len(checksums) = NumBlocks(basis) /\ basis \in Seq(Byte)
    BY LoadedFacts DEF Loaded
  <2> QED BY <2>1, BlockSizeAssumption
<1>2. checksums[i] = BlockSum(basis, b)
  <2> HIDE DEF b
  <2> QED BY <1>1, LoadedFacts
<1> HIDE DEF b
<1>3. /\ checksums[i].index = b /\ checksums[i].sum1 = Checksum1(Block(basis, b))
      /\ checksums[i].sum2 = Strong(Block(basis, b))
      /\ checksums[i].length = Len(Block(basis, b))
      /\ Len(Block(basis, b)) <= BlockSize
  <2>1. /\ Len(Block(basis, b)) = BlockEnd(basis, b) - b * BlockSize
        /\ BlockEnd(basis, b) - b * BlockSize <= BlockSize
    BY <1>1, BlockType, BlockBounds
  <2> QED BY <1>2, <2>1 DEF BlockSum
<1>4. b * BlockSize = lastMatch <=> lastMatch % BlockSize = 0 /\ lastMatch \div BlockSize = b
  BY <1>1, QuotientOf
<1>5. i \in TailBlocks <=> TailIsBlock(b)
  <2>1. ASSUME i \in TailBlocks
        PROVE  TailIsBlock(b)
    <3>1. /\ Len(TailBytes) <= BlockSize /\ b * BlockSize = lastMatch
          /\ Strong(Block(basis, b)) = Strong(TailBytes)
      BY <1>3, <2>1 DEF TailBlocks
    <3>2. TailBytes \in BlockStrings /\ Block(basis, b) \in BlockStrings
      BY <1>1, <3>1, ShortStrings, BlockType
    <3>3. Block(basis, b) = TailBytes
      BY <3>1, <3>2, StrongAssumption
    <3> QED BY <1>1, <1>4, <3>1, <3>3 DEF TailIsBlock
  <2>2. ASSUME TailIsBlock(b)
        PROVE  i \in TailBlocks
    <3>1. Block(basis, b) = TailBytes /\ b * BlockSize = lastMatch
      BY <1>4, <2>2 DEF TailIsBlock
    <3> QED BY <1>3, <3>1 DEF TailBlocks
  <2> QED BY <2>1, <2>2
<1> QED BY <1>1, <1>3, <1>5 DEF b

\* The tail lemmas' common ground.
LEMMA AtTail ==
  ASSUME IInv, ChainInv, FoundInv, pc = "tail"
  PROVE  /\ Loaded /\ TailBytes \in Seq(Byte) /\ lastMatch \in Nat
         /\ results \in Seq(Instruction) /\ Len(data) \in Nat
         /\ lastMatch <= Len(data) /\ Len(checksums) \in Nat
         /\ results \o TailResult(basis, data, lastMatch) = Answer
         /\ basis \in Seq(Byte) /\ data \in Seq(Byte)
<1>1. /\ Loaded /\ basis \in Seq(Byte) /\ data \in Seq(Byte) /\ results \in Seq(Instruction)
      /\ lastMatch \in Nat /\ lastMatch <= Len(data) /\ Len(data) \in Nat
  BY Searching
<1>2. TailBytes \in Seq(Byte)
  <2> DEFINE n == Len(data)
  <2>1. n \in Nat /\ lastMatch <= n /\ n <= Len(data)
    BY <1>1
  <2>2. TailBytes = Slice(data, lastMatch, n)
    BY DEF TailBytes
  <2> HIDE DEF n
  <2> QED BY <1>1, <2>1, <2>2, SliceType, ZenonT(60)
<1> QED BY <1>1, <1>2, LoadedFacts DEF FoundInv

LEMMA TailMatchFinds ==
  ASSUME IInv, ChainInv, FoundInv, TailMatch
  PROVE  FoundInv'
<1>1. /\ pc = "tail" /\ lastMatch < Len(data) /\ pc' = "returned"
      /\ UNCHANGED engineVars /\ UNCHANGED data
  BY DEF TailMatch
<1>2. PICK i \in TailBlocks :
        results' = Append(results, Match(checksums[i].index, lastMatch))
  BY DEF TailMatch
<1>3. i \in 1 .. Len(checksums)
  BY DEF TailBlocks
<1> DEFINE b == i - 1
           one == Match(b, lastMatch)
<1>4. /\ TailIsBlock(b) /\ checksums[i].index = b /\ b \in Nat
      /\ results \in Seq(Instruction) /\ lastMatch \in Nat
      /\ results \o TailResult(basis, data, lastMatch) = Answer
  BY <1>1, <1>3, AtTail, TailBlocksAre
<1> HIDE DEF b
<1>5. TailResult(basis, data, lastMatch) = << one >>
  BY <1>1, <1>4 DEF TailResult, TailIsBlock, TailBytes
<1>6. one \in Instruction
  BY <1>4, EmptySeq DEF Match, Instruction
<1>7. results' = Append(results, one)
  BY <1>2, <1>4
<1> HIDE DEF one
<1>8. Append(results, one) = results \o << one >>
  BY <1>4, <1>6, AppendIsConcat
<1>9. results' = Answer
  BY <1>4, <1>5, <1>7, <1>8
<1>10. Answer' = Answer
  BY <1>1, AnswerStays
<1>11. ComputesSearchResult'
  BY <1>9, <1>10 DEF ComputesSearchResult, Answer
<1> QED BY <1>1, <1>11 DEF FoundInv

LEMMA TailLiteralsFinds ==
  ASSUME IInv, ChainInv, FoundInv, TailLiterals
  PROVE  FoundInv'
<1>1. /\ pc = "tail" /\ pc' = "returned"
      /\ UNCHANGED engineVars /\ UNCHANGED data
      /\ lastMatch < Len(data) => TailBlocks = {}
      /\ results' = results \o Chunks(TailBytes, lastMatch)
  BY DEF TailLiterals, EmitLiterals, TailBytes
<1>2. /\ Loaded /\ TailBytes \in Seq(Byte) /\ lastMatch \in Nat /\ Len(checksums) \in Nat
      /\ results \o TailResult(basis, data, lastMatch) = Answer
  BY <1>1, AtTail
<1>3. TailResult(basis, data, lastMatch) = Chunks(TailBytes, lastMatch)
  <2> DEFINE b == lastMatch \div BlockSize
  <2>1. ~ (lastMatch < Len(data) /\ TailIsBlock(b))
    <3> SUFFICES ASSUME TailIsBlock(b), TailBlocks = {} PROVE FALSE
      BY <1>1
    <3>1. b \in Nat
      BY <1>2, BlockSizeAssumption, QuotientType
    <3>2. b < Len(checksums)
      <4>1. Len(checksums) = NumBlocks(basis)
        BY <1>2, LoadedFacts
      <4>2. b < NumBlocks(basis)
        BY DEF TailIsBlock
      <4> HIDE DEF b
      <4> QED BY <4>1, <4>2
    <3> HIDE DEF b
    <3>3. b + 1 \in 1 .. Len(checksums) /\ (b + 1) - 1 = b
      BY <1>2, <3>1, <3>2
    <3>4. b + 1 \in TailBlocks
      <4> DEFINE i == b + 1
      <4>1. i \in 1 .. Len(checksums) /\ TailIsBlock(i - 1)
        BY <3>3
      <4> HIDE DEF i
      <4>2. i \in TailBlocks
        BY <1>2, <4>1, TailBlocksAre
      <4> QED BY <4>2 DEF i
    <3> QED BY <3>4
  <2> QED BY <2>1 DEF TailResult, TailIsBlock, TailBytes
<1>4. results' = Answer
  BY <1>1, <1>2, <1>3
<1>5. Answer' = Answer
  BY <1>1, AnswerStays
<1>6. ComputesSearchResult'
  BY <1>4, <1>5 DEF ComputesSearchResult, Answer
<1> QED BY <1>1, <1>6 DEF FoundInv

\* Nothing of the search is left or begun yet.
LEMMA NotSearchingFinds ==
  ASSUME pc' \in {"idle", "build"}
  PROVE  FoundInv'
BY DEF FoundInv, ComputesSearchResult

LEMMA UnchangedFinds ==
  ASSUME FoundInv, UNCHANGED vars
  PROVE  FoundInv'
<1>1. /\ Answer' = Answer
      /\ (Scanner(basis, KnownBlocks, data))' = Scanner(basis, KnownBlocks, data)
      /\ (ScanStates(basis, data))' = ScanStates(basis, data)
  BY AnswerStays DEF vars, searchVars
<1>2. /\ pc' = pc /\ results' = results /\ offset' = offset /\ lastMatch' = lastMatch
      /\ wantIdx' = wantIdx /\ data' = data /\ basis' = basis
  BY DEF vars, engineVars, searchVars
<1>3. Here' = Here
  BY <1>2 DEF Here
<1>4. ToCome' = ToCome
  BY <1>1, <1>3 DEF ToCome
<1>5. (TailResult(basis, data, lastMatch))' = TailResult(basis, data, lastMatch)
  BY <1>2
<1>6. ComputesSearchResult'
  BY <1>1, <1>2 DEF ComputesSearchResult, Answer, FoundInv
<1> QED BY <1>1, <1>2, <1>3, <1>4, <1>5, <1>6 DEF FoundInv

LEMMA InitFinds ==
  ASSUME Init
  PROVE  FoundInv
BY DEF Init, FoundInv, ComputesSearchResult

LEMMA NextFinds ==
  ASSUME IInv, ChainInv, FoundInv, [Next]_vars
  PROVE  FoundInv'
<1>1. ASSUME NEW f \in Bases, LoadSignature(f) PROVE FoundInv'
  BY <1>1, NotSearchingFinds DEF LoadSignature
<1>2. CASE LoadNil
  BY <1>2, NotSearchingFinds DEF LoadNil
<1>3. CASE InsertBlock
  BY <1>3, NotSearchingFinds DEF InsertBlock
<1>4. CASE Built
  BY <1>4, NotSearchingFinds DEF Built
<1>5. ASSUME NEW d \in Inputs, Search(d) PROVE FoundInv'
  BY <1>5 DEF Search, FoundInv, ComputesSearchResult
<1>6. CASE SearchLiterals
  BY <1>6, SearchLiteralsFinds
<1>7. CASE SearchBegin
  BY <1>7, SearchBeginFinds
<1>8. CASE ScanMatch
  BY <1>8, ScanMatchFinds
<1>9. CASE ScanMiss
  BY <1>9, ScanMissFinds
<1>10. CASE ScanEnd
  BY <1>10, ScanEndFinds
<1>11. CASE TailMatch
  BY <1>11, TailMatchFinds
<1>12. CASE TailLiterals
  BY <1>12, TailLiteralsFinds
<1>13. CASE UNCHANGED vars
  BY <1>13, UnchangedFinds
<1>14. CASE Rest
  BY <1>13, <1>14 DEF Rest
<1> QED BY <1>1, <1>2, <1>3, <1>4, <1>5, <1>6, <1>7, <1>8, <1>9, <1>10, <1>11, <1>12, <1>13,
           <1>14 DEF Next, Progress, SearchProgress

-----------------------------------------------------------------------------
(* No block is missed *)

\* The window at o is a block of the basis; it overlaps a match.
IsABlock(o) ==
  \E i \in 1 .. Len(checksums) : Block(basis, i - 1) = Slice(data, o, o + BlockSize)

Overlaps(b, r, o) ==
  ~ r.isLiteral /\ r.offset < o + BlockSize /\ o < EndOf(b, r)

Seen(b, rs, o) == \E r \in 1 .. Len(rs) : Overlaps(b, rs[r], o)

NoneMissed(m) ==
  \A o \in 0 .. Len(data) - BlockSize : o < m /\ IsABlock(o) => Seen(basis, results, o)

LEMMA MissedMeans ==
  NoBlockMissed <=>
    (pc \in {"scan", "tail", "returned"} /\ AmpleProbes => NoneMissed(Scanned))
BY DEF NoBlockMissed, NoneMissed, IsABlock, Seen, Overlaps

\* More instructions, no fewer overlaps.
LEMMA SeenStays ==
  ASSUME NEW b, NEW rs \in Seq(Instruction), NEW cs \in Seq(Instruction), NEW o, Seen(b, rs, o)
  PROVE  Seen(b, rs \o cs, o)
<1> DEFINE all == rs \o cs
<1>1. PICK r \in 1 .. Len(rs) : Overlaps(b, rs[r], o)
  BY DEF Seen
<1>2. /\ Len(all) = Len(rs) + Len(cs) /\ Len(rs) \in Nat /\ Len(cs) \in Nat
      /\ \A j \in 1 .. Len(all) : all[j] = IF j <= Len(rs) THEN rs[j] ELSE cs[j - Len(rs)]
  BY ConcatProperties, LenProperties
<1> HIDE DEF all
<1>3. r \in 1 .. Len(all) /\ all[r] = rs[r]
  BY <1>2
<1>4. Seen(b, all, o)
  BY <1>1, <1>3 DEF Seen
<1> QED BY <1>4 DEF all

LEMMA MatchIsSeen ==
  ASSUME NEW b, NEW rs \in Seq(Instruction), NEW m \in Instruction
  PROVE  /\ \A o : Seen(b, rs, o) => Seen(b, Append(rs, m), o)
         /\ \A o : Overlaps(b, m, o) => Seen(b, Append(rs, m), o)
<1> DEFINE all == Append(rs, m)
<1>1. /\ Len(all) = Len(rs) + 1 /\ Len(rs) \in Nat /\ all[Len(rs) + 1] = m
      /\ \A k \in 1 .. Len(rs) : all[k] = rs[k]
  BY AppendProperties, LenProperties
<1> HIDE DEF all
<1>2. \A k \in 1 .. Len(rs) : k \in 1 .. Len(all) /\ all[k] = rs[k]
  BY <1>1
<1>3. Len(rs) + 1 \in 1 .. Len(all)
  BY <1>1
<1>4. \A o : Seen(b, rs, o) => Seen(b, all, o)
  BY <1>2 DEF Seen
<1>5. \A o : Overlaps(b, m, o) => Seen(b, all, o)
  BY <1>1, <1>3 DEF Seen
<1> QED BY <1>4, <1>5 DEF all

\* What is emitted before a match or at the end.
LEMMA EmittedType ==
  ASSUME IInv, NEW lo \in Nat, NEW hi \in Nat, lo <= hi, hi <= Len(data)
  PROVE  /\ Chunks(Slice(data, lo, hi), lo) \in Seq(Instruction)
         /\ EmitLiterals(lo, hi) \in Seq(Instruction)
<1> DEFINE cs == Chunks(Slice(data, lo, hi), lo)
<1>1. results \in Seq(Instruction) /\ data \in Seq(Byte)
  BY DEF IInv, TypeOK
<1>2. cs \in Seq(Instruction) /\ Covers(basis, data, cs, lo, hi)
  BY <1>1, ChunksCover
<1>3. EmitLiterals(lo, hi) = results \o cs
  BY DEF EmitLiterals
<1> HIDE DEF cs
<1> QED BY <1>1, <1>2, <1>3, ConcatProperties DEF cs

\* What a step of the search has to show.
LEMMA MissesNone ==
  ASSUME UNCHANGED engineVars, UNCHANGED data,
         AmpleProbes =>
           \A o \in 0 .. Len(data) - BlockSize :
             o < Scanned' /\ IsABlock(o) => Seen(basis, results', o)
  PROVE  NoBlockMissed'
<1>1. /\ checksums' = checksums /\ basis' = basis /\ data' = data
      /\ AmpleProbes' = AmpleProbes
  BY DEF engineVars, AmpleProbes
<1>2. \A o : Seen(basis, results', o) =>
              \E r \in 1 .. Len(results') : /\ ~ results'[r].isLiteral
                                           /\ results'[r].offset < o + BlockSize
                                           /\ o < EndOf(basis, results'[r])
  BY DEF Seen, Overlaps
<1>3. \A o : (\E i \in 1 .. Len(checksums) :
                 Block(basis, i - 1) = Slice(data, o, o + BlockSize)) => IsABlock(o)
  BY DEF IsABlock
<1> QED BY <1>1, <1>2, <1>3 DEF NoBlockMissed

LEMMA ScanMatchMisses ==
  ASSUME IInv, ChainInv, NoBlockMissed, ScanMatch
  PROVE  NoBlockMissed'
<1> DEFINE w == Window
           v == Value(rolling)
<1>1. /\ pc = "scan" /\ offset + BlockSize <= Len(data)
      /\ pc' = "scan" /\ offset' = offset + BlockSize
      /\ UNCHANGED engineVars /\ UNCHANGED data
  BY DEF ScanMatch
<1>2. /\ results \in Seq(Instruction) /\ data \in Seq(Byte) /\ basis \in Seq(Byte)
      /\ offset \in Nat /\ lastMatch \in Nat /\ lastMatch <= offset /\ Len(data) \in Nat
      /\ BlockSize \in Nat \ {0} /\ checksums # << >> /\ offset <= Len(data)
  BY <1>1, Searching DEF Loaded
<1>3. PICK k \in Compared(v) :
        /\ Agrees(v, w, k)
        /\ results' = Append(EmitLiterals(lastMatch, offset),
                             Match(Preferred(v, w, k), offset))
  BY DEF ScanMatch
<1> DEFINE i == Preferred(v, w, k)
           one == Match(i, offset)
           lits == EmitLiterals(lastMatch, offset)
           cs == Chunks(Slice(data, lastMatch, offset), lastMatch)
<1>4. i \in Nat /\ Block(basis, i) = w /\ Len(w) = BlockSize
  <2>1. TableType /\ TableInv
    BY DEF IInv, TypeOK, TableType
  <2>2. w \in Seq(Byte) /\ Len(w) = BlockSize /\ v \in Nat
    BY <1>1, ScanHead
  <2> HIDE DEF v, w
  <2> QED BY <1>2, <1>3, <2>1, <2>2, MatchedBlock
<1>5. one \in Instruction /\ ~ one.isLiteral /\ one.offset = offset
      /\ EndOf(basis, one) = offset + BlockSize
  BY <1>2, <1>4, EmptySeq DEF Match, Instruction, EndOf, Apply
<1>6. lits \in Seq(Instruction) /\ cs \in Seq(Instruction) /\ lits = results \o cs
  BY <1>2, EmittedType DEF EmitLiterals
<1>7. results' = Append(lits, one)
  BY <1>3
<1> HIDE DEF one, lits, cs, i, v, w
<1>8. ASSUME AmpleProbes, NEW o \in 0 .. Len(data) - BlockSize,
             o < offset + BlockSize, IsABlock(o)
      PROVE  Seen(basis, results', o)
  <2>1. o \in Nat
    BY <1>2
  <2>2. CASE o < offset
    <3>1. Seen(basis, results, o)
      BY <1>1, <1>8, <2>2, MissedMeans DEF NoneMissed, Scanned
    <3>2. Seen(basis, lits, o)
      BY <1>2, <1>6, <3>1, SeenStays
    <3> QED BY <1>5, <1>6, <1>7, <3>2, MatchIsSeen
  <2>3. CASE ~ (o < offset)
    <3>1. Overlaps(basis, one, o)
      BY <1>2, <1>5, <1>8, <2>1, <2>3 DEF Overlaps
    <3> QED BY <1>5, <1>6, <1>7, <3>1, MatchIsSeen
  <2> QED BY <2>2, <2>3
<1>9. Scanned' = offset + BlockSize
  BY <1>1 DEF Scanned
<1> QED BY <1>1, <1>8, <1>9, MissesNone

LEMMA ScanMissMisses ==
  ASSUME IInv, ChainInv, NoBlockMissed, ScanMiss
  PROVE  NoBlockMissed'
<1> DEFINE w == Window
           v == Value(rolling)
<1>1. /\ pc = "scan" /\ offset + BlockSize <= Len(data)
      /\ pc' = "scan" /\ offset' = offset + 1 /\ results' = results
      /\ UNCHANGED engineVars /\ UNCHANGED data
      /\ \A k \in Compared(v) : ~ Agrees(v, w, k)
  BY DEF ScanMiss, NextOffset
<1>2. /\ offset \in Nat /\ Len(data) \in Nat /\ BlockSize \in Nat \ {0} /\ Loaded
  BY <1>1, Searching
<1>3. /\ w \in Seq(Byte) /\ Len(w) = BlockSize /\ v = Checksum1(w) /\ Checksum1(w) \in Nat
  BY <1>1, WindowSum
<1>4. w = Slice(data, offset, offset + BlockSize)
  BY DEF Window
<1> HIDE DEF w, v
<1>5. Candidates(basis, KnownBlocks, w) = {}
  <2>1. Len(w) <= BlockSize /\ \A k \in Compared(Checksum1(w)) : ~ Agrees(Checksum1(w), w, k)
    BY <1>1, <1>2, <1>3
  <2> QED BY <1>2, <1>3, <2>1, MissMeansNone
<1>6. AmpleProbes => ~ IsABlock(offset)
  <2> SUFFICES ASSUME AmpleProbes, NEW i \in 1 .. Len(checksums), Block(basis, i - 1) = w
               PROVE  FALSE
    BY <1>4 DEF IsABlock
  <2>1. KnownBlocks = 0 .. NumBlocks(basis) - 1
    BY <1>2, AllKnown
  <2>2. i - 1 \in 0 .. NumBlocks(basis) - 1
    <3>1. Len(checksums) = NumBlocks(basis) /\ Len(checksums) \in Nat
      BY <1>2, LoadedFacts
    <3> QED BY <3>1
  <2> QED BY <1>5, <2>1, <2>2 DEF Candidates
<1>7. ASSUME AmpleProbes, NEW o \in 0 .. Len(data) - BlockSize, o < offset + 1, IsABlock(o)
      PROVE  Seen(basis, results', o)
  <2>1. o \in Nat /\ o # offset
    BY <1>2, <1>6, <1>7
  <2>2. o < offset
    BY <1>2, <1>7, <2>1
  <2> QED BY <1>1, <1>7, <2>2, MissedMeans DEF NoneMissed, Scanned
<1>8. Scanned' = offset + 1
  BY <1>1 DEF Scanned
<1> QED BY <1>1, <1>7, <1>8, MissesNone

LEMMA SearchLiteralsMisses ==
  ASSUME IInv, SearchLiterals
  PROVE  NoBlockMissed'
<1>1. /\ UNCHANGED engineVars /\ UNCHANGED data /\ data \in Seq(Byte)
      /\ checksums = << >> \/ Len(data) < BlockSize
  BY DEF SearchLiterals, IInv, TypeOK
<1>2. ASSUME NEW o \in 0 .. Len(data) - BlockSize, IsABlock(o)
      PROVE  FALSE
  <2>1. CASE checksums = << >>
    BY <1>2, <2>1, EmptySeq DEF IsABlock
  <2>2. CASE Len(data) < BlockSize
    BY <1>1, <1>2, <2>2, LenProperties, BlockSizeAssumption
  <2> QED BY <1>1, <2>1, <2>2
<1> QED BY <1>1, <1>2, MissesNone

\* The tail is shorter than a window: what is added to the results adds no
\* offset to look at.
LEMMA TailMisses ==
  ASSUME IInv, ChainInv, FoundInv, NoBlockMissed, TailMatch \/ TailLiterals
  PROVE  NoBlockMissed'
<1>1. /\ pc = "tail" /\ pc' = "returned" /\ UNCHANGED engineVars /\ UNCHANGED data
      /\ offset + BlockSize > Len(data)
  BY DEF TailMatch, TailLiterals, FoundInv
<1>2. /\ results \in Seq(Instruction) /\ offset \in Nat /\ Len(data) \in Nat
      /\ BlockSize \in Nat \ {0} /\ lastMatch \in Nat /\ lastMatch <= Len(data)
      /\ TableType /\ data \in Seq(Byte) /\ basis \in Seq(Byte)
  BY <1>1, Searching DEF Loaded
<1>3. ASSUME NEW o, Seen(basis, results, o)
      PROVE  Seen(basis, results', o)
  <2>1. CASE TailMatch
    <3>1. PICK i \in TailBlocks :
            results' = Append(results, Match(checksums[i].index, lastMatch))
      BY <2>1 DEF TailMatch
    <3>2. Match(checksums[i].index, lastMatch) \in Instruction
      <4>1. i \in 1 .. Len(checksums)
        BY DEF TailBlocks
      <4>2. checksums[i].index \in Nat
        <5>1. checksums[i] \in BlockSums
          BY <1>2, <4>1, ElementOfSeq DEF TableType
        <5> QED BY <5>1 DEF BlockSums
      <4> QED BY <1>2, <4>2, EmptySeq DEF Match, Instruction
    <3> HIDE DEF TailBlocks
    <3> QED BY <1>2, <1>3, <3>1, <3>2, MatchIsSeen
  <2>2. CASE TailLiterals
    <3> DEFINE n == Len(data)
               cs == Chunks(Slice(data, lastMatch, n), lastMatch)
    <3>1. results' = results \o cs
      BY <2>2 DEF TailLiterals, EmitLiterals
    <3>2. n \in Nat /\ lastMatch <= n /\ n <= Len(data)
      BY <1>2
    <3> HIDE DEF n
    <3>3. cs \in Seq(Instruction)
      BY <1>2, <3>2, EmittedType
    <3> HIDE DEF cs
    <3> QED BY <1>2, <1>3, <3>1, <3>3, SeenStays
  <2> QED BY <2>1, <2>2
<1>4. ASSUME AmpleProbes, NEW o \in 0 .. Len(data) - BlockSize, IsABlock(o)
      PROVE  Seen(basis, results', o)
  <2>1. o < offset
    BY <1>1, <1>2
  <2>2. Seen(basis, results, o)
    BY <1>1, <1>4, <2>1, MissedMeans DEF NoneMissed, Scanned
  <2> QED BY <1>3, <2>2
<1> QED BY <1>1, <1>4, MissesNone

LEMMA NextMisses ==
  ASSUME IInv, ChainInv, FoundInv, NoBlockMissed, [Next]_vars
  PROVE  NoBlockMissed'
<1>0. ASSUME pc' \in {"idle", "build", "called"} PROVE NoBlockMissed'
  BY <1>0 DEF NoBlockMissed
<1>1. CASE LoadNil \/ InsertBlock \/ Built
  BY <1>0, <1>1 DEF LoadNil, InsertBlock, Built
<1>9. ASSUME NEW f \in Bases, LoadSignature(f) PROVE NoBlockMissed'
  BY <1>0, <1>9 DEF LoadSignature
<1>10. ASSUME NEW d \in Inputs, Search(d) PROVE NoBlockMissed'
  BY <1>0, <1>10 DEF Search
<1>2. CASE SearchLiterals
  BY <1>2, SearchLiteralsMisses
<1>3. CASE SearchBegin
  <2>1. /\ pc' = "scan" /\ offset' = 0 /\ UNCHANGED engineVars /\ UNCHANGED data
        /\ Len(data) \in Nat
    BY <1>3, LenProperties DEF SearchBegin, IInv, ScanInv, TypeOK
  <2>2. \A o \in 0 .. Len(data) - BlockSize : ~ (o < Scanned')
    BY <2>1, BlockSizeAssumption DEF Scanned
  <2> QED BY <2>1, <2>2, MissesNone
<1>4. CASE ScanMatch
  BY <1>4, ScanMatchMisses
<1>5. CASE ScanMiss
  BY <1>5, ScanMissMisses
<1>6. CASE ScanEnd
  <2>1. /\ pc = "scan" /\ pc' = "tail" /\ UNCHANGED engineVars
        /\ UNCHANGED << data, offset, results >>
    BY <1>6 DEF ScanEnd, searchVars
  <2>2. Scanned' = offset /\ Scanned = offset
    BY <2>1 DEF Scanned
  <2>3. AmpleProbes => \A o \in 0 .. Len(data) - BlockSize :
                         o < Scanned' /\ IsABlock(o) => Seen(basis, results', o)
    BY <2>1, <2>2, MissedMeans DEF NoneMissed
  <2> QED BY <2>1, <2>3, MissesNone
<1>7. CASE TailMatch \/ TailLiterals
  BY <1>7, TailMisses
<1>8. CASE UNCHANGED vars \/ Rest
  <2>1. UNCHANGED engineVars /\ UNCHANGED << pc, data, offset, results >>
    BY <1>8 DEF Rest, vars, searchVars
  <2>2. CASE pc \in {"scan", "tail", "returned"}
    <3>1. Scanned' = Scanned
      BY <2>1 DEF Scanned
    <3>2. AmpleProbes => \A o \in 0 .. Len(data) - BlockSize :
                           o < Scanned' /\ IsABlock(o) => Seen(basis, results', o)
      BY <2>1, <2>2, <3>1, MissedMeans DEF NoneMissed
    <3> QED BY <2>1, <3>2, MissesNone
  <2>3. CASE pc \notin {"scan", "tail", "returned"}
    BY <2>1, <2>3 DEF NoBlockMissed
  <2> QED BY <2>2, <2>3
<1> QED BY <1>1, <1>2, <1>3, <1>4, <1>5, <1>6, <1>7, <1>8, <1>9, <1>10
       DEF Next, Progress, SearchProgress

-----------------------------------------------------------------------------
(* The basis itself is sent as its blocks *)

\* n blocks of BlockSize and a part of one make n + 1 blocks.
LEMMA BlocksCounted ==
  ASSUME NEW f \in Seq(Byte), NEW n \in Nat
  PROVE  /\ n * BlockSize < Len(f) => n \in 0 .. NumBlocks(f) - 1
         /\ n * BlockSize < Len(f) /\ Len(f) <= n * BlockSize + BlockSize
              => NumBlocks(f) = n + 1
         /\ n * BlockSize = Len(f) => NumBlocks(f) = n
<1> DEFINE q == NumBlocks(f)
           c == BlockSize
           L == Len(f)
<1>1. L \in Nat /\ c \in Nat \ {0}
  BY LenProperties, BlockSizeAssumption
<1>2. q \in Nat /\ (q - 1) * c < L /\ L <= q * c
  <2>1. q = (L + c - 1) \div c
    BY DEF NumBlocks
  <2> HIDE DEF q, c, L
  <2> QED BY <1>1, <2>1, RoundedDivision
<1> HIDE DEF q, c, L
<1>3. /\ n * c \in Nat /\ q * c \in Nat /\ (q - 1) * c \in Int
      /\ (n + 1) * c = n * c + c
  BY <1>1, <1>2
<1>4. n * c < L => n < q
  <2> SUFFICES ASSUME n * c < L, q <= n PROVE FALSE
    BY <1>2
  <2>1. q * c <= n * c
    BY <1>1, <1>2, ScaleMonotone
  <2> QED BY <1>1, <1>2, <1>3, <2>1
<1>5. L <= n * c + c => q <= n + 1
  <2> SUFFICES ASSUME L <= n * c + c, n + 1 <= q - 1 PROVE FALSE
    BY <1>2
  <2>1. (n + 1) * c <= (q - 1) * c
    BY <1>1, <1>2, ScaleMonotone
  <2> QED BY <1>1, <1>2, <1>3, <2>1
<1>6. L = n * c => q = n
  <2>1. L = n * c => n <= q
    <3> SUFFICES ASSUME L = n * c, q <= n - 1 PROVE FALSE
      BY <1>2
    <3>1. q * c <= (n - 1) * c /\ (n - 1) * c = n * c - c
      BY <1>1, <1>2, ScaleMonotone
    <3> QED BY <1>1, <1>2, <1>3, <3>1
  <2>2. L = n * c => q <= n
    <3> SUFFICES ASSUME L = n * c, n <= q - 1 PROVE FALSE
      BY <1>2
    <3>1. n * c <= (q - 1) * c
      BY <1>1, <1>2, ScaleMonotone
    <3> QED BY <1>1, <1>2, <1>3, <3>1
  <2> QED BY <1>2, <2>1, <2>2
<1> QED BY <1>1, <1>2, <1>4, <1>5, <1>6 DEF q, c, L

\* Block n of f, whole or the last one.
LEMMA BlockAt ==
  ASSUME NEW f \in Seq(Byte), NEW n \in Nat, NEW o, o = n * BlockSize
  PROVE  /\ o + BlockSize <= Len(f) => Block(f, n) = Slice(f, o, o + BlockSize)
         /\ o + BlockSize > Len(f) => Block(f, n) = Slice(f, o, Len(f))
<1>1. o \in Nat /\ Len(f) \in Nat /\ BlockSize \in Nat \ {0}
  BY LenProperties, BlockSizeAssumption
<1>2. BlockEnd(f, n) = IF o + BlockSize <= Len(f) THEN o + BlockSize ELSE Len(f)
  BY DEF BlockEnd, Least
<1>3. Block(f, n) = Slice(f, o, BlockEnd(f, n))
  BY DEF Block
<1>4. o + BlockSize > Len(f) <=> ~ (o + BlockSize <= Len(f))
  BY <1>1
<1> QED BY <1>2, <1>3, <1>4

\* The first n blocks, in order.
BlocksInOrder(n) == [k \in 1 .. n |-> Match(k - 1, (k - 1) * BlockSize)]

LEMMA OneBlockMore ==
  ASSUME NEW n \in Nat, NEW o, o = n * BlockSize
  PROVE  Append(BlocksInOrder(n), Match(n, o)) = BlocksInOrder(n + 1)
<1> DEFINE rs == BlocksInOrder(n)
           ss == BlocksInOrder(n + 1)
           one == Match(n, o)
           all == Append(rs, one)
<1>0. o \in Nat
  BY BlockSizeAssumption
<1>1. \A k \in 1 .. n + 1 : k - 1 \in Nat /\ (k - 1) * BlockSize \in Nat
  BY BlockSizeAssumption
<1>2. \A k \in 1 .. n + 1 : Match(k - 1, (k - 1) * BlockSize) \in Instruction
  BY <1>1, EmptySeq DEF Match, Instruction
<1>3. /\ rs \in Seq(Instruction) /\ Len(rs) = n
      /\ \A k \in 1 .. n : rs[k] = Match(k - 1, (k - 1) * BlockSize)
  <2>1. rs \in [1 .. n -> Instruction]
    BY <1>2 DEF BlocksInOrder
  <2> QED BY <2>1, LenProperties DEF BlocksInOrder
<1>4. /\ ss \in Seq(Instruction) /\ Len(ss) = n + 1
      /\ \A k \in 1 .. n + 1 : ss[k] = Match(k - 1, (k - 1) * BlockSize)
  <2>1. ss \in [1 .. n + 1 -> Instruction]
    BY <1>2 DEF BlocksInOrder
  <2> QED BY <2>1, LenProperties DEF BlocksInOrder
<1>5. one \in Instruction
  BY <1>0, EmptySeq DEF Match, Instruction
<1>6. (n + 1) - 1 = n
  OBVIOUS
<1>7. ss[n + 1] = one
  BY <1>4, <1>6
<1> HIDE DEF rs, ss, one
<1>8. all \in Seq(Instruction) /\ Len(all) = n + 1 /\ all[n + 1] = one
      /\ \A k \in 1 .. n : all[k] = rs[k]
  BY <1>3, <1>5, AppendProperties
<1> HIDE DEF all
<1>9. \A k \in 1 .. n + 1 : all[k] = ss[k]
  BY <1>3, <1>4, <1>7, <1>8
<1>10. all = ss
  BY <1>4, <1>8, <1>9, SeqEqual
<1> QED BY <1>10 DEF all, rs, ss, one

\* A source equal to the basis, in a table that loses no block.
OwnBasis == data = basis /\ Len(data) >= BlockSize /\ AmpleProbes

\* Each window has been the block wanted next.
InStep ==
  /\ offset = lastMatch /\ offset = wantIdx * BlockSize
  /\ results = BlocksInOrder(wantIdx)

OrderedInv ==
  /\ pc \in {"scan", "tail"} /\ OwnBasis => InStep
  /\ IdenticalInOrder

LEMMA OwnBasisStays ==
  ASSUME UNCHANGED engineVars, UNCHANGED data
  PROVE  OwnBasis' <=> OwnBasis
BY DEF OwnBasis, engineVars, AmpleProbes

\* What the last step of a search has to show.
LEMMA ReturnsInOrder ==
  ASSUME UNCHANGED engineVars, UNCHANGED data, pc' = "returned",
         OwnBasis => results' = BlocksInOrder(NumBlocks(basis))
  PROVE  OrderedInv'
<1>1. basis' = basis /\ data' = data /\ AmpleProbes' = AmpleProbes
  BY DEF engineVars, AmpleProbes
<1>2. OwnBasis => results' = [k \in 1 .. NumBlocks(basis) |-> Match(k - 1, (k - 1) * BlockSize)]
  BY DEF BlocksInOrder
<1> QED BY <1>1, <1>2 DEF OrderedInv, IdenticalInOrder, OwnBasis

LEMMA SearchLiteralsOrdered ==
  ASSUME IInv, ChainInv, SearchLiterals
  PROVE  OrderedInv'
<1>1. /\ UNCHANGED engineVars /\ UNCHANGED data /\ pc' = "returned"
      /\ basis \in Seq(Byte)
      /\ checksums = << >> \/ Len(data) < BlockSize
      /\ checksums = Signature(basis)
  BY DEF SearchLiterals, IInv, TypeOK, ChainInv
<1>2. ~ OwnBasis
  <2> SUFFICES ASSUME OwnBasis PROVE FALSE
    OBVIOUS
  <2>1. /\ Len(basis) \in Nat /\ BlockSize \in Nat \ {0} /\ Len(basis) >= BlockSize
        /\ checksums = << >>
    BY <1>1, LenProperties, BlockSizeAssumption DEF OwnBasis
  <2>2. 0 * BlockSize < Len(basis)
    BY <2>1
  <2>3. 0 \in 0 .. NumBlocks(basis) - 1
    BY <1>1, <2>2, BlocksCounted
  <2>4. Len(Signature(basis)) = NumBlocks(basis) /\ Len(<< >>) = 0
    <3>1. Len(<< >>) = 0
      BY EmptySeq
    <3> QED BY <1>1, <3>1, SignatureEntries
  <2> QED BY <1>1, <2>1, <2>3, <2>4
<1> QED BY <1>1, <1>2, ReturnsInOrder

LEMMA SearchBeginOrdered ==
  ASSUME IInv, ChainInv, FoundInv, SearchBegin
  PROVE  OrderedInv'
<1>1. /\ pc' = "scan" /\ offset' = 0 /\ lastMatch' = 0 /\ wantIdx' = 0 /\ results' = << >>
  BY DEF SearchBegin, IInv, ScanInv, FoundInv
<1>2. BlocksInOrder(0) = << >>
  BY DEF BlocksInOrder
<1>3. 0 * BlockSize = 0
  BY BlockSizeAssumption
<1> QED BY <1>1, <1>2, <1>3 DEF OrderedInv, InStep, IdenticalInOrder

\* In step, the window is the block wanted, and so known.
LEMMA WindowIsWanted ==
  ASSUME IInv, ChainInv, OrderedInv, pc = "scan", offset + BlockSize <= Len(data), OwnBasis
  PROVE  /\ wantIdx \in 0 .. NumBlocks(basis) - 1 /\ wantIdx \in Nat
         /\ Block(basis, wantIdx) = Window
         /\ wantIdx \in Candidates(basis, KnownBlocks, Window)
         /\ wantIdx < NumBlocks(basis)
<1>1. /\ Loaded /\ basis \in Seq(Byte) /\ offset \in Nat /\ wantIdx \in Nat
      /\ BlockSize \in Nat \ {0} /\ offset = wantIdx * BlockSize /\ data = basis
      /\ Len(basis) \in Nat /\ NumBlocks(basis) \in Nat
  <2>1. Len(checksums) = NumBlocks(basis) /\ Len(checksums) \in Nat
    BY Searching, LoadedFacts
  <2>2. offset = wantIdx * BlockSize /\ data = basis
    BY DEF OrderedInv, InStep, OwnBasis
  <2> QED BY <2>1, <2>2, Searching
<1>2. offset < Len(basis) /\ offset + BlockSize <= Len(basis)
  BY <1>1
<1>3. wantIdx \in 0 .. NumBlocks(basis) - 1
  <2>1. wantIdx * BlockSize < Len(basis)
    BY <1>1, <1>2
  <2> QED BY <1>1, <2>1, BlocksCounted
<1>4. Block(basis, wantIdx) = Window
  <2>1. Block(basis, wantIdx) = Slice(basis, offset, offset + BlockSize)
    BY <1>1, <1>2, BlockAt
  <2> QED BY <1>1, <2>1 DEF Window
<1>5. wantIdx \in KnownBlocks
  <2>1. AmpleProbes
    BY DEF OwnBasis
  <2> QED BY <1>1, <1>3, <2>1, AllKnown
<1> QED BY <1>1, <1>3, <1>4, <1>5 DEF Candidates

\* No literal before a match at lastMatch.
LEMMA EmptyChunks ==
  ASSUME NEW d \in Seq(Byte), NEW lo \in Nat, lo <= Len(d), NEW rs \in Seq(Instruction)
  PROVE  rs \o Chunks(Slice(d, lo, lo), lo) = rs
<1> DEFINE s == Slice(d, lo, lo)
<1>1. s \in Seq(Byte) /\ Len(s) = 0
  <2>1. s \in Seq(Byte) /\ Len(s) = lo - lo
    BY SliceType
  <2> QED BY <2>1
<1> HIDE DEF s
<1>2. (Len(s) + ChunkSize - 1) \div ChunkSize = 0
  BY <1>1, ChunkSizeAssumption
<1>3. Chunks(s, lo) = << >>
  BY <1>2 DEF Chunks
<1>4. rs \o << >> = rs
  BY ConcatEmptySeq
<1> QED BY <1>3, <1>4 DEF s

LEMMA ScanMatchOrdered ==
  ASSUME IInv, ChainInv, OrderedInv, ScanMatch
  PROVE  OrderedInv'
<1> DEFINE w == Window
           v == Value(rolling)
<1>1. /\ pc = "scan" /\ offset + BlockSize <= Len(data) /\ pc' = "scan"
      /\ offset' = offset + BlockSize /\ lastMatch' = offset + BlockSize
      /\ UNCHANGED engineVars /\ UNCHANGED data
  BY DEF ScanMatch
<1>2. PICK k \in Compared(v) :
        /\ Agrees(v, w, k)
        /\ \A j \in Compared(v) : j < k => ~ Agrees(v, w, j)
        /\ wantIdx' = Preferred(v, w, k) + 1
        /\ results' = Append(EmitLiterals(lastMatch, offset),
                             Match(Preferred(v, w, k), offset))
  BY DEF ScanMatch
<1>3. ASSUME OwnBasis
      PROVE  InStep'
  <2>1. /\ wantIdx \in Nat /\ wantIdx < NumBlocks(basis) /\ Block(basis, wantIdx) = w
    BY <1>1, <1>3, WindowIsWanted
  <2>2. /\ offset = lastMatch /\ offset = wantIdx * BlockSize
        /\ results = BlocksInOrder(wantIdx)
    BY <1>1, <1>3 DEF OrderedInv, InStep
  <2>3. /\ Loaded /\ data \in Seq(Byte) /\ results \in Seq(Instruction)
        /\ lastMatch \in Nat /\ lastMatch <= Len(data) /\ BlockSize \in Nat \ {0}
    BY <1>1, Searching
  <2>4. w \in Seq(Byte) /\ Len(w) = BlockSize /\ v = Checksum1(w) /\ Checksum1(w) \in Nat
    BY <1>1, WindowSum
  <2> HIDE DEF w, v
  <2>5. Preferred(v, w, k) = wantIdx
    <3>1. Len(w) <= BlockSize
      BY <2>3, <2>4
    <3>2. /\ k \in Compared(Checksum1(w)) /\ Agrees(Checksum1(w), w, k)
          /\ \A j \in Compared(Checksum1(w)) : j < k => ~ Agrees(Checksum1(w), w, j)
      BY <1>2, <2>4
    <3>3. Preferred(Checksum1(w), w, k) = Chosen(basis, KnownBlocks, w, wantIdx)
      BY <2>3, <2>4, <3>1, <3>2, PreferredIsChosen
    <3> QED BY <2>1, <2>4, <3>3 DEF Chosen
  <2>6. EmitLiterals(lastMatch, offset) = results
    BY <2>2, <2>3, EmptyChunks DEF EmitLiterals
  <2>7. results' = BlocksInOrder(wantIdx + 1) /\ wantIdx' = wantIdx + 1
    <3>1. results' = Append(BlocksInOrder(wantIdx), Match(wantIdx, offset))
      BY <1>2, <2>2, <2>5, <2>6
    <3> QED BY <1>2, <2>1, <2>2, <2>5, <3>1, OneBlockMore
  <2>8. (wantIdx + 1) * BlockSize = offset + BlockSize
    BY <2>1, <2>2, <2>3
  <2> QED BY <1>1, <2>7, <2>8 DEF InStep
<1> QED BY <1>1, <1>3, OwnBasisStays DEF OrderedInv, IdenticalInOrder

LEMMA ScanMissOrdered ==
  ASSUME IInv, ChainInv, OrderedInv, ScanMiss
  PROVE  OrderedInv'
<1> DEFINE w == Window
           v == Value(rolling)
<1>1. /\ pc = "scan" /\ offset + BlockSize <= Len(data) /\ pc' = "scan"
      /\ UNCHANGED engineVars /\ UNCHANGED data
      /\ \A k \in Compared(v) : ~ Agrees(v, w, k)
  BY DEF ScanMiss
<1>2. ~ OwnBasis
  <2> SUFFICES ASSUME OwnBasis PROVE FALSE
    OBVIOUS
  <2>1. wantIdx \in Candidates(basis, KnownBlocks, w)
    BY <1>1, WindowIsWanted
  <2>2. Loaded /\ BlockSize \in Nat \ {0}
    BY <1>1, Searching
  <2>3. w \in Seq(Byte) /\ Len(w) = BlockSize /\ v = Checksum1(w) /\ Checksum1(w) \in Nat
    BY <1>1, WindowSum
  <2> HIDE DEF w, v
  <2>4. Len(w) <= BlockSize /\ \A k \in Compared(Checksum1(w)) : ~ Agrees(Checksum1(w), w, k)
    BY <1>1, <2>2, <2>3
  <2> QED BY <2>1, <2>2, <2>3, <2>4, MissMeansNone
<1> QED BY <1>1, <1>2, OwnBasisStays DEF OrderedInv, IdenticalInOrder

LEMMA TailOrdered ==
  ASSUME IInv, ChainInv, FoundInv, OrderedInv, TailMatch \/ TailLiterals
  PROVE  OrderedInv'
<1>1. /\ pc = "tail" /\ pc' = "returned" /\ UNCHANGED engineVars /\ UNCHANGED data
  BY DEF TailMatch, TailLiterals
<1>2. ASSUME OwnBasis
      PROVE  results' = BlocksInOrder(NumBlocks(basis))
  <2>1. /\ offset = lastMatch /\ lastMatch = wantIdx * BlockSize
        /\ results = BlocksInOrder(wantIdx) /\ data = basis
        /\ offset + BlockSize > Len(data)
    BY <1>1, <1>2 DEF OrderedInv, InStep, OwnBasis, FoundInv
  <2>2. /\ Loaded /\ basis \in Seq(Byte) /\ results \in Seq(Instruction)
        /\ TailBytes \in Seq(Byte) /\ Len(basis) \in Nat /\ Len(checksums) \in Nat
        /\ lastMatch \in Nat /\ lastMatch <= Len(basis) /\ wantIdx \in Nat
        /\ BlockSize \in Nat \ {0} /\ Len(checksums) = NumBlocks(basis)
    BY <1>1, <2>1, AtTail, Searching, LoadedFacts
  <2>3. CASE lastMatch < Len(basis)
    <3>1. NumBlocks(basis) = wantIdx + 1 /\ wantIdx \in 0 .. NumBlocks(basis) - 1
      <4>1. /\ wantIdx * BlockSize < Len(basis)
            /\ Len(basis) <= wantIdx * BlockSize + BlockSize
        BY <2>1, <2>2, <2>3
      <4> QED BY <2>2, <4>1, BlocksCounted
    <3>2. Block(basis, wantIdx) = TailBytes
      <4>1. Block(basis, wantIdx) = Slice(basis, lastMatch, Len(basis))
        BY <2>1, <2>2, BlockAt
      <4> QED BY <2>1, <4>1 DEF TailBytes
    <3>3. TailIsBlock(wantIdx)
      <4>1. lastMatch % BlockSize = 0 /\ lastMatch \div BlockSize = wantIdx
        BY <2>1, <2>2, QuotientOf
      <4> QED BY <2>2, <3>1, <3>2, <4>1 DEF TailIsBlock
    <3>4. wantIdx + 1 \in 1 .. Len(checksums) /\ (wantIdx + 1) - 1 = wantIdx
      BY <2>2, <3>1
    <3>5. TailBlocks # {}
      <4> DEFINE i == wantIdx + 1
      <4>1. i \in 1 .. Len(checksums) /\ TailIsBlock(i - 1)
        BY <3>3, <3>4
      <4> HIDE DEF i
      <4>2. i \in TailBlocks
        BY <2>2, <4>1, TailBlocksAre
      <4> QED BY <4>2
    <3>6. TailMatch
      BY <2>1, <2>3, <3>5 DEF TailLiterals
    <3>7. PICK i \in TailBlocks :
            results' = Append(results, Match(checksums[i].index, lastMatch))
      BY <3>6 DEF TailMatch
    <3>8. i \in 1 .. Len(checksums)
      BY DEF TailBlocks
    <3>9. checksums[i].index = i - 1 /\ TailIsBlock(i - 1)
      BY <2>2, <3>8, TailBlocksAre
    <3>10. i - 1 = wantIdx
      BY <3>3, <3>9 DEF TailIsBlock
    <3>11. results' = Append(BlocksInOrder(wantIdx), Match(wantIdx, lastMatch))
      BY <2>1, <3>7, <3>9, <3>10
    <3> QED BY <2>1, <2>2, <3>1, <3>11, OneBlockMore
  <2>4. CASE ~ (lastMatch < Len(basis))
    <3>1. lastMatch = Len(basis)
      BY <2>2, <2>4
    <3>2. NumBlocks(basis) = wantIdx
      BY <2>1, <2>2, <3>1, BlocksCounted
    <3>3. results' = results \o Chunks(Slice(basis, lastMatch, lastMatch), lastMatch)
      BY <2>1, <2>4, <3>1 DEF TailMatch, TailLiterals, EmitLiterals
    <3>4. results' = results
      BY <2>2, <3>3, EmptyChunks
    <3> QED BY <2>1, <3>2, <3>4
  <2> QED BY <2>3, <2>4
<1> QED BY <1>1, <1>2, ReturnsInOrder

LEMMA NextOrdered ==
  ASSUME IInv, ChainInv, FoundInv, OrderedInv, [Next]_vars
  PROVE  OrderedInv'
<1>0. ASSUME pc' \in {"idle", "build", "called"} PROVE OrderedInv'
  BY <1>0 DEF OrderedInv, IdenticalInOrder
<1>1. CASE LoadNil \/ InsertBlock \/ Built
  BY <1>0, <1>1 DEF LoadNil, InsertBlock, Built
<1>2. ASSUME NEW f \in Bases, LoadSignature(f) PROVE OrderedInv'
  BY <1>0, <1>2 DEF LoadSignature
<1>3. ASSUME NEW d \in Inputs, Search(d) PROVE OrderedInv'
  BY <1>0, <1>3 DEF Search
<1>4. CASE SearchLiterals
  BY <1>4, SearchLiteralsOrdered
<1>5. CASE SearchBegin
  BY <1>5, SearchBeginOrdered
<1>6. CASE ScanMatch
  BY <1>6, ScanMatchOrdered
<1>7. CASE ScanMiss
  BY <1>7, ScanMissOrdered
<1>8. CASE ScanEnd
  <2>1. /\ pc = "scan" /\ pc' = "tail" /\ UNCHANGED engineVars
        /\ UNCHANGED << data, offset, lastMatch, wantIdx, results >>
    BY <1>8 DEF ScanEnd, searchVars
  <2> QED BY <2>1, OwnBasisStays DEF OrderedInv, InStep, IdenticalInOrder
<1>9. CASE TailMatch \/ TailLiterals
  BY <1>9, TailOrdered
<1>10. CASE UNCHANGED vars \/ Rest
  <2>1. UNCHANGED engineVars /\ UNCHANGED << pc, data, offset, lastMatch, wantIdx, results >>
    BY <1>10 DEF Rest, vars, searchVars
  <2>2. basis' = basis /\ AmpleProbes' = AmpleProbes
    BY <2>1 DEF engineVars, AmpleProbes
  <2> QED BY <2>1, <2>2 DEF OrderedInv, OwnBasis, InStep, IdenticalInOrder
<1> QED BY <1>1, <1>2, <1>3, <1>4, <1>5, <1>6, <1>7, <1>8, <1>9, <1>10
       DEF Next, Progress, SearchProgress

-----------------------------------------------------------------------------
(* What Search finds *)

\* The invariant of the table and of what it leads to.
ExactInv == IInv /\ ChainInv /\ FoundInv /\ NoBlockMissed /\ OrderedInv

\* It holds however often the engine is loaded, searched and loaded again.
THEOREM Exactness == Spec => []ExactInv
<1>1. Init => ExactInv
  <2>1. Init => NoBlockMissed /\ OrderedInv
    BY DEF Init, NoBlockMissed, OrderedInv, IdenticalInOrder
  <2> QED BY <2>1, InitIInv, InitChains, InitFinds DEF ExactInv
<1>2. ExactInv /\ [Next]_vars => ExactInv'
  BY NextIInv, NextChains, NextFinds, NextMisses, NextOrdered DEF ExactInv
<1> QED BY <1>1, <1>2, PTL DEF Spec

\* buildHashTable's linear probing loses no block, whatever the table size and
\* however the weak checksums collide or wrap around its end.
THEOREM TableLosesNone == Spec => []ProbeChainsUnbroken
<1>1. ExactInv => ProbeChainsUnbroken
  BY ChainsUnbroken DEF ExactInv
<1> QED BY <1>1, Exactness, PTL

\* What Search returns is SearchResult of the basis, the blocks the table leads
\* to and the data: neither the order of the table, nor the rolling of the sum,
\* nor false alarms, nor the searches before it have a part in it.
THEOREM SearchComputes == Spec => []ComputesSearchResult
<1>1. ExactInv => ComputesSearchResult
  BY DEF ExactInv, FoundInv
<1> QED BY <1>1, Exactness, PTL

\* While maxProbeLen and maxChainLen cut no probe short, no window equal to a
\* block is passed over.
THEOREM FindsEveryBlock == Spec => []NoBlockMissed
<1>1. ExactInv => NoBlockMissed
  BY DEF ExactInv
<1> QED BY <1>1, Exactness, PTL

\* wantIdx keeps a copy of the basis in step with it, also where blocks repeat,
\* and the tail match sends its short last block.
THEOREM CopySentAsBlocks == Spec => []IdenticalInOrder
<1>1. ExactInv => IdenticalInOrder
  BY DEF ExactInv, OrderedInv
<1> QED BY <1>1, Exactness, PTL

-----------------------------------------------------------------------------
(* Search implements the abstract sender *)

LEMMA SameRebuilds ==
  ASSUME NEW b, NEW d, NEW r, NEW hi
  PROVE  Sender!Rebuilds(b, d, r, hi) = Rebuilds(b, d, r, hi)
BY DEF Sender!Rebuilds, Rebuilds, Sender!Covers, Covers, Sender!EndOf, EndOf,
       Sender!Apply, Apply, Sender!Block, Block, Sender!BlockEnd, BlockEnd,
       Sender!Slice, Slice, Sender!Least, Least

\* What a step of the scan adds to the results comes after what was there.
LEMMA Grown ==
  ASSUME NEW r \in Seq(Instruction), NEW t \in Seq(Instruction)
  PROVE  /\ Len(r) <= Len(r \o t)
         /\ r = SubSeq(r \o t, 1, Len(r))
<1>1. Len(r \o t) = Len(r) + Len(t) /\ Len(r) \in Nat /\ Len(t) \in Nat
  BY ConcatProperties, LenProperties
<1>2. r = SubSeq(r \o t, 1, Len(r))
  BY SubSeqOfConcat1
<1> QED BY <1>1, <1>2

LEMMA EmitGrows ==
  ASSUME TypeOK, NEW lo \in Nat, NEW hi \in Nat, lo <= hi, hi <= Len(data)
  PROVE  /\ EmitLiterals(lo, hi) \in Seq(Instruction)
         /\ Len(results) <= Len(EmitLiterals(lo, hi))
         /\ results = SubSeq(EmitLiterals(lo, hi), 1, Len(results))
<1> DEFINE cs == Chunks(Slice(data, lo, hi), lo)
<1>1. cs \in Seq(Instruction) /\ results \in Seq(Instruction)
  BY ChunksCover DEF TypeOK
<1> HIDE DEF cs
<1> QED BY <1>1, Grown, ConcatProperties DEF EmitLiterals, cs

LEMMA AppendGrows ==
  ASSUME NEW r \in Seq(Instruction), NEW t \in Seq(Instruction), NEW m \in Instruction,
         Len(r) <= Len(t), r = SubSeq(t, 1, Len(r))
  PROVE  /\ Len(r) <= Len(Append(t, m))
         /\ r = SubSeq(Append(t, m), 1, Len(r))
<1> DEFINE u == Append(t, m)
           n == Len(r)
<1>1. /\ u \in Seq(Instruction) /\ Len(u) = Len(t) + 1 /\ Len(t) \in Nat /\ n \in Nat
      /\ \A i \in 1 .. Len(t) : u[i] = t[i]
  BY AppendProperties, LenProperties
<1>2. n <= Len(t) /\ r = SubSeq(t, 1, n) /\ n = Len(r)
  OBVIOUS
<1> HIDE DEF u, n
<1>3. n <= Len(u)
  BY <1>1, <1>2
<1>4. \A i \in 1 .. n : r[i] = t[i]
  BY <1>1, <1>2, PrefixType
<1>5. /\ SubSeq(u, 1, n) \in Seq(Instruction) /\ Len(SubSeq(u, 1, n)) = n
      /\ \A i \in 1 .. n : SubSeq(u, 1, n)[i] = u[i]
  BY <1>1, <1>3, PrefixType
<1>6. \A i \in 1 .. n : SubSeq(u, 1, n)[i] = r[i]
  <2>1. \A i \in 1 .. n : i \in 1 .. Len(t)
    BY <1>1, <1>2
  <2> QED BY <1>1, <1>4, <1>5, <2>1
<1>7. SubSeq(u, 1, n) = r
  BY <1>2, <1>5, <1>6, SeqEqual
<1> QED BY <1>1, <1>3, <1>7 DEF u, n

LEMMA VerdictOf ==
  ASSUME TypeOK
  PROVE  /\ pc \in {"idle", "build"} => Verdict = "idle"
         /\ pc \in {"called", "scan", "tail"} => Verdict = "open"
         /\ pc = "returned" => Verdict = "ok"
BY DEF Verdict

\* A step that changes none of what the abstract sender has is a stutter.
LEMMA Stutters ==
  ASSUME UNCHANGED << basis, data, results >>, Verdict' = Verdict
  PROVE  UNCHANGED Sender!senderVars
BY DEF Sender!senderVars

\* Instructions handed over while the call goes on, and when it returns.
LEMMA HandsOver ==
  ASSUME IInv, IInv', Verdict = "open", UNCHANGED << basis, data >>,
         Len(results) <= Len(results'), results = SubSeq(results', 1, Len(results)),
         NEW hi \in 0 .. Len(data), Rebuilds(basis, data, results', hi),
         \/ Verdict' = "open"
         \/ Verdict' = "ok" /\ hi = Len(data)
  PROVE  Sender!SenderNext
<1>1. Sender!ExtendTo(hi)
  BY SameRebuilds DEF Sender!ExtendTo
<1>2. CASE Verdict' = "open"
  BY <1>1, <1>2 DEF Sender!SenderNext, Sender!Deliver
<1>3. CASE Verdict' = "ok" /\ hi = Len(data)
  BY <1>1, <1>3 DEF Sender!SenderNext, Sender!Complete
<1> QED BY <1>2, <1>3

LEMMA ScanMatchHandsOver ==
  ASSUME IInv, IInv', ScanMatch
  PROVE  Sender!SenderNext
<1>0. /\ pc = "scan" /\ pc' = "scan" /\ UNCHANGED << basis, data >>
      /\ lastMatch' = offset + BlockSize /\ offset + BlockSize <= Len(data)
      /\ TypeOK /\ TypeOK' /\ ScanInv /\ ResultsRebuildData'
  BY DEF ScanMatch, engineVars, IInv
<1>1. /\ lastMatch' \in 0 .. Len(data)
      /\ lastMatch \in Nat /\ offset \in Nat /\ lastMatch <= offset /\ offset <= Len(data)
      /\ Rebuilds(basis, data, results', lastMatch')
  <2>1. lastMatch \in Nat /\ offset \in Nat /\ data \in Seq(Byte) /\ lastMatch <= offset
    BY <1>0 DEF TypeOK, ScanInv
  <2>2. Len(data) \in Nat /\ BlockSize \in Nat
    BY <2>1, LenProperties, BlockSizeAssumption
  <2>3. Rebuilds(basis, data, results', lastMatch')
    BY <1>0 DEF ResultsRebuildData
  <2> QED BY <1>0, <2>1, <2>2, <2>3
<1>2. \E i : results' = Append(EmitLiterals(lastMatch, offset), Match(i, offset))
  BY DEF ScanMatch
<1>3. Len(results) <= Len(results') /\ results = SubSeq(results', 1, Len(results))
  <2> DEFINE r == EmitLiterals(lastMatch, offset)
  <2>1. /\ r \in Seq(Instruction) /\ results \in Seq(Instruction)
        /\ Len(results) <= Len(r) /\ results = SubSeq(r, 1, Len(results))
    BY <1>0, <1>1, EmitGrows DEF TypeOK
  <2>2. PICK m : results' = Append(r, m)
    BY <1>2
  <2>3. m \in Instruction
    <3> HIDE DEF r
    <3>1. results' \in Seq(Instruction) /\ Len(r) \in Nat
      BY <1>0, <2>1, LenProperties DEF TypeOK
    <3>2. results'[Len(r) + 1] = m /\ Len(results') = Len(r) + 1
      BY <2>1, <2>2
    <3>3. Len(r) + 1 \in 1 .. Len(results')
      BY <3>1, <3>2
    <3> QED BY <3>1, <3>2, <3>3, ElementOfSeq
  <2> HIDE DEF r
  <2> QED BY <2>1, <2>2, <2>3, AppendGrows
<1>4. Verdict = "open" /\ Verdict' = "open"
  BY <1>0 DEF Verdict
<1> QED BY <1>0, <1>1, <1>3, <1>4, HandsOver

LEMMA EmitHandsOver ==
  ASSUME IInv, IInv', pc \in {"called", "tail"}, pc' = "returned",
         UNCHANGED << basis, data >>,
         NEW lo \in Nat, lo <= Len(data), results' = EmitLiterals(lo, Len(data))
  PROVE  Sender!SenderNext
<1> DEFINE n == Len(data)
<1>1. n \in Nat /\ n <= Len(data) /\ TypeOK /\ n \in 0 .. Len(data) /\ lo <= n
  <2>1. TypeOK /\ data \in Seq(Byte)
    BY DEF IInv, TypeOK
  <2>2. n \in Nat
    BY <2>1, LenProperties
  <2> QED BY <2>1, <2>2
<1>2. Rebuilds(basis, data, results', n)
  BY DEF IInv, ResultsRebuildData
<1>3. results' = EmitLiterals(lo, n) /\ n = Len(data)
  OBVIOUS
<1> HIDE DEF n
<1>4. Len(results) <= Len(results') /\ results = SubSeq(results', 1, Len(results))
  BY <1>1, <1>3, EmitGrows
<1>5. Verdict = "open" /\ Verdict' = "ok"
  BY DEF Verdict
<1> QED BY <1>1, <1>2, <1>3, <1>4, <1>5, HandsOver

LEMMA TailMatchHandsOver ==
  ASSUME IInv, IInv', TailMatch
  PROVE  Sender!SenderNext
<1>1. /\ pc = "tail" /\ pc' = "returned" /\ UNCHANGED << basis, data >>
      /\ results \in Seq(Instruction) /\ results' \in Seq(Instruction)
      /\ Len(data) \in 0 .. Len(data) /\ Rebuilds(basis, data, results', Len(data))
  BY LenProperties DEF TailMatch, engineVars, IInv, TypeOK, ResultsRebuildData
<1>2. PICK m : results' = Append(results, m)
  BY DEF TailMatch
<1>3. Len(results) \in Nat /\ Len(results') = Len(results) + 1
      /\ results'[Len(results) + 1] = m
  BY <1>1, <1>2, LenProperties
<1>4. m \in Instruction
  <2>1. Len(results) + 1 \in 1 .. Len(results')
    BY <1>3
  <2> QED BY <1>1, <1>3, <2>1, ElementOfSeq
<1>5. results' = results \o << m >> /\ << m >> \in Seq(Instruction)
  BY <1>1, <1>2, <1>4, AppendIsConcat
<1>6. Len(results) <= Len(results') /\ results = SubSeq(results', 1, Len(results))
  BY <1>1, <1>5, Grown
<1>7. Verdict = "open" /\ Verdict' = "ok"
  BY <1>1 DEF Verdict
<1> QED BY <1>1, <1>6, <1>7, HandsOver

LEMMA SenderStep ==
  ASSUME IInv, IInv', [Next]_vars
  PROVE  [Sender!SenderNext]_(Sender!senderVars)
<1>1. ASSUME NEW f \in Bases, LoadSignature(f)
      PROVE  Sender!SenderNext
  <2>1. Verdict # "open" /\ Verdict' = "idle"
    BY <1>1 DEF LoadSignature, AtRest, Verdict
  <2> QED BY <1>1, <2>1 DEF LoadSignature, Sender!SenderNext, Sender!UseSignature
<1>2. CASE LoadNil
  <2>1. Verdict # "open" /\ Verdict' = "idle"
    BY <1>2 DEF LoadNil, AtRest, Verdict
  <2> QED BY <1>2, <2>1 DEF LoadNil, Sender!SenderNext, Sender!UseSignature
<1>3. ASSUME NEW d \in Inputs, Search(d)
      PROVE  Sender!SenderNext
  <2>1. Verdict # "open" /\ Verdict' = "open"
    BY <1>3 DEF Search, AtRest, Verdict
  <2> QED BY <1>3, <2>1 DEF Search, engineVars, Sender!SenderNext, Sender!Begin
<1>4. CASE InsertBlock \/ Built \/ SearchBegin \/ ScanMiss \/ ScanEnd
  <2>1. UNCHANGED << basis, data, results >>
    BY <1>4 DEF InsertBlock, Built, SearchBegin, ScanMiss, ScanEnd, engineVars, searchVars
  <2>2. Verdict' = Verdict
    BY <1>4 DEF InsertBlock, Built, SearchBegin, ScanMiss, ScanEnd, Verdict
  <2> QED BY <2>1, <2>2, Stutters
<1>5. CASE SearchLiterals
  <2>1. 0 \in Nat /\ 0 <= Len(data)
    BY LenProperties DEF IInv, TypeOK
  <2> QED BY <1>5, <2>1, EmitHandsOver DEF SearchLiterals, engineVars
<1>6. CASE ScanMatch
  BY <1>6, ScanMatchHandsOver
<1>7. CASE TailMatch
  BY <1>7, TailMatchHandsOver
<1>8. CASE TailLiterals
  <2>1. lastMatch \in Nat /\ lastMatch <= Len(data)
    BY <1>8 DEF TailLiterals, IInv, TypeOK, ScanInv
  <2> QED BY <1>8, <2>1, EmitHandsOver DEF TailLiterals, engineVars
<1>9. CASE UNCHANGED vars
  BY <1>9, Stutters DEF vars, engineVars, searchVars, Verdict
<1>10. CASE Rest
  BY <1>9, <1>10 DEF Rest
<1> QED BY <1>1, <1>2, <1>3, <1>4, <1>5, <1>6, <1>7, <1>8, <1>9, <1>10 DEF Next, Progress, SearchProgress

\* Search keeps the sender's promise: results are only appended to, at every
\* moment they rebuild a prefix of the data, and a Search that has returned
\* has handed over the whole of it.
THEOREM SearchIsSender == Spec => SenderSpec
<1>1. Init => Sender!SenderInit
  BY DEF Init, Sender!SenderInit, Verdict
<1>2. IInv /\ IInv' /\ [Next]_vars => [Sender!SenderNext]_(Sender!senderVars)
  BY SenderStep
<1> QED BY <1>1, <1>2, Invariant, PTL DEF Spec, SenderSpec, Sender!SenderSpec
=============================================================================
