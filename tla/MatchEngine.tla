----------------------------- MODULE MatchEngine -----------------------------
(***************************************************************************)
(* The match engine (engine.go) and its batch Search (search.go): a        *)
(* signature is loaded into an open-addressing hash table, and a source    *)
(* file is scanned for the blocks of that signature.                       *)
(*                                                                         *)
(* An engine is reused: its caller may load signatures and search in any   *)
(* order, and the statistics accumulate over the searches.  One step of    *)
(* the specification is one turn of the code's loops: a block inserted,    *)
(* an offset scanned, the tail settled.                                    *)
(***************************************************************************)
EXTENDS SearchResults

CONSTANTS
  Bases,       \* the receiver's files, whose signatures are loaded
  Inputs,      \* the source files that are searched
  MaxProbe,    \* maxProbeLen, 32 in the code
  MaxChain,    \* maxChainLen, 1024 in the code
  TableSizes,  \* the powers of two a table may be made of
  MinTable,    \* the smallest table, 65536 entries in the code
  Crowded,     \* more blocks than this get more than MinTable, 8192 in the code
  MaxCalls     \* bound: calls of LoadSignature and Search on one engine

ASSUME BasesAssumption == Bases \subseteq Seq(Byte)
ASSUME InputsAssumption == Inputs \subseteq Seq(Byte)
ASSUME BoundsAssumption ==
  /\ MaxProbe \in Nat \ {0} /\ MaxChain \in Nat
  /\ TableSizes \subseteq Nat \ {0} /\ MinTable \in TableSizes
  /\ Crowded \in Nat /\ MaxCalls \in Nat
  /\ \A f \in Bases : \E s \in TableSizes : s >= 2 * NumBlocks(f) /\ s >= MinTable

VARIABLES
  pc,         \* "idle", "build", "called", "scan", "tail" or "returned"
  calls,      \* calls made so far
  basis,      \* the file the loaded signature is of
  checksums,  \* checksums: the loaded signature
  tableSize,  \* tableSize
  hashTable,  \* hashTable: packed weak sum and block index + 1, 0 if empty
  data,       \* the argument of the current Search
  rolling,    \* rs
  offset,     \* offset
  lastMatch,  \* lastMatch: everything before it has been emitted
  wantIdx,    \* wantIdx: the block after the last one matched
  results,    \* results
  stats,      \* HashHits, FalseAlarms, Matches, LiteralBytes
  inserted,   \* blocks the loop of buildHashTable has inserted
  before      \* history: stats when the current Search began

engineVars == << basis, checksums, tableSize, hashTable, inserted >>
searchVars == << data, rolling, offset, lastMatch, wantIdx, results, stats, before >>
vars == << pc, calls, engineVars, searchVars >>

Stats == [hashHits : Nat, falseAlarms : Nat, matches : Nat, literalBytes : Nat]
NoStats == [hashHits |-> 0, falseAlarms |-> 0, matches |-> 0, literalBytes |-> 0]
Empty == [sum1 |-> 0, idx |-> 0]
AtRest == pc \in {"idle", "returned"}

Init ==
  /\ pc = "idle" /\ calls = 0
  /\ basis = << >> /\ checksums = << >>
  /\ tableSize = 1 /\ hashTable = [h \in 0 .. 0 |-> Empty] /\ inserted = 0
  /\ data = << >> /\ rolling = [s1 |-> 0, s2 |-> 0]
  /\ offset = 0 /\ lastMatch = 0 /\ wantIdx = 0 /\ results = << >>
  /\ stats = NoStats /\ before = NoStats

-----------------------------------------------------------------------------
(* LoadSignature and buildHashTable *)

\* The next power of two, but at least MinTable.
RoundUp(n) ==
  CHOOSE s \in TableSizes :
    /\ s >= n /\ s >= MinTable
    /\ \A t \in TableSizes : t >= n /\ t >= MinTable => s <= t

TableCap(n) ==
  LET cap == RoundUp(2 * n)
  IN  IF cap = MinTable /\ n > Crowded THEN 2 * MinTable ELSE cap

\* (v + v >> 16) & tableMask
Home(v) == (v + v \div Mod) % tableSize

Slot(v, k) == hashTable[(Home(v) + k) % tableSize]

FreshTable(n) == [h \in 0 .. TableCap(n) - 1 |-> Empty]

LoadSignature(f) ==
  /\ AtRest /\ calls < MaxCalls
  /\ calls' = calls + 1
  /\ pc' = "build"
  /\ basis' = f
  /\ checksums' = Signature(f)
  /\ tableSize' = TableCap(NumBlocks(f))
  /\ hashTable' = FreshTable(NumBlocks(f))
  /\ inserted' = 0
  /\ results' = << >> /\ data' = << >>
  /\ UNCHANGED << rolling, offset, lastMatch, wantIdx, stats, before >>

\* Mutant: a nil signature is ignored.
KeptChecksums == checksums

NilChecksums == << >>

\* LoadSignature(nil) forgets the checksums and leaves the table as it is.
LoadNil ==
  /\ AtRest /\ calls < MaxCalls
  /\ calls' = calls + 1
  /\ pc' = "idle"
  /\ basis' = << >> /\ checksums' = NilChecksums
  /\ results' = << >> /\ data' = << >>
  /\ UNCHANGED << tableSize, hashTable, inserted >>
  /\ UNCHANGED << rolling, offset, lastMatch, wantIdx, stats, before >>

\* Mutant: any empty slot will do.
AnyEmpty(v, k) == Slot(v, k).idx = 0

FirstEmpty(v, k) ==
  Slot(v, k).idx = 0 /\ \A j \in 0 .. k - 1 : Slot(v, j).idx # 0

\* One turn of the insertion loop: linear probing to the first empty slot.
\* In a full table the code's loop would never end, and here there is no step.
InsertBlock ==
  /\ pc = "build" /\ inserted < Len(checksums)
  /\ LET v == checksums[inserted + 1].sum1
     IN  \E k \in 0 .. tableSize - 1 :
           /\ FirstEmpty(v, k)
           /\ hashTable' = [hashTable EXCEPT ![(Home(v) + k) % tableSize] =
                              [sum1 |-> v, idx |-> inserted + 1]]
  /\ inserted' = inserted + 1
  /\ UNCHANGED << pc, calls, basis, checksums, tableSize, searchVars >>

Built ==
  /\ pc = "build" /\ inserted = Len(checksums)
  /\ pc' = "idle"
  /\ UNCHANGED << calls, engineVars, searchVars >>

-----------------------------------------------------------------------------
(* Search *)

Search(d) ==
  /\ AtRest /\ calls < MaxCalls
  /\ calls' = calls + 1
  /\ pc' = "called"
  /\ data' = d /\ results' = << >> /\ before' = stats
  /\ offset' = 0 /\ lastMatch' = 0 /\ wantIdx' = 0
  /\ UNCHANGED << engineVars, rolling, stats >>

Window == Slice(data, offset, offset + BlockSize)

\* Mutant: the literals replace the results.
EmitAlone(lo, hi) == Chunks(Slice(data, lo, hi), lo)

\* emitLiterals: data[lo:hi] appended in chunks, and what they add to
\* LiteralBytes.
EmitLiterals(lo, hi) == results \o Chunks(Slice(data, lo, hi), lo)

LiteralCost(lo, hi) == hi - lo

\* Nothing to match, or data shorter than a block.
SearchLiterals ==
  /\ pc = "called"
  /\ checksums = << >> \/ Len(data) < BlockSize
  /\ results' = EmitLiterals(0, Len(data))
  /\ stats' = [stats EXCEPT !.literalBytes = @ + LiteralCost(0, Len(data))]
  /\ pc' = "returned"
  /\ UNCHANGED << calls, engineVars, data, rolling, offset, lastMatch, wantIdx, before >>

SearchBegin ==
  /\ pc = "called"
  /\ checksums # << >> /\ Len(data) >= BlockSize
  /\ rolling' = Reset(Slice(data, 0, BlockSize))
  /\ pc' = "scan"
  /\ UNCHANGED << calls, engineVars, data, offset, lastMatch, wantIdx, results, stats, before >>

\* The probe chain of v reaches its k-th slot and finds it occupied.
Reached(v, k) == \A j \in 0 .. k : Slot(v, j).idx # 0

\* The slots whose weak checksum is v and whose strong one is looked at.
Compared(v) ==
  {k \in 0 .. MaxProbe - 1 :
     /\ Reached(v, k)
     /\ Slot(v, k).sum1 = v
     /\ Cardinality({j \in 0 .. k : Slot(v, j).sum1 = v}) <= MaxChain}

Agrees(v, w, k) == checksums[Slot(v, k).idx].sum2 = Strong(w)

HashHits(v) == IF Slot(v, 0).idx # 0 THEN 1 ELSE 0

\* Mutants: the wanted block unchecked; never the wanted block.
PreferredUnchecked(v, w, k) ==
  IF wantIdx < Len(checksums) THEN wantIdx ELSE Slot(v, k).idx - 1
FirstFound(v, w, k) == Slot(v, k).idx - 1

\* The block matched at slot k gives way to the wanted one if they are equal.
Preferred(v, w, k) ==
  IF /\ wantIdx < Len(checksums)
     /\ checksums[wantIdx + 1].sum1 = v
     /\ checksums[wantIdx + 1].sum2 = Strong(w)
  THEN wantIdx
  ELSE Slot(v, k).idx - 1

ScanMatch ==
  /\ pc = "scan" /\ offset + BlockSize <= Len(data)
  /\ LET v == Value(rolling)
         w == Window
     IN  \E k \in Compared(v) :
           /\ Agrees(v, w, k)
           /\ \A j \in Compared(v) : j < k => ~ Agrees(v, w, j)
           /\ wantIdx' = Preferred(v, w, k) + 1
           /\ results' = Append(EmitLiterals(lastMatch, offset),
                                Match(Preferred(v, w, k), offset))
           /\ stats' =
                [hashHits     |-> stats.hashHits + HashHits(v),
                 falseAlarms  |-> stats.falseAlarms
                                  + Cardinality({j \in Compared(v) : j < k}),
                 matches      |-> stats.matches + 1,
                 literalBytes |-> stats.literalBytes + LiteralCost(lastMatch, offset)]
  /\ lastMatch' = offset + BlockSize
  /\ offset' = offset + BlockSize
  /\ rolling' = IF offset' + BlockSize <= Len(data)
                THEN Reset(Slice(data, offset', offset' + BlockSize))
                ELSE rolling
  /\ UNCHANGED << pc, calls, engineVars, data, before >>

\* Mutant: the offset is kept inside the last window.
ClampedOffset == Least(offset + 1, Len(data) - BlockSize)

NextOffset == offset + 1

ScanMiss ==
  /\ pc = "scan" /\ offset + BlockSize <= Len(data)
  /\ LET v == Value(rolling)
     IN  /\ \A k \in Compared(v) : ~ Agrees(v, Window, k)
         /\ stats' = [stats EXCEPT !.hashHits = @ + HashHits(v),
                                   !.falseAlarms = @ + Cardinality(Compared(v))]
  /\ rolling' = IF offset + BlockSize < Len(data)
                THEN Roll(rolling, data[offset + 1],
                          data[offset + BlockSize + 1], BlockSize)
                ELSE rolling
  /\ offset' = NextOffset
  /\ UNCHANGED << pc, calls, engineVars, data, lastMatch, wantIdx, results, before >>

ScanEnd ==
  /\ pc = "scan" /\ offset + BlockSize > Len(data)
  /\ pc' = "tail"
  /\ UNCHANGED << calls, engineVars, searchVars >>

TailBytes == Slice(data, lastMatch, Len(data))

\* Mutant: only full blocks.
FullTailBlocks ==
  {i \in 1 .. Len(checksums) :
     /\ checksums[i].index * BlockSize = lastMatch
     /\ checksums[i].length = BlockSize
     /\ checksums[i].length = Len(TailBytes)}

\* The blocks the unmatched tail may be a reference to: same place in the
\* basis file as in the source, same length, same checksums.
TailBlocks ==
  {i \in 1 .. Len(checksums) :
     /\ checksums[i].index * BlockSize = lastMatch
     /\ checksums[i].length = Len(TailBytes)
     /\ checksums[i].sum1 = Checksum1(TailBytes)
     /\ checksums[i].sum2 = Strong(TailBytes)}

TailMatch ==
  /\ pc = "tail" /\ lastMatch < Len(data)
  /\ \E i \in TailBlocks :
       /\ \A j \in TailBlocks : j <= i
       /\ results' = Append(results, Match(checksums[i].index, lastMatch))
       /\ lastMatch' = lastMatch + checksums[i].length
  /\ stats' = [stats EXCEPT !.matches = @ + 1]
  /\ pc' = "returned"
  /\ UNCHANGED << calls, engineVars, data, rolling, offset, wantIdx, before >>

TailLiterals ==
  /\ pc = "tail" /\ (lastMatch < Len(data) => TailBlocks = {})
  /\ results' = EmitLiterals(lastMatch, Len(data))
  /\ stats' = [stats EXCEPT !.literalBytes = @ + LiteralCost(lastMatch, Len(data))]
  /\ pc' = "returned"
  /\ UNCHANGED << calls, engineVars, data, rolling, offset, lastMatch, wantIdx, before >>

\* The engine's owner has made all the calls the bound allows.
Rest == AtRest /\ calls = MaxCalls /\ UNCHANGED vars

SearchProgress ==
  \/ SearchLiterals \/ SearchBegin
  \/ ScanMatch \/ ScanMiss \/ ScanEnd
  \/ TailMatch \/ TailLiterals

Progress ==
  \/ InsertBlock \/ Built
  \/ SearchProgress

Next ==
  \/ \E f \in Bases : LoadSignature(f)
  \/ LoadNil
  \/ \E d \in Inputs : Search(d)
  \/ Progress
  \/ Rest

Spec == Init /\ [][Next]_vars

\* A call runs on its caller's goroutine until it returns; nothing obliges
\* the caller to make another.
FairSpec == Spec /\ WF_vars(Progress)

-----------------------------------------------------------------------------
(* Properties *)

TypeOK ==
  /\ pc \in {"idle", "build", "called", "scan", "tail", "returned"}
  /\ calls \in Nat
  /\ basis \in Seq(Byte)
  /\ checksums \in Seq(BlockSums)
  /\ tableSize \in Nat \ {0}
  /\ hashTable \in [0 .. tableSize - 1 -> [sum1 : Nat, idx : Nat]]
  /\ inserted \in Nat
  /\ data \in Seq(Byte)
  /\ rolling \in RollingState
  /\ offset \in Nat /\ lastMatch \in Nat /\ wantIdx \in Nat
  /\ results \in Seq(Instruction)
  /\ stats \in Stats /\ before \in Stats

\* The receiver can rebuild from the instructions exactly the data they
\* stand for: everything before lastMatch during the scan, all of it when
\* Search returns.  The rolling sum, the hash table, the probe limit and the
\* tail match may cost matches but never this.
ResultsRebuildData ==
  /\ pc \in {"scan", "tail"} => Rebuilds(basis, data, results, lastMatch)
  /\ pc = "returned" => Rebuilds(basis, data, results, Len(data))

\* At the head of the scan loop the rolling sum is that of the window, by
\* whichever mix of Roll after a miss and Reset after a match it came about.
RollingInSync ==
  pc = "scan" /\ offset + BlockSize <= Len(data) => rolling = Reset(Window)

\* Every block inserted so far is found by probing from its home slot: no
\* empty slot breaks its chain, also when the chain wraps around the table.
ProbeChainsUnbroken ==
  checksums # << >> =>
    \A i \in 1 .. inserted :
      \E k \in 0 .. tableSize - 1 :
        /\ Slot(checksums[i].sum1, k) = [sum1 |-> checksums[i].sum1, idx |-> i]
        /\ Reached(checksums[i].sum1, k)

\* No probe is cut short by the limits: they exceed the number of blocks.
AmpleProbes == MaxProbe > Len(checksums) /\ MaxChain >= Len(checksums)

Scanned == IF pc = "returned" THEN Len(data) ELSE offset

\* When no probe is cut short, every window of the scanned data that equals a
\* block of the basis is emitted as a match or overlaps one: a block is never
\* sent literally because the rolling sum drifted or the table lost it.
NoBlockMissed ==
  pc \in {"scan", "tail", "returned"} /\ AmpleProbes =>
    \A o \in 0 .. Len(data) - BlockSize :
      o < Scanned /\ (\E i \in 1 .. Len(checksums) :
                         Block(basis, i - 1) = Slice(data, o, o + BlockSize))
        => \E r \in 1 .. Len(results) :
             /\ ~ results[r].isLiteral
             /\ results[r].offset < o + BlockSize
             /\ o < EndOf(basis, results[r])

\* The blocks that a probe for their weak checksum leads to.
KnownBlocks ==
  {i \in 0 .. Len(checksums) - 1 :
     \E k \in Compared(checksums[i + 1].sum1) :
       Slot(checksums[i + 1].sum1, k).idx = i + 1}

\* What Search returns is a function of the basis, the blocks known and the
\* data, whatever other weak checksums collide and however the sum was rolled;
\* SearchParallel's workers and its caller rely on it.
ComputesSearchResult ==
  pc = "returned" => results = SearchResult(basis, KnownBlocks, data)

\* A source equal to the basis is sent as its blocks in order, the shorter
\* last one included, without a literal byte.
IdenticalInOrder ==
  pc = "returned" /\ data = basis /\ Len(data) >= BlockSize /\ AmpleProbes =>
    results = [k \in 1 .. NumBlocks(basis) |-> Match(k - 1, (k - 1) * BlockSize)]

\* No literal is longer than CHUNK_SIZE or empty (types.go:33).
LiteralsChunked ==
  \A r \in 1 .. Len(results) :
    results[r].isLiteral => Len(results[r].data) \in 1 .. ChunkSize

\* A call that was made returns: every turn of the scan loop makes progress
\* and the insertion loop finds an empty slot.
CallsReturn == ~ AtRest ~> AtRest

\* Search keeps the promise every sender makes.
Verdict ==
  CASE pc \in {"idle", "build"} -> "idle"
    [] pc \in {"called", "scan", "tail"} -> "open"
    [] pc = "returned" -> "ok"

Sender == INSTANCE DeltaSender WITH
            source <- data, sent <- results, verdict <- Verdict

SenderSpec == Sender!SenderSpec
=============================================================================
