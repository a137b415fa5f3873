--------------------------- MODULE SignatureParallel ---------------------------
(***************************************************************************)
(* GenerateSignatureParallel (signature.go): the blocks are cut into one   *)
(* range for each goroutine, which write their sums into one signature     *)
(* without a lock; a WaitGroup holds the caller back until all are done.   *)
(*                                                                         *)
(* One step launches a goroutine, or hashes one batch of one of them.  A   *)
(* file of at most one block is left to GenerateSignature.  The calls are  *)
(* those of this function and of GenerateSignatureReader.                  *)
(***************************************************************************)
EXTENDS SignatureReader

CONSTANTS
  Procs,         \* values of GOMAXPROCS
  Algorithms,    \* names callers pass
  Known          \* those that are registered

ASSUME ParallelAssumption == Procs \subseteq Nat \ {0} /\ Known \subseteq Algorithms

VARIABLES
  procs,    \* runtime.GOMAXPROCS(0)
  w,        \* w of the launching loop
  wg,       \* the counter of the WaitGroup
  start,    \* base of each goroutine, 0-based workers
  end,      \* end of each goroutine
  running   \* goroutines that are not done

workVars == << procs, w, wg, start, end, running >>
vars == << readerVars, workVars >>

Init ==
  /\ ReaderInit
  /\ procs = 1 /\ w = 0 /\ wg = 0 /\ start = << >> /\ end = << >> /\ running = {}

NumWorkers == Least(procs, Count)

\* Mutant: the blocks that remain are nobody's.
FloorBlocksPerWorker == Most(1, Count \div NumWorkers)

BlocksPerWorker == (Count + NumWorkers - 1) \div NumWorkers

\* Mutant: a range reaches into the next.
OverlappingEnd(v) == Least(v * BlocksPerWorker + BlocksPerWorker + 1, Count)

StartBlock(v) == v * BlocksPerWorker
EndBlock(v) == Least(StartBlock(v) + BlocksPerWorker, Count)

-----------------------------------------------------------------------------
(* The calls *)

CallReader(f, size, algo, b) ==
  /\ AtRest /\ calls < MaxCalls /\ calls' = calls + 1
  /\ IF algo \in Known THEN GenerateSignatureReader(f, ReadFails, size, b)
                        ELSE NoSignature(f, size, "unknown")
  /\ UNCHANGED workVars

\* One block or none is left to GenerateSignature before the algorithm is
\* looked up, and that drops the error of an unknown one; else
\* wg.Add(numWorkers).
GenerateSignatureParallel(f, algo, p, b) ==
  /\ AtRest /\ calls < MaxCalls /\ calls' = calls + 1
  /\ CASE algo \notin Known ->
            /\ NoSignature(f, Len(f), IF NumBlocks(f) <= 1 THEN "neither" ELSE "unknown")
            /\ UNCHANGED workVars
       [] algo \in Known /\ NumBlocks(f) <= 1 ->
            GenerateSignature(f, b) /\ UNCHANGED workVars
       [] OTHER ->
            /\ file' = f /\ fileSize' = Len(f) /\ procs' = p /\ width' = b
            /\ sums' = [k \in 1 .. NumBlocks(f) |-> Blank] /\ outcome' = "none"
            /\ w' = 0 /\ wg' = Least(p, NumBlocks(f))
            /\ start' = [v \in 0 .. wg' - 1 |-> 0] /\ end' = start'
            /\ pc' = "launch"
            /\ UNCHANGED << fails, base, filled, total, batchBuf, running >>

-----------------------------------------------------------------------------
(* The caller's goroutine *)

\* Mutant: the count keeps waiting for a worker that has nothing to do.
KeepCount(v) == wg

\* wg.Done() at once for a worker whose range is empty.
CountAfterLaunch(v) == IF StartBlock(v) >= EndBlock(v) THEN wg - 1 ELSE wg

Launch ==
  /\ pc = "launch" /\ w < NumWorkers
  /\ w' = w + 1
  /\ wg' = CountAfterLaunch(w)
  /\ start' = [start EXCEPT ![w] = StartBlock(w)]
  /\ end' = [end EXCEPT ![w] = EndBlock(w)]
  /\ running' = IF StartBlock(w) < EndBlock(w) THEN running \cup {w} ELSE running
  /\ UNCHANGED << pc, callVars, base, filled, total, batchBuf, sums, outcome, procs >>

Wait ==
  /\ pc = "launch" /\ w = NumWorkers
  /\ pc' = "wait"
  /\ UNCHANGED << callVars, base, filled, total, batchBuf, sums, outcome, workVars >>

-----------------------------------------------------------------------------
(* A goroutine *)

\* The blocks v hashes next, as one batch, and the bytes they are hashed from.
Batch(v) == start[v] .. Least(start[v] + width, end[v]) - 1
BatchBytes(v) ==
  Slice(file, start[v] * BlockSize,
        Least((start[v] + Cardinality(Batch(v))) * BlockSize, Len(file)))

BatchFull(v) == Cardinality(Batch(v)) = width /\ Len(BatchBytes(v)) >= width * BlockSize

\* The vector code hashes full blocks in the bytes of the batch, the scalar
\* code each block as it lies in the file.
VectorBlock(v, idx) ==
  SumOf(idx,
        Slice(BatchBytes(v), (idx - start[v]) * BlockSize, (idx - start[v] + 1) * BlockSize),
        BlockBytes(idx))
ScalarBlock(idx) ==
  SumOf(idx, Slice(file, idx * BlockSize, idx * BlockSize + BlockBytes(idx)), BlockBytes(idx))

HashRange(v) ==
  /\ v \in running /\ start[v] < end[v]
  /\ sums' = [k \in DOMAIN sums |->
                IF k - 1 \notin Batch(v) THEN sums[k]
                ELSE IF BatchFull(v) THEN VectorBlock(v, k - 1) ELSE ScalarBlock(k - 1)]
  /\ start' = [start EXCEPT ![v] = @ + width]
  /\ UNCHANGED << pc, callVars, base, filled, total, batchBuf, outcome >>
  /\ UNCHANGED << procs, w, wg, end, running >>

\* defer wg.Done()
Done(v) ==
  /\ v \in running /\ start[v] >= end[v]
  /\ wg' = wg - 1 /\ running' = running \ {v}
  /\ UNCHANGED << readerVars, procs, w, start, end >>

\* Mutant: one worker done is enough.
AnyDone == wg < NumWorkers

AllDone == wg = 0

Return ==
  /\ pc = "wait" /\ AllDone
  /\ pc' = "returned" /\ outcome' = "nil"
  /\ UNCHANGED << callVars, base, filled, total, batchBuf, sums, workVars >>

Worker(v) == HashRange(v) \/ Done(v)
Caller == Launch \/ Wait \/ Return

Rest == AtRest /\ calls = MaxCalls /\ running = {} /\ UNCHANGED vars

Next ==
  \/ \E f \in Files, algo \in Algorithms, b \in Widths :
       \/ \E size \in FileSizes(f) : CallReader(f, size, algo, b)
       \/ \E p \in Procs : GenerateSignatureParallel(f, algo, p, b)
  \/ ReaderStep /\ UNCHANGED workVars
  \/ Caller
  \/ \E v \in running : Worker(v)
  \/ Rest

Spec == Init /\ [][Next]_vars

\* Go runs every goroutine that can run, and reads return.
FairSpec ==
  /\ Spec
  /\ WF_vars(ReaderStep /\ UNCHANGED workVars)
  /\ WF_vars(Caller)
  /\ \A p \in Procs : \A v \in 0 .. p - 1 : WF_vars(v \in running /\ Worker(v))

-----------------------------------------------------------------------------
(* Properties *)

\* A signature that comes without an error is that of all the announced bytes,
\* however many blocks are hashed at once, by however many workers;
\* a file that is shorter than announced is always reported.  The last batch
\* may have all its blocks but a short last one (delta_test.go:119).
SignatureExact ==
  pc = "returned" /\ outcome = "nil" =>
    Len(file) >= fileSize /\ sums = Signature(Announced)

\* What is left of two goroutines' ranges never has a block in common, before
\* a launched one has started as well as after: their writes do not race.
RangesApart ==
  \A u, v \in running : u # v => start[u] >= end[v] \/ start[v] >= end[u]

\* Nobody writes to a signature that the caller has.
NoWriterLeft == pc = "returned" => running = {}

\* Every call returns, though some workers may have nothing to do.
CallReturns == ~ AtRest ~> AtRest
=============================================================================
