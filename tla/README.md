# Verification of go-rsync

go-rsync computes and applies binary deltas in Go.  A receiver describes its old
file (the basis) by a signature: a weak and a strong checksum for each block.  A
sender looks for these blocks in the new file and answers with instructions,
references to blocks and literal bytes, from which the receiver rebuilds the new
file.  This directory holds TLA+ specifications of that program, configurations
with which TLC checks them on small instances, and proofs, checked by TLAPS, that
hold for every instance.

To repeat a check: `tlc -config X.cfg M` for a run, `tlapm M.tla` for a module of
proofs.  `PROJECT.json` lists the runs, the source lines every definition stands
for, and for every property a mutated definition that breaks it.

## 1. Inventory

| Component | Source | State it keeps | Operations | Hard because |
|---|---|---|---|---|
| rolling checksum | `rolling.go`, `rolling_generic.go` | two residues of 16 bits | Reset, Roll, Value | sums wrap, a roll may go below zero |
| SIMD rolling checksum | `rolling_fast_*.go`, `rolling_*.s` | sums while they are made | checksum1 per machine | each path cuts the data and wraps elsewhere |
| match engine | `types.go`, `engine.go`, `search.go` | hash table, loaded checksums, accumulated statistics | LoadSignature, Search | rolled state, probe limits, reuse of one engine |
| streaming search | `search.go` | a sliding buffer, positions, rolling sum | SearchReader | reads of any size, errors in mid-scan, stale bytes |
| parallel search | `search.go`, `engine.go` | segments, channel, results of workers | SearchParallel | order of finish, matches across cuts |
| windowed search | `search.go` | window, remaining bytes | SearchReaderParallel | errors along with bytes, offsets, loss at cuts |
| signature generation | `signature.go` | batch buffer, sums | GenerateSignature, -Reader, -Parallel, CalculateBlockSize | stale buffer, short last block, unlocked writes, dropped errors |
| wire format | `wire.go` | position on a connection, one buffer | two encoders, four decoders | connections that break anywhere |
| reconstruction | `reconstruct.go` | basis, block lengths | WriteInstruction, Reconstruct, Verify | basis changed since it was signed |
| checksum registry | `registry.go`, `registry_stdlib.go` | map of algorithms, default, RWMutex | Register, GetAlgo, ListAlgos, Get/SetDefault | read lock taken twice, check and store apart |
| convenience API | `api.go` | none of its own | Delta(Stream), DeltaFromWire(Stream), ApplyDelta(Stream), RoundTrip | composition of all of the above, an algorithm looked up once for every part |
| SIMD MD5 | `hashsimd/`, its generators included | a state of four words for each lane | MD5Hash8way, -16way, -4way | lanes of different lengths, padding at 55, 56, 63 and 64 bytes, shuffles, unrolled steps with changing registers |

How they interact.  `LoadSignature` gives the engine a signature from the same
process or from `WireDecodeSignature`.  Searches are calls on one engine: Search
returns a list, SearchReader calls back, SearchParallel starts goroutines that
share the table read-only and answer over a channel, SearchReaderParallel calls
SearchParallel for one window after the other.  The instructions travel through
an encoder and a decoder, over a connection, to the reconstructor, whose callback
writes to the receiver's own output.  The registry is the only state shared
between unrelated callers, and the only one with a lock.

What makes each part correct, in the terms of the properties below:

* a search loses nothing whatever it fails to find (`ResultsRebuildData`, and
  `SenderSpec` over time), and finds what it should (`NoBlockMissed`,
  `IdenticalInOrder`, `ComputesSearchResult`);
* streaming, parallel and windowed searches keep the same promise under the
  failures and orders they meet, and what they lose is bounded;
* a signature without an error is exact, one with an error is true as far as it goes,
  and it is the same on every machine;
* what comes over the wire is what was sent or an error, and what was written out
  is a prefix of the new file at every moment;
* a registry that changes in mid-call costs matches, never bytes;
* no call hangs.

## 2. Modules

| Module | Models | Builds on |
|---|---|---|
| `RollingSum` | weak checksum: Reset, Roll, Value | |
| `BatchedSum` | `checksum1` of amd64 and arm64, assembly included, as a machine whose steps are the turns of its loops | RollingSum |
| `LaneHash` | MD5 of several blocks at once, down to the rounds on one chunk | |
| `MD5Words` | the words of MD5 and the schedule of its 64 steps | |
| `MD5Rounds` | **abstract specification** of a core: the rounds of the scalar code | MD5Words |
| `Transposition` | how words get into lanes, `md5x8TransposeFast` included | |
| `MD5Core` | the vector cores of AVX2, AVX-512 and NEON, instruction by instruction | MD5Words, Transposition; refines MD5Rounds |
| `BlockSums` | a full batch of a signature: digests in lanes, then the weak checksum of each block; and direct calls of both | BatchedSum, LaneHash |
| `BlockSizes` | CalculateBlockSize for a file that grows | |
| `Primitives` | direct calls of all that signatures are made of, for one run | BlockSums, MD5Core, BlockSizes |
| `Blocks` | files, blocks, signatures, instructions; what it means that instructions rebuild data | RollingSum |
| `DeltaSender` | **abstract specification** of every sender | Blocks |
| `SearchResults` | what Search and SearchParallel return, as functions | Blocks |
| `MatchEngine` | LoadSignature, buildHashTable and Search | SearchResults; refines DeltaSender |
| `SearchReader` | SearchReader, its buffer, its reader and its callback, and batch searches on the same engine | MatchEngine; refines DeltaSender |
| `ParallelSearch` | SearchParallel: launch, search, channel, merge | SearchResults; refines DeltaSender |
| `WindowedSearch` | SearchReaderParallel, and both parallel searches on one engine | ParallelSearch; refines DeltaSender |
| `SignatureReader` | GenerateSignatureReader and GenerateSignature | Blocks |
| `SignatureParallel` | GenerateSignatureParallel, and calls of all three | SignatureReader |
| `Wire` | what the encoders hand to `w.Write`, call by call | Blocks |
| `SignatureWire` | a signature on its way over a connection | Wire |
| `Receiver` | instructions on their way, decoded and applied, in three modes | Wire |
| `Session` | both connections, the search between them and the rebuilding | SignatureWire, Receiver, SearchResults |
| `Registry` | the algorithm registry with Go's RWMutex | |
| `Api` | the convenience functions, GenerateSignature(Parallel) and Verify, lookup by lookup | Registry, SearchResults |
| `BlocksProofs` | lemmas about files, instructions, lists and counts, and the results of `SearchResults` | SearchResults |
| `MatchEngineProofs`, `ReaderProofs`, `ParallelProofs`, `SignatureProofs`, `SessionProofs`, `ApiProofs`, `PrimitivesProofs` | the theorems of section 4: about the engine, SearchReader, both parallel searches, signatures, transfers, the registry and the convenience functions; block sizes, the weak checksum by every path, digests in lanes and the cores of MD5 | the module they are about |
| `MC*` | instances for TLC | |

### Correspondence with the code

Variables have the names of the code's variables; offsets and block indices count
from 0 as in Go, and `Slice(f, lo, hi)` is `f[lo:hi]`.  An action is one turn of a
loop, one `Read`, `ReadFull`, `Write` or callback, or one critical section:
whatever lies between two points where another goroutine, the reader, the writer
or the callback can make a difference.  `pc` says where in the function the call is.

* **MatchEngine.**  `LoadSignature` allocates the table and `InsertBlock` is one
  turn of `buildHashTable`; `LoadNil` is `LoadSignature(nil)`, which keeps the old
  table.  `ScanMatch` and `ScanMiss` are a turn of the scan loop that finds a block
  or does not: the probe (`Compared`), the preference for the block after the last
  match (`Preferred`), the pending literals, and the rolling sum reset or rolled.
  A full table, in which the insertion loop would never end, has no step.
* **SearchReader.**  The buffer is a sequence with stale bytes beyond `bufLen`.
  `Slide` and the reads behind it are `shiftAndFill`; `FillDone` is the initial
  fill; `StreamMatch`, `StreamMiss` and `StreamEnd` look only into the buffer.
  `CallSearch` is a Search between two streams, with the actions of MatchEngine.
* **ParallelSearch.**  A worker's own search is one step that ends with its send,
  since it touches nothing shared but the channel; what it finds is
  `SegmentResult`, made of `SearchResult`, which Search is proved to compute
  (`SearchComputes`).  The sums of `HashHits` and `FalseAlarms`, which are diagnostic, are left out.
* **SignatureReader.**  One path for all batch widths: the code has four copies of
  this loop (16, 8, 4 blocks and one), which differ in the width and in the vector
  routine.  `AllFull` decides between vector and scalar sums.
* **Wire, SignatureWire, Receiver.**  A wire is a sequence of cells, one for an
  integer field and one for a byte of data.  A reader cut off inside a field fails
  like one cut off before it, so nothing is lost by that.  Narrow fields wrap.
* **Session.**  What the sender finds is one of the functions of `SearchResults`,
  for any source and any number of workers.
* **Registry.**  A step takes the mutex or does what is done under it.  As in Go,
  a waiting writer keeps new readers out.
* **Api.**  A call is a list of parts (`Parts`); before each but the decoding of a
  signature, `Ask` looks the algorithm up through Registry, and the part itself is
  one step, since it touches nothing shared.  What a part does with a file is what
  its own module shows: `SearchResult`, `Apply`.  A digest is the algorithm and the
  block, so an engine sees the basis as its digests show it (`AsSeen`): a block
  signed with another algorithm matches nothing.  `HashedWith` and `Panics` follow
  the code's split between full batches, which hashsimd hashes, and the rest.
  DeltaStream and DeltaFromWireStream make the same lookups as Delta and DeltaFromWire.
* **BatchedSum.**  Sums are words that wrap.  A `Kernel` is the assembly of one
  file: how many bytes it wants, how it deals them to lanes, how wide these are, at
  which value `VPMADDUBSW` cuts a pair, and whether it takes the bytes at the end.
  `TakeBlock` is a turn of its loop, `LanesEnd` its reduction, `KernelReturns` the
  correction by CHAR_OFFSET.  Any kernel may serve any call that is long enough, and
  the batches of Go code any call at all, which covers each machine's own choice
  and assembly that refuses; `Checksum1AVX512` is one of the kernels.
* **LaneHash.**  A lane's state is the sequence of chunks folded into it, and so
  is the reference digest; `FinishInStep` is `md5Finalize8way`, `FoldOwn` and
  `FinishLane` are the loop over the lanes that all three widths have.
* **MD5Core.**  What the generators `gen_md5x8`, `gen_md5x16` and `gen_md5x4` emit,
  one of the 64 steps at a time, for one lane.  A word is the set of the positions
  of its 1 bits; `reg` are the registers, which stay where they are, and
  `RegisterOf` their roles; `ahead` is the word loaded a step before it is used.
  `Ternary` is VPTERNLOGD with its immediate as a set of table rows.  Addition and
  the table T are parameters.  `Enter` loads x by gathering or, on AVX2, by the
  shuffles of `Transposition`.  `MD5Rounds` is `md5FinalLane` and
  `md5FinalizeScalar`, with which the same lanes end.
* **BlockSizes.**  The limits of signature.go and wire.go are constants;
  `SizesAssumption` is what their values have in common, and the values of the code
  satisfy it.

## 3. Runs

| Run | Module, configuration | Question | Bounds |
|---|---|---|---|
| search | MCMatchEngine, `_search` | Is one search lossless, complete, and does it return? | every source of up to 5 bytes over 3 byte values, 6 bases, blocks of 2, chunks of 1, one load and one search |
| stream | MCSearchReader, `_stream` | Does SearchReader find what Search finds, however the source is cut? | sources of up to 10 bytes, blocks of 3, reads of 1, 2 or all bytes, a buffer of its exact need (7) |
| faults | MCSearchReader, `_faults` | What if reads and callbacks fail, and does an engine survive reuse? | 3 calls in any order, streams and batch searches, signatures replaced and forgotten; every read and callback may fail; announced sizes 0 to 9; probes of 2 slots, chains of 1 |
| unread | MCSearchReader, `_unread` | *violation*: a match just before a tail that was not read yet | as stream |
| truncated | MCSearchReader, `_truncated` | *violation*: a source that ends between one block and two | 3 sources, sizes 0 to 6 |
| parallel | MCWindowedSearch, `_parallel` | Do order of finish, cuts and failures matter to the parallel searches? | 2 calls, 2 or 3 workers, sources of up to 9 bytes, windows of 3 and 6 |
| signature | MCSignatureParallel, `_signature` | Is every signature exact or reported? | files of up to 13 bytes, batches of 1, 2 and 4 blocks, up to 5 workers |
| session | MCSession, `_transfer` | Does a whole transfer give the new file or an error? | 3 bases, 6 sources, every cell at which either connection may break, 3 modes, messages of up to 2 batches |
| session_truncated | MCSession, `_truncated` | *violation*: a basis that lost its last block | as session |
| checksum | MCPrimitives, `_checksum` | Do all machines agree on the weak checksum and on MD5, and does the advised block size serve? | up to 19 bytes, lanes of 6 bits and words of 8, four kernels; two lanes of up to 11 bytes in chunks of 4; all 64 steps on words of 4 bits, every lane of three cores, two chunks; files of up to 140 bytes with an int32 of 6 bits |
| api | MCApi, `_api` | Do the convenience functions survive a registry that changes under them? | one call of up to three lookups, two other goroutines, 2 names, 2 algorithms, with and without a vector unit of two lanes |
| api_nilfast | MCApi, `_nilfast` | *violation*: an algorithm without FastSum under the name md5 | as api |

### What they show

**search.**  `TypeOK`, `ResultsRebuildData`, `RollingInSync` (the rolling sum is
that of the window whatever mix of Roll and Reset led there), `ProbeChainsUnbroken`
(no block is lost in the table, also where a chain wraps), `NoBlockMissed` (each
window equal to a block is sent as a match or overlaps one), `ComputesSearchResult`
(the result is a function of basis, source and reachable blocks; the parallel
models and Session rely on it), `IdenticalInOrder`, `CallsReturn`, and the
refinement `SenderSpec`.  With sums modulo 4, different blocks share a weak
checksum and even all of it; bases have repeated blocks and a shorter last one.

**stream, faults.**  `BufferMirrorsSource` through every slide, `StreamRollingInSync`,
`SameAsBatch` (the same references in the same places as Search, when all of the source
was read and no probe is cut short) and `StreamReturns`;
with failures, `WindowBuffered` (no byte is looked at before it was read) and the
refinement `ReaderKeepsPromise`: what was handed over is a prefix of the source, and
all of it when the call reports success and has read all of it; that the second
condition is needed is the finding *unread*.  `SearchUndisturbed` says that a batch search
gives what it would give on a new engine, whatever was streamed, loaded or forgotten
before, and `CallsCounted` that each call adds to the statistics what its own
instructions amount to.  Probes are cut inside a cluster here.

**parallel.**  `OrderOfFinishIrrelevant` (instructions and statistics are those of the
segments in file order), `ParallelReturns`, the refinements `ParallelKeepsPromise` and
`WindowedKeepsPromise`, and `WindowLoss`.  A parallel search does not return Search's list:
a match across a cut becomes literal.  `WindowLoss` is the bound, "a block or two of
compression per boundary" made exact: a block for each piece the source is searched in, whatever windows
and workers.  The windows count their own pieces, since a short last window is searched
by one worker.

**signature.**  `SignatureExact` (a signature without an error is that of all the
announced bytes, in every path), `PartialTrue` (with an error: true sums for whole
batches, blanks elsewhere, never a sum of stale bytes), `RangesApart`,
`NoWriterLeft`, `CallReturns`.

**api.**  `DefaultRegistered` and `CallsReturn` of the registry: GetAlgo gives its
read lock back before ListAlgos takes it for the text of an error; holding it would
hang as soon as a writer waits in between, which is the mutant of that property.
`RoundTripHolds`: the algorithm may be registered anew between the signature and the
engine, or be unknown to the first and known to the second, in which case
GenerateSignature has dropped its error and the engine is given nil; the delta may
be all literals then but is never false.  `UndisturbedFindsAll`: if the name keeps its
algorithm, signature and engine agree, also where half of the blocks were hashed by
hashsimd and half by FastSum, and Verify accepts the right file and no other.

**session.**  `AcceptedIsSent`, `RejectsOnlyOversized` (the decoder's checks let
every signature pass that can be made, the empty file and one-byte blocks included,
but for the two caps), `OutputIsPrefix` at every moment and through every failure,
`WholeOnSuccess` (success means the whole file, the whole message and nothing of
the next), `BufferHolds`.

**checksum.**  `ChecksumAgrees`, by lanes, batches and bytes and at every turn of
every loop, though the sums wrap at different places and the correction halves a
product that may have wrapped.  The largest byte of the instance is to its lanes what
255 is to 16 bits: the largest weighted pair, 255 * (64 + 63) = 32385, stays below
32767, where the lane would be cut.  (With bytes one larger the run fails, as it
should.)  `DigestsAgree`: each lane gives its block the digest it has by itself, for
all lengths, and Sum1 beside it is of the same bytes.  `CoreFollowsRounds`, a
refinement: each core does in each lane, with the words of that lane's block, what the
scalar rounds do, step by step.  `AdviceAccepted`: with the block size advised for a
file, its signature has no more blocks than the decoder takes, up to the largest file
for which any size would do, and the size does not shrink as the file grows.

### Disagreements between the code and what it says

* *unread.*  The scan looks at its buffer every `blockSize` offsets and ends when less
  than a block is left.  A match between two looks moves `offset` on by a block; if that
  ends the scan, up to `blockSize - 2` announced bytes have not been read.
  `flushRemaining` sends what is buffered (`search.go:452`, "Read any unread tail", is
  about what it cannot do) and SearchReader returns nil: the end of the file is missing
  from the delta and nobody is told.  The least case is a source of seven bytes, blocks of
  three and reads of one and two; `delta_extra_test.go:662` asserts the opposite for every
  way to cut the reads.  With blocks of some 32K and more the buffer's own capacity brings
  it about, with full reads.
* *truncated.*  A source that ends between one block and two while more was
  announced passes the initial fill, and the scan looks at window bytes beyond what
  was read; `search.go:224` and `:247` say they are available.
* *session_truncated.*  A reference to a block the basis no longer has is an error
  only if the block starts *beyond* the end; one that starts exactly at the end
  gives no bytes and no error, where `delta_extra_test.go:836` expects one for
  blocks beyond the basis.
* *api_nilfast.*  Where there is a vector unit, the blocks of an md5 signature that do
  not fill a batch are hashed with `algo.FastSum` unasked (`signature.go:132`, `:196`,
  `:333`, `:411`, `:485`): an algorithm registered under "md5" without one makes
  GenerateSignature panic, where `registry.go:80` says that the hash.Hash path is used
  if FastSum is nil.

Seen while reading, with no run of their own:

* `readInto` returns a Read's error although the bytes that came with it are enough;
  SearchReader flushes everything as literals and returns nil.  A reader that reports
  `io.EOF` with its last bytes, as io.Reader allows, costs the matches that were still to
  be found.  Nothing is corrupted: `ReaderKeepsPromise` holds with such readers.
* With probes that are cut short, SearchReader and Search need not find the same blocks,
  against `delta_test.go:657`: literals that were sent early put the tail at another
  place, where the comparison with the block of the same place (`search.go:118`, `:354`)
  may find a block that no probe reaches.  `SameAsBatch` therefore asks for `AmpleProbes`.
  Nothing is corrupted here either.
* On such a machine the full batches are hashed by the built-in MD5 whatever is
  registered under "md5".  With another function there, part of the signature is of
  digests the engine does not compute; `UndisturbedFindsAll` leaves this case out.
* A source shorter than a block is one literal that SearchReader does not count in
  `LiteralBytes` (`search.go:204`), while Search counts it; `Counted` leaves it out.
* `HashHits` counts offsets with an occupied home slot, `FalseAlarms` strong
  comparisons that failed (`search.go:45-68`); the second may exceed the first.
* A literal may be longer than CHUNK_SIZE where SearchReader sends a file below one
  block (`search.go:204`) and where SearchParallel turns a crossing match into bytes
  (`search.go:643`), against `types.go:33`.  The decoder of a stream cuts literals
  itself, so the receiver's bound holds all the same (`BufferHolds`).
* GenerateSignature drops the error, so that an unknown algorithm gives a nil
  signature and nothing else (`signature.go:20`).  GenerateSignatureParallel calls it
  for at most one block before it asks for the algorithm itself: an unknown name then
  gives neither a signature nor an error.  This is the outcome "neither" of the model.
* `md5Finalize8way` writes the low 32 bits of the length alone where the tail needs two
  chunks (`md5x8_amd64.go:134`; the comment at `:128` says 8 bytes).  Only blocks of
  2^29 bytes and more differ, far beyond the 128 KiB of CalculateBlockSize;
  `LengthCut` names them and `DigestsAgree` leaves them out.

### Why the bounds are enough

Blocks of two bytes are the smallest for which a window can overlap a block without
being it, and for which there is a shorter last block.  Three byte values with sums
modulo 4 give windows that are equal, that differ with equal weak sums, and that
differ in both.  Sources reach past two blocks and a half, so that a match follows a
match, a literal, or both, and the tail match follows each; streamed sources are long
enough for the buffer to slide, and their blocks have three bytes, since with two no
match can end the scan with a byte unread.  Three workers, of which the last may have a
short segment, meet every relation between neighbours; five workers on up to seven
blocks leave ranges short and empty.  Two calls suffice where only statistics survive a
call, three where signature, table and buffer may get out of step: one to leave
something behind, one to load or forget, one to stumble.  The probe limit is
below the length of a cluster in *faults* and above in *search*.  In *session*
blocks of four bytes and chunks of two make a literal longer than a chunk.  In
*checksum* every loop runs several times and every rest from 0 to the largest occurs,
and blocks have tails on both sides of the room for a length; of the two buffers of the
cores one has words that tell their place in a block, the other words that tell their
lane, so that no two words can change places unseen; the second chunk of a block begins
with what the first has left in the registers.  In *api* three lookups are the most a
call makes, and each of the two other goroutines can make its call between any two of
them.  Names of
the bounds: `MaxCalls`, `MaxProbe`, `MaxChain`, `MaxBatches`, `ReadSizes`, `TableSizes`, and the sets
`Bases`, `Inputs`, `Files`, `HashCalls`, `Buffers`, `Seeds`, `Pairs`, `MayCall` that the MC
modules define.

### Fairness

A call runs on its caller's goroutine until it returns, so each call's steps are
weakly fair together (`FairSpec`); nothing obliges a caller to make a call.  The Go
scheduler runs every goroutine that can run: workers and the collecting caller are
weakly fair.  Readers, writers and callbacks return, and a Read returns bytes or an
error: io.Reader discourages anything else, and with a reader that returned neither
for ever `readInto` would loop with it.  In `ApiSpec` every goroutine's step in the
registry is weakly fair and taking the lock strongly fair, because Go's mutex is handed
over in turn and starves nobody; the client's own steps are not, since `CallsReturn` is
about the calls of the registry.

## 4. Proofs

TLAPS checks the following for every value of the constants: every file and basis,
every block, chunk and table size, every modulus, probe limit and strong checksum
that satisfies the assumptions.

| Theorem | Module | What it says |
|---|---|---|
| `RollIsReset` | BlocksProofs | rolling a window by a byte gives what resetting on the new window gives |
| `Invariant` | MatchEngineProofs | `Spec => []IInv` |
| `TypeCorrect` | MatchEngineProofs | `TypeOK` |
| `Lossless` | MatchEngineProofs | `ResultsRebuildData`: what Search has emitted rebuilds what it stands for |
| `RollingStaysInSync` | MatchEngineProofs | `RollingInSync` at every turn of the scan loop |
| `LiteralsStayChunked` | MatchEngineProofs | no literal is empty or above CHUNK_SIZE |
| `SearchIsSender` | MatchEngineProofs | `SenderSpec`: the engine implements the abstract sender |
| `Exactness` | MatchEngineProofs | the table loses no block and the scan is on its way to `SearchResult` |
| `TableLosesNone` | MatchEngineProofs | `ProbeChainsUnbroken`: a probe from its home slot reaches every block |
| `SearchComputes` | MatchEngineProofs | `ComputesSearchResult`: Search returns what the function says |
| `FindsEveryBlock` | MatchEngineProofs | `NoBlockMissed`: a window that equals a block is sent as one or overlaps one |
| `CopySentAsBlocks` | MatchEngineProofs | `IdenticalInOrder`: a copy of the basis is sent as its blocks in order |
| `ReaderInvariant` | ReaderProofs | `ReaderSpec => []ReaderInv`, as all about SearchReader if `Announced` |
| `BufferMirrors` | ReaderProofs | `BufferMirrorsSource`: the buffer is a piece of the source |
| `WindowIsBuffered` | ReaderProofs | `WindowBuffered`: nothing is looked at before it was read |
| `StreamRollingStaysInSync` | ReaderProofs | `StreamRollingInSync` at every turn |
| `ReaderIsSender` | ReaderProofs | `ReaderKeepsPromise`: SearchReader implements the abstract sender |
| `SearchIsUndisturbed` | ReaderProofs | `SearchUndisturbed`: a search after any streams and signatures is as on a new engine |
| `SameAsInMemory` | ReaderProofs | if `~ JoinedEOF`, `SameAsBatch`: the same references in the same places as a search in memory |
| `CallsAreCounted` | ReaderProofs | `CallsCounted`: a call adds to the statistics what its instructions amount to |
| `ParallelInvariant` | ParallelProofs | `Spec => []FullInv` of both parallel searches, for any workers and windows |
| `FinishOrderIrrelevant` | ParallelProofs | `OrderOfFinishIrrelevant`: one list whoever finishes first, counted once, nobody left |
| `ParallelIsSender` | ParallelProofs | `ParallelKeepsPromise`: SearchParallel implements the abstract sender |
| `WindowedIsSender` | ParallelProofs | `WindowedKeepsPromise`: SearchReaderParallel implements it too |
| `BoundariesCostABlock` | ParallelProofs | `WindowLoss`: each piece costs at most a block more than one Search of it all |
| `SignatureInvariant` | SignatureProofs | `Spec => []IInv` of signature generation, for any file, batch and number of workers |
| `SignaturesExact` | SignatureProofs | `SignatureExact`: no error means the signature of all the bytes |
| `PartialSignaturesTrue` | SignatureProofs | `PartialTrue`: what is summed is true at every point |
| `RangesStayApart` | SignatureProofs | `RangesApart`: no block belongs to two goroutines |
| `NoneLeftWriting` | SignatureProofs | `NoWriterLeft`: nobody writes to a signature that was returned |
| `SignatureConnection` | SessionProofs | `SigInv`: what is read of a signature and what lies ahead are what was encoded |
| `AcceptedSignatureIsSent` | SessionProofs | `AcceptedIsSent`: a signature that is accepted is the one sent, read to its end |
| `OnlyOversizedRejected` | SessionProofs | `RejectsOnlyOversized`: no other signature is taken for implausible |
| `AnswerConnection` | SessionProofs | `ReceiverInv`: where a receiver is in the message and in the new file |
| `BufferBounded` | SessionProofs | `BufferHolds`: the buffer never exceeds CHUNK_SIZE |
| `OutputBegins` | SessionProofs | if `BasisHeld`, `OutputIsPrefix`: what is written out begins the new file |
| `TransferRebuilds` | SessionProofs | if `BasisHeld`, `WholeOnSuccess`: success means the whole file and the whole message |
| `RegistryInvariant` | ApiProofs | `IInv` of the registry, for any number of goroutines and calls |
| `DefaultStaysRegistered` | ApiProofs | `DefaultRegistered`: the default can always be looked up |
| `RegisteredForGood` | ApiProofs | `NeverForgotten`: a name once registered stays so |
| `ApiInvariant` | ApiProofs | `ApiSpec => []FullInv`: the registry and a convenience function's call together |
| `ApiUsesRegistry` | ApiProofs | `ApiSpec => Spec` of `Registry`: what is proved of the registry holds of the composition |
| `RoundTripAlwaysHolds` | ApiProofs | `RoundTripHolds`: a delta is true and RoundTrip finds no mismatch, whatever others register |
| `UndisturbedCallsFindAll` | ApiProofs | `UndisturbedFindsAll`: where nobody does, the delta has all the matches and Verify is right |
| `FastIsWordByWord` | PrimitivesProofs | the shuffles of `md5x8TransposeFast` put every word of eight blocks into its lane |
| `CoresAgree` | PrimitivesProofs | `CoreFollowsRounds`: the vector cores implement the scalar rounds, lane by lane |
| `EveryPathAgrees` | PrimitivesProofs | `BlockSumsSpec => []ChecksumAgrees`: lanes, batches and bytes give the weak checksum of the byte-by-byte loop |
| `LanesGiveDigests` | PrimitivesProofs | `BlockSumsSpec => []DigestsAgree`: each lane gives the digest of its block, and Sum1 is of the same bytes |
| `SignaturesOfAnySize` | PrimitivesProofs | `AdviceAccepted`: a file of any size gets blocks the decoder takes |
| `EachByItself` | PrimitivesProofs | `PrimitivesSpec` implies the specifications of its parts, of which the theorems above are |

*The rolling sum.*  The code adds the new byte, takes off the old one and corrects s2
by the block length, all modulo 2^16.  `RollIsReset` rests on `SlidingSums`, which
compares the exact sums of a window with those of the window one byte on, and on a few
lemmas about `%`.  The sums are a recursive function; that its equations hold
(`PartialSumsCorrect`) is shown with the least length at which they would not, since
the library's induction theorems are out of reach.

*The engine.*  `IInv` is `TypeOK` with `TableInv` (the checksums are none or those of the
basis, and the table's indices are theirs), `ScanInv` (where `lastMatch` and `offset`
stand to each other and to the data), `RollingInSync`, `ResultsRebuildData` and
`LiteralsChunked`.  `ResultsRebuildData` is not inductive by itself: that a match may
stand for the bytes of a window needs the table's indices, the comparison of both
checksums, and that the rolling sum compared is the window's; that the literals join
up with the matches needs the order of `lastMatch`, `offset` and the end of the data.
`RollingInSync` in turn needs that rolling equals resetting.  The proof has one
step for each action, and each names the conjuncts that the action can disturb.

*The refinement.*  Every step of the engine is one of `DeltaSender` or a stutter:
LoadSignature is `UseSignature`, the start of a search `Begin`, a turn that emits is
`Deliver` and the return `Complete`.  `Invariant`, before and after the step, gives
what these ask for: `Rebuilds` for the results so far.

*What the engine finds.*  That nothing is lost in the table is `ChainInv`: from its home
slot to the slot a block was put in, no slot is empty.  It is kept by an insertion because
slots are never emptied, and it needs that the home slot is a function of the weak sum
alone.  `FoundInv` says that the results so far, followed by what the function `Scanner`
gives for the rest, are `SearchResult`; each turn of the loop is one equation of that
recursive function.  `NoBlockMissed` adds that no window skipped by the scan is a block,
which needs the rolling sum, the unbroken chains and `AmpleProbes` together.

*SearchReader.*  `ReaderInv` has the buffer (`BufferInv`: it is `data[bufBase:fed]`, then
stale bytes), how far the next look at it is (`AheadInv`: enough bytes are buffered for
every window and rolled byte until then, or all that was announced), the rolling sum, what
the callback has been given, and what all that is worth while the buffer fills.  The
condition `Announced` names what callers may pass: a source has all the bytes announced,
or is shorter than a block, or has two blocks.  It is the complement of the finding
*truncated*, is used in one step of the proof (`FillDoneStep`), and without it
`WindowIsBuffered` is false.  No condition is put on the cuts and errors of reads or on the
callback.  `SearchIsUndisturbed` joins `ReaderInv` with `ChainInv` and `FoundInv`, which
every step of a streaming call leaves as they are.

*The same as in memory.*  A stream is compared with a search that it does not run.
`InPace` says that a search in memory can stand where the stream stands, with the same
references behind it; it may have emitted less (`Alongside(lm)`: what lies before `lm`),
because the stream sends literals before they are complete.  `MatchGoesOn` and `MissGoesOn` are the turns the two
make together.  That they end alike is the comparison of the unmatched end with the block of
the same place: literals sent early move where that end begins, but if no probe is
cut short (`AmpleProbes`), a block of the basis would have been found by the scan, so an end
of a block or more is none.  The condition `~ JoinedEOF` is the second of the things seen
while reading (below the findings): `io.EOF` along with the last bytes ends the scan.
With such readers TLC finds `SameAsBatch` violated.

*The statistics.*  `CountInv` says that what a call has added so far is what the
instructions handed out so far amount to (`Tallied`), while it is told (`Told`): an engine's
search from its start, a stream until its callback refuses.  Every step adds a list of
instructions and counts it.  That the counts of a list are the sums of those of its parts
(`CountsConcat`) is not obvious of sums taken over sets of positions with CHOOSE:
`SummedAny` says that any element may be counted last, `SummedSame` and `DataCountAdd`
that a set of positions may be moved and split, and `LiteralCountIs` and `ReferencesAre`
that the counts of a list are the lengths of two others, the literal bytes and the
references joined.  `ChunksAmount` gives the amount of a literal's chunks.

*The parallel searches.*  `GatherInv` says where the segments are while a call runs: the
results of a worker that was started and is neither searching nor in the channel are in
its place, a message in the channel holds what `SegmentResult` says for the number it
bears, and the messages received, those in the channel and the workers searching add up to
those started.  So when as many were received as there are workers, none is left
anywhere.  The merged list is `ParallelResult` then, whatever the order was.  That this
list rebuilds the source does not depend on the program: `SearchRebuilds` shows it of the
scan, by induction backwards from the end of the data; `KeptCovers` that what a worker
keeps of an instruction covers it up to the segment's end; `SegmentCovers` that a worker's
list covers its segment although it searched a block beyond, and `ParallelRebuilds` that
segments that touch cover the source together (`FlattenCovers`).  `LoopInv` adds the
windows: what was given covers the source up to `base`, and the window in hand is the
piece of the source there.

*The loss at boundaries.*  `WindowLoss` compares two searches of the same bytes that start
at different places, so neither is a part of the other.  What they have in common are the
places at which a block may be sent: `Disjoint` are the sets of such places that do not
overlap.  The serial search refers to blocks at one of these sets, and has literal bytes
for all that lies between, but for a block that is cut or lost at the end (`SearchPlaces`).
For *every* set of the kind, a search of a piece of the source has no more literal bytes
than lie outside the set's blocks in the piece (`ScanCosts`): the scan passes no place of
the set without sending a block, there or over it, and a block sent passes the beginnings
of at most one of them (`InsideNext`).  So a piece costs a block at most, for the place
that lies across its boundary (`PieceCosts`; `TailCosts` for the end).  Costs add up
(`CostsConcat`) over the segments of a window (`SegmentCosts`, `FlattenCosts`,
`WindowCosts`) and over windows: `LossInv` says that what was given is paid for up to
`base` (`Paid`), and that the window in hand is full, or ends where the source does, or its
read has failed (`FullWindow`), so that the windows are those that `Windows` counts.

*Signatures.*  `IInv` of `SignatureProofs` says what is summed so far: `ReadInv` for the
batches of a reader (the buffer begins with the bytes of the source from the batch's place
on, and every batch before is summed), `WorkInv` for the goroutines (a range is hashed as
far as its goroutine has come, and the WaitGroup counts those running and those not yet
started).  That a signature without an error is exact needs in the end that full batches
and the rest meet at the last block, which may be shorter; that nobody writes afterwards,
that the count is zero only when all have ended.

*The transfer.*  A connection is what its writer was given to write, cut off anywhere
(`Written`), so whatever a decoder reads is as it was sent if it comes at all (`Reads`).
`SigInv` says of every place in the signature's decoder that the fields decoded, the
field at hand and the cells ahead are together the encoded signature; `OnlyOversizedRejected`
adds that what the generators make is never implausible: the division by the block
length leaves the number of blocks (`NumBlocks`), and a count is refused only above the
caps.  `ReceiverInv` says as much of the three decoders of instructions: the cells that
are left are those of the rest of the field, of the message and of the messages to come
(`Place`, with `Coming`), and the bytes that these rebuild, after those written out, are
the new file (`Remaining`, `Gives`).  A literal that is read in portions is what makes
the two differ, and a batch is where one message ends and the next begins
(`BatchesRebuild`).  That a reference gives the block that was signed is `HeldRestores`,
and needs `BasisHeld`: the receiver has the basis as it was signed, or knows the lengths
of its blocks and has the basis with bytes behind it.  This is the complement of the
finding *session_truncated*, and is used for nothing but the bytes of blocks: where the
receiver stands in the message (`AnswerConnection`) and `BufferBounded` need no such
condition.  TLC evaluates it for the instance that *session* checks (`SignedIsHeld`).
What the search sent in the first place rebuilds the new file by `SearchRebuilds` and
`ParallelRebuilds`.

*The registry.*  `DefaultRegistered` is not inductive: SetDefault stores a name that it
looked up under a lock it has given back since.  `FoundStays` closes the gap, saying
that whoever is between the two locks has a name that is registered; it holds because
entries are only added or replaced.  `PhaseFits` says which calls look up and store.
Which lock a goroutine holds does not matter for these facts, so the mutex's
variables do not occur in the invariant.

*The convenience functions.*  `ApiUsesRegistry` shows first that a call asks the registry
only what the registry takes, so `IInv` holds of the composition.  `ClientInv` says which
parts of a call can still come (`Left`), and that what reaches Reconstruct is a true delta
(`Truly`); the algorithm that each part looked up does not occur in it.  It is kept because
an engine sees in a signature at most the blocks of the old file that the signature tells
apart (`AsSeen`): `SeenRebuilds` shows of `SearchResult`, for any subset of the blocks and
any limits of probing, that its result rebuilds the new file.  `UndisturbedInv` is about a
call whose name keeps its algorithm: its lookup has found or will find what is registered
(`AskFits`), and what is made so far was made with that (`Ready`).  `RoundTripAlwaysHolds`
needs the first only, `UndisturbedCallsFindAll` both.

*The cores of MD5.*  `CoreInv` says that the lane has the words of its block, which is
`FastIsWordByWord` when the core is entered, and that `ahead` is the word of the step to
come.  `RolesTurn` says that from one step to the next the register written takes the
role of b and each of the others the next role without being moved, and `RolesAtRest`
that after 64 steps all are back.  `AVX2F`, `AVX512F` and `NEONF` compare the three round
functions with the scalar one, bit by bit, and `RotatedIsRotateLeft` two shifts and an
OR with a rotation.  The vector code adds its four summands in another order, for which
`PlusAssumption`, that addition is commutative and associative, is enough.
`FastIsWordByWord` itself follows the three rounds of shuffles: after two of them half a
register has one word of four blocks (`PassTransposes`).

*Block sizes.*  `SizesInv` adds to the property that `blockSize` is that of this file.
That no size advised before was larger needs that `CalculateBlockSize` is monotone
(`AdviceMonotone`) as far as the conversion to int32 holds (`ConversionHolds`); that the
blocks are few enough, the division by cases (`FewBlocks`): a small file in the least
blocks, one in between in at most twice `Divisor` blocks, a large one in the largest.

*The weak checksum by every path.*  `ChecksumInv` says for each loop what its sums are: in
the lanes of assembly (`AccHolds`) the sums of the bytes taken so far, spread over the
accumulators and without CHAR_OFFSET, then the same in two words (`PlainHolds`), in the
batches and at the end the sums of `RollingSum` (`SumsHold`), all up to a multiple of Mod
(`Like`).  Wrapping is harmless because Mod divides both widths (`LikeWrap`).  That lanes
hold all groups once is a finite sum taken by rows and by columns (`LanesHoldAll`); that no
group is cut at the limit of VPMADDUBSW is where the largest byte counts (`MaxByte`,
`KernelAssumption`, `GroupsBelowLimit`): 127 * 255 < 2^15 in the code.  `BatchTotals` and
`OffsetsAdvance` find the weights of a batch, and `CorrectionIsTriangle` is the delicate
one: the product p * (p + 1) has wrapped when it is halved, and is right all the same in the
16 bits that count, since 2 * Mod divides 2^32 and the product is even.  In the end
`PackedAgrees` has the sums of the bytes taken at every turn, not only at the end.

*Digests in lanes.*  `HashInv` says that the state of a lane is the first chunks of its own
block (`Held`): as many as all have in common, then its own, and that a finished lane has
its digest.  What md5FinalLane puts after them is what MD5 puts at the end of the whole
block, because a text of whole chunks followed by another is cut where the two meet
(`ChunkedJoin`) and because the zeros the code counts are the fewest that fill a chunk
(`FewestZeros`); `DigestIs` joins the two.  The second chunk of md5Finalize8way, made of
words in place, is the same one if the length in bits has no high half (`InStepPads`):
where it has one is `LengthCut`, and the proof needs no other exception.  `SumsInv` says
that the block at hand is the next of the batch and that the checksums kept are of those
before it; what each is comes from `ChecksumAgrees`.  Both theorems are of `BlockSumsSpec`,
the part of `Primitives` that makes these calls, and hold of the whole by `EachByItself`.

*Lemmas.*  `BlocksProofs` has what the operators on files give: the type and parts of
slices, the bounds of a block, that equal strong checksums mean equal blocks
(`StrongIdentifies`), that instructions that cover two adjacent parts cover both
(`CoversConcat`), that a literal's chunks cover it (`ChunksCover`), how lists are joined
(`FlattenJoins`, `FlattenType`, `FlattenCovers`, and for the lists that a function gives for
the elements of another, `FlatMapConcat`), how instructions are counted (`CountsConcat`),
and that the results of Search and SearchParallel rebuild their source (`SearchRebuilds`,
`ParallelRebuilds`), for any table and any limits (`SeenRebuilds`).

*Assumptions.*  Those on constants are named where the constants are declared, and say
that sizes and moduli are positive and files are sequences of bytes; that kernels take
whole blocks and no group of the largest bytes reaches the limit of a lane
(`KernelAssumption`), and the blocks to be hashed lie in the buffer (`CallsAssumption`);
and, of a transfer (`FieldsAssumption`), that block counts, lengths and the counts of a batch fit the fields
of 32 bits, and the lengths of digests those of 8.  `NoneAssumption` says that what stands
for no signature and no call in `Api` is neither of them.
One says something about the world: `StrongAssumption`, that the strong checksum tells
blocks of up to BlockSize bytes apart.  rsync's whole design rests on it; without
it no delta is lossless.  TLC evaluates all of them in the runs.

*Only model-checked.*  Liveness under fairness (`CallsReturn`, `StreamReturns`,
`ParallelReturns`, `CallReturns`), for which TLAPS has no ENABLED.

## 5. Not modelled

* The values of MD5's table T, which the generators and `md5x8_common.go` each hold; they
  are one constant here.  That VPGATHERDD takes its offsets as signed words of 32 bits,
  which matters only for buffers of 2 GiB and more.
* The hash functions behind the registry: `Strong` is any function, injective on
  short files where a proof needs it.  Digests of different lengths, when a name is
  registered anew in mid-call, are only told apart as different.
* `HashHits` and `FalseAlarms` in parallel searches; the bits above 16 of
  Checksum1Components, which differ between machines and go nowhere.
* `MustGet`'s panic, benchmarks, prefetching and whatever else only changes the speed.

## 6. Plan

The core comes first: the engine and its abstract sender, then its streaming,
parallel and windowed forms, signatures, the wire and the receiver, then their
composition, the API over a changing registry, and the vector units; all of these
stand.  Each safety property that a run checks is proved as well.  What would come next is
what section 5 leaves out, the values of MD5's table first.
