---------------------------- MODULE SearchReader ----------------------------
(***************************************************************************)
(* The streaming search (SearchReader and its buffer helpers in search.go).*)
(* The source comes from an io.Reader, is kept in a buffer of fixed        *)
(* capacity, and instructions go to a callback as they are found.          *)
(*                                                                         *)
(* The variables of MatchEngine keep their meaning: data is what the       *)
(* reader has to give, lastMatch is literalStart, results is what the      *)
(* callback has been given.  One step is one Read, one turn of the scan    *)
(* loop, or the settling of the tail.                                      *)
(*                                                                         *)
(* The reader is modelled from the contract of io.Reader.  A Read of n > 0 *)
(* bytes may report the end of the file or an error along with them.       *)
(***************************************************************************)
EXTENDS MatchEngine

CONSTANTS
  Searched,      \* the sources that are searched in memory in between
  FileSizes(_),  \* the file sizes a caller may announce for a source
  ReadSizes,     \* bound: the sizes of a Read, besides all it can
  JoinedEOF,     \* whether the last Read may report EOF along with its bytes
  ReadFails,     \* whether a Read may fail
  CallbackFails  \* whether the callback may return an error

ASSUME ReaderAssumption ==
  /\ Searched \subseteq Inputs /\ ReadSizes \subseteq Nat \ {0}
  /\ \A d \in Inputs : FileSizes(d) \subseteq Nat
  /\ {JoinedEOF, ReadFails, CallbackFails} \subseteq BOOLEAN

VARIABLES
  fileSize,          \* fileSize, as the caller announces it
  fed,               \* bytes the reader has given
  buf,               \* buf, stale bytes included
  bufBase,           \* bufBase: the offset of buf[0]
  bufLen,            \* bufLen
  bufEnd,            \* bufEnd: the end of the buffer when last computed
  needEnd,           \* needEnd of the readInto in progress
  needReset,         \* needReset
  nextBufCheck,      \* nextBufCheck
  nextLiteralCheck,  \* nextLiteralCheck
  outcome            \* what the call returned: "none" until it does; "batch" for Search

bufVars == << buf, bufBase, bufLen, bufEnd, needEnd, fed >>
checkVars == << needReset, nextBufCheck, nextLiteralCheck >>
readerVars == << fileSize, bufVars, checkVars, outcome >>
allVars == << vars, readerVars >>

BufCap == Most(2 * BlockSize + ChunkSize, 4 * ChunkSize)

ReaderInit ==
  /\ Init
  /\ fileSize = 0 /\ fed = 0
  /\ buf = << >> /\ bufBase = 0 /\ bufLen = 0 /\ bufEnd = 0 /\ needEnd = 0
  /\ needReset = FALSE /\ nextBufCheck = 0 /\ nextLiteralCheck = 0
  /\ outcome = "none"

-----------------------------------------------------------------------------
(* The reader and the callback *)

Left == Len(data) - fed

\* What r.Read(buf[bufLen:]) may return; a full buffer is not read into.
Reads ==
  LET full  == Least(BufCap - bufLen, Left)
      sizes == {n \in ReadSizes : n <= full} \cup ({full} \ {0})
  IN  IF bufLen >= BufCap THEN {[n |-> 0, err |-> "short"]}
      ELSE UNION {
        {[n |-> n, err |-> "nil"] : n \in sizes},
        {[n |-> n, err |-> "eof"] : n \in {0} \cap {Left}},
        {[n |-> n, err |-> "eof"] : n \in {m \in sizes \cap {Left} : JoinedEOF}},
        {[n |-> n, err |-> "io"] : n \in {m \in sizes \cup {0} : ReadFails}} }

\* io.ReadFull of so many bytes: it hides what a Read reports along with
\* the last of them.
FullReads(want) ==
  LET n == Least(want, Left)
  IN  {[n |-> n, err |-> IF n < want THEN "eof" ELSE "nil"]}
      \cup {[n |-> k, err |-> "io"] : k \in {m \in 0 .. n : ReadFails /\ m < want}}

\* The callback accepts all of insts, or returns an error for one of them.
Handed(insts) ==
  {[given |-> Len(insts), err |-> "nil"]} \cup
  {[given |-> k, err |-> "callback"] : k \in {m \in 1 .. Len(insts) : CallbackFails}}

\* Mutant: references are not counted.
LiteralStats(insts, h) ==
  [stats EXCEPT
     !.literalBytes = @ + MapThenSumSet(LAMBDA k : Len(insts[k].data), 1 .. h.given)]

\* Matches counts references before the callback sees them, LiteralBytes
\* counts literals after it accepted them.
GivenStats(insts, h) ==
  LET accepted == IF h.err = "nil" THEN h.given ELSE h.given - 1
  IN  [stats EXCEPT
         !.matches = @ + Cardinality({k \in 1 .. h.given : ~ insts[k].isLiteral}),
         !.literalBytes = @ + MapThenSumSet(LAMBDA k : Len(insts[k].data), 1 .. accepted)]

Give(insts, h) ==
  /\ results' = results \o SubSeq(insts, 1, h.given)
  /\ stats' = GivenStats(insts, h)

\* The callback's error takes precedence over that of the read.
Return(h, err) ==
  /\ pc' = "returned"
  /\ outcome' = IF h.err = "callback" THEN "callback" ELSE err

Continue(h, next) ==
  IF h.err = "callback" THEN Return(h, "nil") ELSE pc' = next /\ UNCHANGED outcome

\* The end of a file is no error to the caller.
Hidden(err) == IF err = "eof" THEN "nil" ELSE err

-----------------------------------------------------------------------------
(* The call, and the literal stream when there is nothing to match *)

CallReader(d, size) ==
  /\ AtRest /\ calls < MaxCalls
  /\ calls' = calls + 1
  /\ data' = d /\ fileSize' = size /\ fed' = 0
  /\ results' = << >> /\ before' = stats /\ outcome' = "none"
  /\ offset' = 0 /\ lastMatch' = 0 /\ wantIdx' = 0
  /\ buf' = [i \in 1 .. BufCap |-> 0] /\ bufBase' = 0 /\ bufLen' = 0
  /\ needEnd' = Least(2 * BlockSize, size)
  /\ pc' = IF checksums = << >> \/ size < BlockSize THEN "literals" ELSE "fill"
  /\ UNCHANGED << engineVars, rolling, stats, bufEnd, checkVars >>

StreamLiterals ==
  /\ pc = "literals" /\ offset < fileSize
  /\ \E r \in FullReads(Least(ChunkSize, fileSize - offset)) :
       LET insts == Chunks(Slice(data, fed, fed + r.n), offset)
       IN  \E h \in Handed(insts) :
             /\ Give(insts, h)
             /\ fed' = fed + r.n
             /\ offset' = offset + r.n
             /\ IF r.err = "nil" THEN Continue(h, pc) ELSE Return(h, Hidden(r.err))
  /\ UNCHANGED << calls, engineVars, data, rolling, lastMatch, wantIdx, before >>
  /\ UNCHANGED << fileSize, buf, bufBase, bufLen, bufEnd, needEnd, checkVars >>

LiteralsEnd ==
  /\ pc = "literals" /\ offset >= fileSize
  /\ pc' = "returned" /\ outcome' = "nil"
  /\ UNCHANGED << calls, engineVars, searchVars, fileSize, bufVars, checkVars >>

-----------------------------------------------------------------------------
(* readInto: the initial fill and the refills *)

Stored(r) ==
  [i \in 1 .. BufCap |->
     IF i \in bufLen + 1 .. bufLen + r.n THEN data[fed + i - bufLen] ELSE buf[i]]

\* Mutant: bytes that come with an error are dropped.
CleanTake(r) ==
  /\ buf' = Stored(r)
  /\ bufLen' = bufLen + (IF r.err = "nil" THEN r.n ELSE 0)
  /\ fed' = fed + r.n
  /\ UNCHANGED << bufBase, needEnd >>

Take(r) ==
  /\ buf' = Stored(r)
  /\ bufLen' = bufLen + r.n
  /\ fed' = fed + r.n
  /\ UNCHANGED << bufBase, needEnd >>

Satisfied(r) == bufBase + bufLen + r.n >= needEnd

ReadMore ==
  /\ pc \in {"fill", "slide"}
  /\ \E r \in Reads : r.err = "nil" /\ ~ Satisfied(r) /\ Take(r)
  /\ UNCHANGED << pc, calls, engineVars, searchVars >>
  /\ UNCHANGED << fileSize, bufEnd, checkVars, outcome >>

FillFail ==
  /\ pc = "fill"
  /\ \E r \in Reads :
       /\ r.err # "nil"
       /\ r.err = "eof" => bufLen + r.n = 0
       /\ Take(r)
       /\ pc' = "returned" /\ outcome' = r.err
  /\ UNCHANGED << calls, engineVars, searchVars, fileSize, bufEnd, checkVars >>

\* Less than a block: one literal, however long, and not counted.
FillShort ==
  /\ pc = "fill"
  /\ \E r \in Reads :
       /\ r.err = "eof" /\ bufLen + r.n \in 1 .. BlockSize - 1
       /\ Take(r)
       /\ LET insts == << Literal(Slice(buf', 0, bufLen'), 0) >>
          IN  \E h \in Handed(insts) : results' = insts /\ Return(h, "nil")
  /\ UNCHANGED << calls, engineVars, data, rolling, offset, lastMatch, wantIdx, stats, before >>
  /\ UNCHANGED << fileSize, bufEnd, checkVars >>

FillDone ==
  /\ pc = "fill"
  /\ \E r \in Reads :
       /\ r.err = "eof" \/ (r.err = "nil" /\ Satisfied(r))
       /\ bufLen + r.n >= BlockSize
       /\ Take(r)
  /\ rolling' = Reset(Slice(buf', 0, BlockSize))
  /\ needReset' = FALSE
  /\ bufEnd' = bufBase + bufLen'
  /\ nextBufCheck' = BlockSize /\ nextLiteralCheck' = ChunkSize
  /\ pc' = "stream"
  /\ UNCHANGED << calls, engineVars, data, offset, lastMatch, wantIdx, results, stats, before >>
  /\ UNCHANGED << fileSize, outcome >>

Scanning == pc = "stream" /\ offset + BlockSize <= fileSize

\* Mutant: one block ahead.
OneBlockEnd == Least(offset + BlockSize, fileSize)

SlideEnd == Least(offset + 2 * BlockSize, fileSize)
SlideNeeded == offset >= nextBufCheck /\ bufEnd < SlideEnd

\* Mutant: the bytes kept are counted but not moved.
UnmovedBuf(shift) == buf

ShiftedBuf(shift) ==
  [i \in 1 .. BufCap |-> IF i + shift <= bufLen THEN buf[i + shift] ELSE buf[i]]

\* shiftAndFill up to its reads: what is before literalStart is discarded.
Slide ==
  /\ Scanning /\ SlideNeeded
  /\ LET shift == lastMatch - bufBase
     IN  IF shift <= 0 THEN UNCHANGED << buf, bufBase, bufLen >>
         ELSE /\ bufBase' = lastMatch
              /\ bufLen' = Most(bufLen - shift, 0)
              /\ buf' = ShiftedBuf(shift)
  /\ needEnd' = SlideEnd
  /\ pc' = "slide"
  /\ UNCHANGED << calls, engineVars, searchVars, fileSize, bufEnd, fed, checkVars, outcome >>

\* The window is buffered now: bufEnd >= needEnd >= offset + BlockSize.
SlideDone ==
  /\ pc = "slide"
  /\ \E r \in Reads : r.err = "nil" /\ Satisfied(r) /\ Take(r)
  /\ bufEnd' = bufBase + bufLen'
  /\ pc' = "stream"
  /\ UNCHANGED << calls, engineVars, searchVars, fileSize, checkVars, outcome >>

\* flushRemaining: what is buffered from literalStart on, up to fileSize.
Remaining(b, len) ==
  LET end == Least(bufBase + len, fileSize)
  IN  IF lastMatch >= end THEN << >>
      ELSE Chunks(Slice(b, lastMatch - bufBase, end - bufBase), lastMatch)

\* An error of the reader, EOF included, ends the scan: the rest of the
\* buffer is sent literally.
SlideFail ==
  /\ pc = "slide"
  /\ \E r \in Reads :
       /\ r.err # "nil"
       /\ Take(r)
       /\ \E h \in Handed(Remaining(buf', bufLen')) :
            /\ Give(Remaining(buf', bufLen'), h)
            /\ Return(h, Hidden(r.err))
  /\ UNCHANGED << calls, engineVars, data, rolling, offset, lastMatch, wantIdx, before >>
  /\ UNCHANGED << fileSize, bufEnd, checkVars >>

-----------------------------------------------------------------------------
(* The scan *)

\* The bytes buffered for the offsets lo to hi, whether or not they were read.
Buffered(lo, hi) == Slice(buf, lo - bufBase, hi - bufBase)

StreamWindow == Buffered(offset, offset + BlockSize)

\* Mutant: the sum is not taken anew after a match.
KeptSum == rolling

CurrentSum == IF needReset THEN Reset(StreamWindow) ELSE rolling

WindowChecked ==
  /\ Scanning /\ ~ SlideNeeded
  /\ nextBufCheck' = IF needReset \/ offset >= nextBufCheck
                     THEN offset + BlockSize ELSE nextBufCheck

StreamMatch ==
  /\ WindowChecked
  /\ LET v == Value(CurrentSum)
         w == StreamWindow
         literals == Chunks(Buffered(lastMatch, offset), lastMatch)
     IN  \E k \in Compared(v) :
           /\ Agrees(v, w, k)
           /\ \A j \in Compared(v) : j < k => ~ Agrees(v, w, j)
           /\ wantIdx' = Preferred(v, w, k) + 1
           /\ LET insts == Append(literals, Match(Preferred(v, w, k), offset))
              IN  \E h \in Handed(insts) :
                    /\ results' = results \o SubSeq(insts, 1, h.given)
                    /\ stats' = [GivenStats(insts, h) EXCEPT
                         !.hashHits = @ + HashHits(v),
                         !.falseAlarms = @ + Cardinality({j \in Compared(v) : j < k})]
                    /\ Continue(h, pc)
  /\ lastMatch' = offset + BlockSize /\ offset' = offset + BlockSize
  /\ nextLiteralCheck' = offset + BlockSize + ChunkSize
  /\ needReset' = TRUE
  /\ rolling' = CurrentSum
  /\ UNCHANGED << calls, engineVars, data, before, fileSize, bufVars >>

\* The literals of a miss: a chunk, once the backlog is one.
Backlog ==
  IF offset >= nextLiteralCheck
  THEN Chunks(Buffered(lastMatch, lastMatch + ChunkSize), lastMatch) ELSE << >>

\* Mutant: the byte that enters is taken a position early.
EarlyNewByte == buf[offset - bufBase + BlockSize]

NewByte == buf[offset - bufBase + BlockSize + 1]

StreamMiss ==
  /\ WindowChecked
  /\ LET v == Value(CurrentSum)
     IN  /\ \A k \in Compared(v) : ~ Agrees(v, StreamWindow, k)
         /\ \E h \in Handed(Backlog) :
              /\ results' = results \o SubSeq(Backlog, 1, h.given)
              /\ stats' = [GivenStats(Backlog, h) EXCEPT
                             !.hashHits = @ + HashHits(v),
                             !.falseAlarms = @ + Cardinality(Compared(v))]
              /\ Continue(h, pc)
  /\ lastMatch' = lastMatch + (IF offset >= nextLiteralCheck THEN ChunkSize ELSE 0)
  /\ nextLiteralCheck' = IF offset >= nextLiteralCheck
                         THEN lastMatch' + ChunkSize ELSE nextLiteralCheck
  /\ rolling' = IF offset + BlockSize < fileSize
                THEN Roll(CurrentSum, buf[offset - bufBase + 1], NewByte, BlockSize)
                ELSE CurrentSum
  /\ offset' = NextOffset
  /\ needReset' = FALSE
  /\ UNCHANGED << calls, engineVars, data, wantIdx, before, fileSize, bufVars >>

StreamTailBlocks ==
  {i \in 1 .. Len(checksums) :
     /\ checksums[i].index * BlockSize = lastMatch
     /\ checksums[i].length = fileSize - lastMatch
     /\ bufBase + bufLen >= fileSize
     /\ checksums[i].sum1 = Checksum1(Buffered(lastMatch, fileSize))
     /\ checksums[i].sum2 = Strong(Buffered(lastMatch, fileSize))}

\* The instructions for what is left after the scan.
StreamTail ==
  IF lastMatch < fileSize /\ StreamTailBlocks # {}
  THEN << Match(checksums[Max(StreamTailBlocks)].index, lastMatch) >>
  ELSE Remaining(buf, bufLen)

StreamEnd ==
  /\ pc = "stream" /\ offset + BlockSize > fileSize
  /\ \E h \in Handed(StreamTail) : Give(StreamTail, h) /\ Return(h, "nil")
  /\ UNCHANGED << calls, engineVars, data, rolling, offset, lastMatch, wantIdx, before >>
  /\ UNCHANGED << fileSize, bufVars, checkVars >>

-----------------------------------------------------------------------------
ReaderReturn ==
  \/ StreamLiterals \/ LiteralsEnd
  \/ ReadMore \/ FillFail \/ FillShort \/ FillDone
  \/ Slide \/ SlideDone \/ SlideFail
  \/ StreamMatch \/ StreamMiss \/ StreamEnd

\* The engine's own steps leave the reader alone.
EngineStep ==
  /\ \/ \E f \in Bases : LoadSignature(f)
     \/ LoadNil \/ Rest
     \/ Progress
  /\ UNCHANGED readerVars

\* The same engine also searches in memory.
CallSearch(d) ==
  /\ Search(d)
  /\ outcome' = "batch"
  /\ UNCHANGED << fileSize, bufVars, checkVars >>

ReaderNext ==
  \/ EngineStep
  \/ \E d \in Searched : CallSearch(d)
  \/ \E d \in Inputs : \E size \in FileSizes(d) : CallReader(d, size)
  \/ ReaderReturn

ReaderSpec == ReaderInit /\ [][ReaderNext]_allVars

\* The call runs on its caller's goroutine, and its reader makes progress:
\* a Read that returns neither bytes nor an error is not among Reads.
FairReaderSpec ==
  ReaderSpec /\ WF_allVars(ReaderReturn)
             /\ WF_allVars(Progress /\ UNCHANGED readerVars)

-----------------------------------------------------------------------------
(* Properties *)

\* The buffer holds the source at its place: buf[0:bufLen] is
\* data[bufBase:bufBase+bufLen], and these are the last bytes the reader gave,
\* through every shift and refill.
BufferMirrorsSource ==
  pc \in {"fill", "slide", "stream"} =>
    /\ fed = bufBase + bufLen
    /\ SubSeq(buf, 1, bufLen) = Slice(data, bufBase, fed)

\* search.go:224 "Ensure we have 2 x blockSize bytes ahead for rolling
\* safety", search.go:247 "data is now guaranteed available": the window, and
\* the byte the roll takes in, were read before they are looked at.
WindowBuffered ==
  Scanning /\ ~ SlideNeeded =>
    /\ bufBase <= lastMatch
    /\ Least(offset + BlockSize + 1, fileSize) <= bufBase + bufLen

\* The sum of the window at the head of the loop, as in batch Search.
StreamRollingInSync ==
  Scanning /\ ~ SlideNeeded /\ offset + BlockSize <= bufBase + bufLen =>
    CurrentSum = Reset(Slice(data, offset, offset + BlockSize))

\* Success on a source of the size announced.
Success == pc = "returned" /\ outcome = "nil" /\ fileSize = Len(data)

\* Bytes the caller announced that were there and were not asked for: after a
\* match whose end is less than a block from the end of the source, the scan
\* ends without a look at the buffer (search.go:221).
Unread == fed < Least(fileSize, Len(data))

\* A call that returns nil has sent all of the source, however its reads are
\* cut: delta_extra_test.go:662 compares what is rebuilt with what Search sent,
\* "output differs from batch for chunk size %d".
WholeDelivered == Success => Rebuilds(basis, data, results, Len(data))

\* SearchReader refers to the blocks Search refers to, in the same places,
\* however the source is cut into reads (delta_test.go:657, "Verify
\* SearchReader produces identical results to Search").  A block that the probe
\* limits hide can still be found at the tail, and literals sent early put the
\* tail in other places than in Search.
SameAsBatch ==
  Success /\ ~ Unread /\ AmpleProbes =>
    References(results) = References(SearchResult(basis, KnownBlocks, data))

\* A batch search is the function of its arguments that it is on a new engine,
\* whatever signatures and streams the engine has served before it.
SearchUndisturbed == outcome = "batch" => ComputesSearchResult

\* What the callback was given and accepted; a literal refused is not counted.
\* The one literal of a source shorter than a block (search.go:187) never is.
Counted == outcome \in {"none", "nil", "io"} /\ (pc = "returned" => fed >= BlockSize)

\* Over any sequence of calls, what each adds to the statistics is what its own
\* instructions amount to, streamed or not (types.go:76).
CallsCounted ==
  \/ outcome = "batch" /\ pc \in {"scan", "tail", "returned"}
  \/ Counted /\ pc \in {"stream", "returned"}
  =>
    /\ stats.matches - before.matches = MatchCount(results)
    /\ stats.literalBytes - before.literalBytes = LiteralCount(results)

\* Every call returns, whatever the sizes of its reads.
StreamReturns == ~ AtRest ~> AtRest

\* SearchReader keeps the promise every sender makes, for the bytes of the
\* announced size that the reader has; a call that leaves some of them unread
\* counts as failed, though it returns nil.
ReaderVerdict ==
  CASE pc \in {"idle", "build"} -> "idle"
    [] pc = "returned" ->
         IF outcome = "batch" \/ (outcome = "nil" /\ ~ Unread) THEN "ok" ELSE "failed"
    [] OTHER -> "open"

ReaderSender == INSTANCE DeltaSender WITH
  source <- IF outcome = "batch" THEN data ELSE Slice(data, 0, Least(fileSize, Len(data))),
  sent <- results, verdict <- ReaderVerdict,
  Inputs <- Seq(Byte)

ReaderKeepsPromise == ReaderSender!SenderSpec
=============================================================================
