---------------------------- MODULE ParallelSearch ----------------------------
(***************************************************************************)
(* SearchParallel (search.go): the source is cut into segments of whole    *)
(* blocks, one goroutine searches each, and the caller merges their        *)
(* results in the order of the file.                                       *)
(*                                                                         *)
(* The goroutines share the table and the checksums read-only; each works  *)
(* on a fork of the engine (engine.go), so its search is one step here,    *)
(* ending with its send.  They are interleaved with each other, with the   *)
(* loop that starts them and with the loop that collects.                  *)
(* WindowedSearch composes these steps with the calls that lead to them.   *)
(***************************************************************************)
EXTENDS SearchResults

CONSTANTS
  Bases,         \* the receiver's files, whose signatures are loaded
  Inputs,        \* the source files that are searched
  Reachable(_),  \* for a basis, the sets of blocks its table may lead to
  Workers,       \* the values of numWorkers callers pass
  MaxCalls       \* bound: calls on one engine

ASSUME ParallelAssumption ==
  /\ Bases \subseteq Seq(Byte) /\ Inputs \subseteq Seq(Byte)
  /\ \A f \in Bases : \A s \in Reachable(f) : s \subseteq 0 .. NumBlocks(f) - 1
  /\ Workers \subseteq Int
  /\ MaxCalls \in Nat

VARIABLES
  pc,          \* "idle", "called", "launch", "collect" or "returned"
  calls,       \* calls made so far
  basis,       \* the file the loaded signature is of
  known,       \* the blocks its table leads to
  data,        \* the argument of the current call
  asked,       \* numWorkers as the caller passed it
  numWorkers,  \* numWorkers after the adjustment
  launched,    \* i of the loop that starts the goroutines
  searching,   \* the goroutines that have not sent
  ch,          \* the channel, with room for numWorkers results
  received,    \* i of the loop that collects
  segResults,  \* segResults
  results,     \* what the call returned
  stats,       \* Matches and LiteralBytes of the engine
  before       \* history: stats when the current call began

engineVars == << basis, known >>
callVars == << data, asked, before >>
workVars == << numWorkers, launched, searching, ch, received, segResults >>
parallelVars == << pc, calls, engineVars, callVars, workVars, results, stats >>

AtRest == pc \in {"idle", "returned"}

ParallelInit ==
  /\ pc = "idle" /\ calls = 0
  /\ basis = << >> /\ known = {}
  /\ data = << >> /\ asked = 0 /\ numWorkers = 0
  /\ launched = 0 /\ searching = {} /\ ch = << >> /\ received = 0
  /\ segResults = << >> /\ results = << >>
  /\ stats = [matches |-> 0, literalBytes |-> 0] /\ before = stats

\* Another signature is loaded (MatchEngine models how).
LoadSignature(f, s) ==
  /\ AtRest /\ calls < MaxCalls
  /\ calls' = calls + 1
  /\ pc' = "idle"
  /\ basis' = f /\ known' = s
  /\ results' = << >> /\ data' = << >>
  /\ UNCHANGED << asked, before, workVars, stats >>

\* Matches and LiteralBytes grow by what is returned.
Tally(insts) ==
  [matches      |-> stats.matches + MatchCount(insts),
   literalBytes |-> stats.literalBytes + LiteralCount(insts)]

SearchParallel(d, n) ==
  /\ AtRest
  /\ data' = d /\ asked' = n /\ before' = stats
  /\ results' = << >>
  /\ pc' = "called"
  /\ UNCHANGED << engineVars, workVars, stats >>

\* Too little to split: the caller's goroutine does it all.
SearchSerially ==
  /\ pc = "called" /\ Serial(basis, data, asked)
  /\ results' = SearchResult(basis, known, data)
  /\ stats' = Tally(results')
  /\ pc' = "returned"
  /\ UNCHANGED << calls, engineVars, callVars, workVars >>

Split ==
  /\ pc = "called" /\ ~ Serial(basis, data, asked)
  /\ numWorkers' = WorkerCount(data, asked)
  /\ launched' = 0 /\ searching' = {} /\ ch' = << >> /\ received' = 0
  /\ segResults' = [s \in 1 .. numWorkers' |-> << >>]
  /\ pc' = "launch"
  /\ UNCHANGED << calls, engineVars, callVars, results, stats >>

Launch ==
  /\ pc = "launch" /\ launched < numWorkers
  /\ searching' = searching \cup {launched}
  /\ launched' = launched + 1
  /\ UNCHANGED << pc, calls, engineVars, callVars, results, stats >>
  /\ UNCHANGED << numWorkers, ch, received, segResults >>

LaunchEnd ==
  /\ pc = "launch" /\ launched = numWorkers
  /\ pc' = "collect"
  /\ UNCHANGED << calls, engineVars, callVars, workVars, results, stats >>

\* Goroutine i searches its segment and sends what belongs to it.
WorkerSend(i) ==
  /\ i \in searching
  /\ Len(ch) < numWorkers
  /\ ch' = Append(ch, [segID   |-> i,
                       results |-> SegmentResult(basis, known, data, asked, i)])
  /\ searching' = searching \ {i}
  /\ UNCHANGED << pc, calls, engineVars, callVars, results, stats >>
  /\ UNCHANGED << numWorkers, launched, received, segResults >>

\* Mutants: the place of arrival; one result for each worker asked for.
ArrivalSlot(sr) == received + 1
AskedFor == asked

SlotOf(sr) == sr.segID + 1
Expected == numWorkers

Collect ==
  /\ pc = "collect" /\ received < Expected
  /\ ch # << >>
  /\ segResults' = [segResults EXCEPT ![SlotOf(Head(ch))] = Head(ch).results]
  /\ ch' = Tail(ch)
  /\ received' = received + 1
  /\ UNCHANGED << pc, calls, engineVars, callVars, results, stats >>
  /\ UNCHANGED << numWorkers, launched, searching >>

Merge ==
  /\ pc = "collect" /\ received >= Expected
  /\ results' = FlattenSeq(segResults)
  /\ stats' = Tally(results')
  /\ pc' = "returned"
  /\ UNCHANGED << calls, engineVars, callVars, workVars >>

Caller == SearchSerially \/ Split \/ Launch \/ LaunchEnd \/ Collect \/ Merge
Worker == \E i \in searching : WorkerSend(i)

-----------------------------------------------------------------------------
(* Properties *)

\* Whichever worker finishes first, the call returns the same list, the segments'
\* results in the order of the file; its statistics are those of that list
\* ("repeated SearchParallel calls accumulate the same way Search does"), not of
\* the overlapping windows the workers searched; and every goroutine has sent
\* and every result was received, so that none leaks into the next call.
OrderOfFinishIrrelevant ==
  pc = "returned" =>
    /\ results = ParallelResult(basis, known, data, asked)
    /\ stats.matches - before.matches = MatchCount(results)
    /\ stats.literalBytes - before.literalBytes = LiteralCount(results)
    /\ searching = {} /\ ch = << >>

\* SearchParallel keeps the promise every sender makes.
Verdict ==
  CASE pc = "idle" -> "idle"
    [] pc \in {"called", "launch", "collect"} -> "open"
    [] pc = "returned" -> "ok"

Sender == INSTANCE DeltaSender WITH
  source <- data, sent <- results, verdict <- Verdict,
  Inputs <- Seq(Byte)

ParallelKeepsPromise == Sender!SenderSpec
=============================================================================
