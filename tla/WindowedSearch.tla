---------------------------- MODULE WindowedSearch ----------------------------
(***************************************************************************)
(* The parallel searches an engine's owner may call: SearchParallel on a   *)
(* source in memory, and SearchReaderParallel (search.go) on a reader.     *)
(*                                                                         *)
(* SearchReaderParallel reads windows of a fixed size, gives each to       *)
(* SearchParallel - the steps of module ParallelSearch - and hands the     *)
(* results to a callback with their offsets moved to the window's place    *)
(* in the file.                                                            *)
(***************************************************************************)
EXTENDS ParallelSearch

CONSTANTS
  FileSizes(_),  \* the sizes a caller may announce for a source
  WindowSizes,   \* window sizes; zero and less go to SearchReader
  GOMAXPROCS,    \* stands in for a worker count of zero or less
  ReadFails,     \* whether a read may fail
  CallbackFails  \* whether the callback may return an error

ASSUME WindowedAssumption ==
  /\ \A d \in Inputs : FileSizes(d) \subseteq Int
  /\ WindowSizes \subseteq Nat \ {0}
  /\ GOMAXPROCS \in Nat \ {0}
  /\ {ReadFails, CallbackFails} \subseteq BOOLEAN

VARIABLES
  loop,        \* SearchReaderParallel: "none", "read", "search" or "returned"
  source,      \* what the reader has to give
  fileSize,    \* fileSize, as the caller announces it
  windowSize,  \* windowSize
  workers,     \* workers, after the default
  base,        \* base: the place of the window in the file
  remaining,   \* remaining
  readErr,     \* err of the read that filled the window
  given,       \* what the callback has been given
  outcome      \* what the call returned

readerVars == << source, fileSize, windowSize, workers >>
loopVars == << loop, readerVars, base, remaining, readErr, given, outcome >>
vars == << parallelVars, loopVars >>

LoopAtRest == loop \in {"none", "returned"}

Init ==
  /\ ParallelInit
  /\ loop = "none" /\ source = << >> /\ fileSize = 0 /\ windowSize = 1 /\ workers = 1
  /\ base = 0 /\ remaining = 0 /\ readErr = "nil" /\ given = << >> /\ outcome = "none"

\* The engine's owner loads a signature; SearchReaderParallel is over.
Load(f, s) ==
  /\ LoopAtRest
  /\ LoadSignature(f, s)
  /\ loop' = "none" /\ source' = << >> /\ given' = << >>
  /\ UNCHANGED << fileSize, windowSize, workers, base, remaining, readErr, outcome >>

\* The engine's owner calls SearchParallel.
CallSearchParallel(d, n) ==
  /\ LoopAtRest /\ calls < MaxCalls
  /\ SearchParallel(d, n)
  /\ calls' = calls + 1
  /\ UNCHANGED loopVars

SearchReaderParallel(d, size, w, n) ==
  /\ LoopAtRest /\ AtRest /\ calls < MaxCalls
  /\ calls' = calls + 1
  /\ source' = d /\ fileSize' = size /\ windowSize' = w
  /\ workers' = IF n <= 0 THEN GOMAXPROCS ELSE n
  /\ base' = 0 /\ remaining' = size
  /\ readErr' = "nil" /\ given' = << >> /\ outcome' = "none"
  /\ loop' = "read"
  /\ UNCHANGED << pc, engineVars, callVars, workVars, results, stats >>

\* io.ReadFull of so many bytes.
FullReads(want) ==
  LET n == Least(want, Len(source) - base)
  IN  {[n |-> n, err |-> IF n < want THEN "eof" ELSE "nil"]}
      \cup {[n |-> k, err |-> "io"] : k \in {m \in 0 .. n : ReadFails /\ m < want}}

\* Mutant: an error along with bytes is forgotten.
ErrorOfEmpty(h) ==
  IF h.err = "callback" THEN "callback" ELSE "nil"

\* What the call returns: the callback's error, else that of the read, where
\* the end of the file is none.
Returned(h) ==
  IF h.err = "callback" THEN "callback" ELSE IF readErr = "io" THEN "io" ELSE "nil"

\* A window is read; an empty one is not searched.
ReadWindow ==
  /\ loop = "read" /\ remaining > 0
  /\ \E r \in FullReads(Least(windowSize, remaining)) :
       IF r.n = 0
       THEN /\ loop' = "returned" /\ outcome' = IF r.err = "io" THEN "io" ELSE "nil"
            /\ UNCHANGED << parallelVars, readErr >>
       ELSE /\ SearchParallel(Slice(source, base, base + r.n), workers)
            /\ readErr' = r.err
            /\ loop' = "search"
            /\ UNCHANGED << calls, outcome >>
  /\ UNCHANGED << readerVars, base, remaining, given >>

\* The callback accepts all of insts, or returns an error for one of them.
Handed(insts) ==
  {[given |-> Len(insts), err |-> "nil"]} \cup
  {[given |-> k, err |-> "callback"] : k \in {m \in 1 .. Len(insts) : CallbackFails}}

\* The results moved from the window to their place in the file.
Moved(insts) == [k \in DOMAIN insts |-> [insts[k] EXCEPT !.offset = @ + base]]

\* SearchParallel has returned; its results are handed to the callback.
HandOver ==
  /\ loop = "search" /\ pc = "returned"
  /\ \E h \in Handed(results) :
       /\ given' = given \o SubSeq(Moved(results), 1, h.given)
       /\ IF h.err = "callback"
          THEN UNCHANGED << base, remaining >>
          ELSE /\ base' = base + Len(data)
               /\ remaining' = remaining - Len(data)
       /\ IF readErr = "nil" /\ h.err = "nil"
          THEN loop' = "read" /\ UNCHANGED outcome
          ELSE loop' = "returned" /\ outcome' = Returned(h)
  /\ UNCHANGED << parallelVars, readerVars, readErr >>

AllRead ==
  /\ loop = "read" /\ remaining <= 0
  /\ loop' = "returned" /\ outcome' = "nil"
  /\ UNCHANGED << parallelVars, readerVars, base, remaining, readErr, given >>

\* The engine's owner has made all the calls the bound allows.
Rest == LoopAtRest /\ AtRest /\ calls = MaxCalls /\ UNCHANGED vars

Loop == ReadWindow \/ HandOver \/ AllRead

Next ==
  \/ \E f \in Bases : \E s \in Reachable(f) : Load(f, s)
  \/ \E d \in Inputs, n \in Workers : CallSearchParallel(d, n)
  \/ \E d \in Inputs, w \in WindowSizes, n \in Workers :
       \E size \in FileSizes(d) : SearchReaderParallel(d, size, w, n)
  \/ Loop
  \/ Caller /\ UNCHANGED loopVars
  \/ Worker /\ UNCHANGED loopVars
  \/ Rest

Spec == Init /\ [][Next]_vars

\* Go runs the caller's goroutine and each goroutine it started; reads and
\* callbacks return.
FairSpec ==
  /\ Spec
  /\ WF_vars(Loop)
  /\ WF_vars(Caller /\ UNCHANGED loopVars)
  /\ WF_vars(Worker /\ UNCHANGED loopVars)

-----------------------------------------------------------------------------
(* Properties *)

\* Every call returns, whichever of the two it is: no worker waits for room
\* in the channel, no collector for a result that nobody sends.
ParallelReturns == ~ (AtRest /\ LoopAtRest) ~> (AtRest /\ LoopAtRest)

\* The windows a source is read in, and the pieces each is searched in: the
\* places from which the search begins anew.
Windows(d) == (Len(d) + windowSize - 1) \div windowSize

WindowAt(d, k) ==
  Slice(d, k * windowSize, Least(k * windowSize + windowSize, Len(d)))

PieceCount(w) == IF Serial(basis, w, workers) THEN 1 ELSE WorkerCount(w, workers)

Pieces(d) ==
  {c \in (0 .. Windows(d) - 1) \X (0 .. workers - 1) : c[2] < PieceCount(WindowAt(d, c[1]))}

\* The loss at the boundaries of windows and of segments, together: "at most
\* a block or two of compression per boundary" (search.go:715).  It is a block
\* for each piece: a match of the serial search may straddle each boundary, and
\* at the end of the source it may refer to a block that the table has lost.  A
\* piece that starts out of step with the serial search falls into step.
WindowLoss ==
  loop = "returned" /\ outcome = "nil" /\ given # << >> =>
    LET whole == Slice(source, 0, Least(fileSize, Len(source)))
    IN  LiteralCount(given) <=
          LiteralCount(SearchResult(basis, known, whole))
          + BlockSize * Cardinality(Pieces(whole))

\* SearchReaderParallel keeps the promise every sender makes, at any window
\* size, over readers that end early or fail and callbacks that refuse.
LoopVerdict ==
  CASE loop = "none" -> "idle"
    [] loop \in {"read", "search"} -> "open"
    [] loop = "returned" -> IF outcome = "nil" THEN "ok" ELSE "failed"

LoopSender == INSTANCE DeltaSender WITH
  source <- Slice(source, 0, Least(fileSize, Len(source))),
  sent <- given, verdict <- LoopVerdict,
  Inputs <- Seq(Byte)

WindowedKeepsPromise == LoopSender!SenderSpec
=============================================================================
