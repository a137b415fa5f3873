--------------------------- MODULE ParallelProofs ---------------------------
(***************************************************************************)
(* SearchParallel and SearchReaderParallel, for every source, basis, table *)
(* and number of workers, every size of windows and every order in which   *)
(* the goroutines start, send and are collected: the call returns the      *)
(* segments' results in the order of the file, both calls keep the promise *)
(* every sender makes, and the boundaries of windows and segments cost at  *)
(* most a block of compression each.                                       *)
(*                                                                         *)
(* At the heart is where the segments are while a call gathers them: each  *)
(* one that was started is being searched, lies in the channel with the    *)
(* worker's name on it, or is in its place; and as many are in one of the  *)
(* first two states as the collector has still to wait for.                *)
(***************************************************************************)
EXTENDS WindowedSearch, BlocksProofs

Statistics == [matches : Nat, literalBytes : Nat]

\* What a worker sends.
Message == [segID : Nat, results : Seq(Instruction)]

\* A segment's results and the number of the worker they come from.
IsMessage(x, f, k, d, n, W) ==
  x.segID \in 0 .. W - 1 /\ x.results = SegmentResult(f, k, d, n, x.segID)

SharedInv ==
  /\ basis \in Seq(Byte) /\ basis \in Bases \cup {<< >>}
  /\ AreBlocks(basis, known)

CallInv ==
  /\ pc \in {"idle", "called", "launch", "collect", "returned"}
  /\ data \in Seq(Byte) /\ asked \in Int
  /\ stats \in Statistics /\ before \in Statistics
  /\ pc \in {"called", "launch", "collect"} => results = << >> /\ stats = before
  /\ pc = "returned" =>
       /\ results = ParallelResult(basis, known, data, asked)
       /\ stats.matches = before.matches + MatchCount(results)
       /\ stats.literalBytes = before.literalBytes + LiteralCount(results)

\* Between calls nobody searches and nothing lies in the channel.
QuietInv == pc \in {"idle", "called", "returned"} => searching = {} /\ ch = << >>

\* The workers started so far, and those whose results are not collected.
Started == 0 .. launched - 1
Sent == {ch[k].segID : k \in 1 .. Len(ch)}

GatherInv ==
  pc \in {"launch", "collect"} =>
    /\ ~ Serial(basis, data, asked) /\ numWorkers = WorkerCount(data, asked)
    /\ launched \in 0 .. numWorkers /\ (pc = "collect" => launched = numWorkers)
    /\ searching \subseteq Started /\ IsFiniteSet(searching)
    /\ ch \in Seq(Message)
    /\ \A k \in 1 .. Len(ch) :
         IsMessage(ch[k], basis, known, data, asked, numWorkers)
    /\ received \in Nat
    /\ received + Len(ch) + Cardinality(searching) = launched
    /\ segResults \in [1 .. numWorkers -> Seq(Instruction)]
    /\ \A s \in (Started \ searching) \ Sent :
         segResults[s + 1] = SegmentResult(basis, known, data, asked, s)

IInv == SharedInv /\ CallInv /\ QuietInv /\ GatherInv

\* The bytes a caller of SearchReaderParallel asks to have sent.
AskedOf(d, size) == Slice(d, 0, Least(size, Len(d)))
Asked == AskedOf(source, fileSize)

LoopInv ==
  /\ loop \in {"none", "read", "search", "returned"}
  /\ source \in Seq(Byte) /\ fileSize \in Int
  /\ windowSize \in Nat \ {0} /\ workers \in Int
  /\ loop = "none" => source = << >> /\ given = << >>
  /\ loop \in {"read", "search"} =>
       /\ base \in 0 .. Len(Asked) /\ remaining = fileSize - base
       /\ given \in Seq(Instruction) /\ Rebuilds(basis, Asked, given, base)
       /\ outcome = "none"
  /\ loop = "read" => AtRest
  /\ loop = "search" =>
       /\ pc \in {"called", "launch", "collect", "returned"} /\ asked = workers
       /\ base + Len(data) <= Len(Asked)
       /\ data = Slice(Asked, base, base + Len(data))
       /\ readErr \in {"nil", "eof", "io"}
       /\ readErr = "eof" => base + Len(data) = Len(Asked)

FullInv == IInv /\ LoopInv

-----------------------------------------------------------------------------
(* The goroutines and the channel *)

gatherVars == << pc, engineVars, callVars, workVars, results, stats >>

\* What the functions of the call return.
LEMMA CallResult ==
  ASSUME SharedInv, CallInv
  PROVE  /\ ParallelResult(basis, known, data, asked) \in Seq(Instruction)
         /\ Rebuilds(basis, data, ParallelResult(basis, known, data, asked), Len(data))
BY ParallelRebuilds DEF SharedInv, CallInv

LEMMA MatchCountType ==
  ASSUME NEW insts \in Seq(Instruction)
  PROVE  MatchCount(insts) \in Nat
<1> DEFINE p == [k \in DOMAIN insts |->
                   IF insts[k].isLiteral THEN << >> ELSE << insts[k] >>]
<1>1. DOMAIN insts = 1 .. Len(insts) /\ Len(insts) \in Nat
  BY LenProperties
<1>2. p \in Seq(Seq(Instruction))
  <2>1. \A k \in 1 .. Len(insts) : p[k] \in Seq(Instruction)
    BY <1>1, ElementOfSeq
  <2>2. p = [k \in 1 .. Len(insts) |-> p[k]]
    BY <1>1
  <2> HIDE DEF p
  <2>3. p \in [1 .. Len(insts) -> Seq(Instruction)]
    BY <2>1, <2>2
  <2> QED BY <1>1, <2>3
<1> HIDE DEF p
<1>3. FlattenSeq(p) \in Seq(Instruction)
  BY <1>2, FlattenType
<1>4. Len(FlattenSeq(p)) \in Nat
  BY <1>3, LenProperties
<1> QED BY <1>4 DEF MatchCount, References, p

LEMMA InitIInv == Init => IInv
<1> SUFFICES ASSUME Init PROVE IInv
  OBVIOUS
<1> USE DEF Init, ParallelInit
<1>1. SharedInv
  BY EmptySeq DEF SharedInv, AreBlocks
<1>2. CallInv
  BY EmptySeq DEF CallInv, Statistics
<1>3. QuietInv /\ GatherInv
  BY DEF QuietInv, GatherInv
<1> QED BY <1>1, <1>2, <1>3 DEF IInv

LEMMA KeptIInv ==
  ASSUME IInv, UNCHANGED gatherVars
  PROVE  IInv'
<1>0. /\ pc' = pc /\ basis' = basis /\ known' = known /\ data' = data /\ asked' = asked
      /\ before' = before /\ results' = results /\ stats' = stats
      /\ numWorkers' = numWorkers /\ launched' = launched /\ searching' = searching
      /\ ch' = ch /\ received' = received /\ segResults' = segResults
  BY DEF gatherVars, engineVars, callVars, workVars
<1>1. SharedInv'
  BY <1>0 DEF IInv, SharedInv
<1>2. CallInv'
  BY <1>0 DEF IInv, CallInv
<1>3. QuietInv'
  BY <1>0 DEF IInv, QuietInv
<1>4. GatherInv'
  BY <1>0, Zenon DEF IInv, GatherInv, Started, Sent
<1> QED BY <1>1, <1>2, <1>3, <1>4 DEF IInv

LEMMA LoadIInv ==
  ASSUME IInv, NEW f \in Bases, NEW s \in Reachable(f), LoadSignature(f, s)
  PROVE  IInv'
<1>0. /\ pc \in {"idle", "returned"} /\ pc' = "idle" /\ basis' = f /\ known' = s
      /\ data' = << >> /\ asked' = asked /\ stats' = stats /\ before' = before
      /\ searching' = searching /\ ch' = ch
  BY DEF LoadSignature, AtRest, callVars, workVars
<1>1. SharedInv'
  <2>1. f \in Seq(Byte) /\ s \subseteq 0 .. NumBlocks(f) - 1
    BY ParallelAssumption
  <2> QED BY <1>0, <2>1 DEF SharedInv, AreBlocks
<1>2. CallInv'
  BY <1>0, EmptySeq DEF IInv, CallInv
<1>3. QuietInv'
  BY <1>0 DEF IInv, QuietInv
<1>4. GatherInv'
  BY <1>0 DEF GatherInv
<1> QED BY <1>1, <1>2, <1>3, <1>4 DEF IInv

LEMMA CallIInv ==
  ASSUME IInv, NEW d \in Seq(Byte), NEW n \in Int, SearchParallel(d, n)
  PROVE  IInv'
<1>0. /\ pc \in {"idle", "returned"} /\ pc' = "called"
      /\ basis' = basis /\ known' = known
      /\ data' = d /\ asked' = n /\ stats' = stats /\ before' = stats /\ results' = << >>
      /\ searching' = searching /\ ch' = ch
  BY DEF SearchParallel, AtRest, engineVars, workVars
<1>1. SharedInv'
  BY <1>0 DEF IInv, SharedInv
<1>2. CallInv'
  BY <1>0 DEF IInv, CallInv
<1>3. QuietInv'
  BY <1>0 DEF IInv, QuietInv
<1>4. GatherInv'
  BY <1>0 DEF GatherInv
<1> QED BY <1>1, <1>2, <1>3, <1>4 DEF IInv

\* The call returns r, which is what it should, and nobody is left.
LEMMA ReturnIInv ==
  ASSUME IInv, pc \in {"called", "launch", "collect"},
         pc' = "returned", UNCHANGED << engineVars, callVars, workVars >>,
         results' = ParallelResult(basis, known, data, asked), stats' = Tally(results'),
         searching = {}, ch = << >>
  PROVE  IInv'
<1> DEFINE r == ParallelResult(basis, known, data, asked)
<1>0. /\ basis' = basis /\ known' = known /\ data' = data /\ asked' = asked
      /\ before' = before /\ searching' = searching /\ ch' = ch
  BY DEF engineVars, callVars, workVars
<1>1. SharedInv'
  BY <1>0 DEF IInv, SharedInv
<1>2. r \in Seq(Instruction)
  BY CallResult DEF IInv
<1>3. MatchCount(r) \in Nat /\ LiteralCount(r) \in Nat
  <2> HIDE DEF r
  <2> QED BY <1>2, MatchCountType, LiteralCountType
<1>4. results' = r
  OBVIOUS
<1> HIDE DEF r
<1>5. stats = before /\ stats \in Statistics
  BY DEF IInv, CallInv
<1>6. stats' = [matches      |-> before.matches + MatchCount(r),
                literalBytes |-> before.literalBytes + LiteralCount(r)]
  BY <1>4, <1>5 DEF Tally
<1>7. CallInv'
  <2>1. /\ stats' \in Statistics
        /\ stats'.matches = before'.matches + MatchCount(r)
        /\ stats'.literalBytes = before'.literalBytes + LiteralCount(r)
    BY <1>0, <1>3, <1>5, <1>6 DEF Statistics
  <2>2. results' = ParallelResult(basis', known', data', asked')
    BY <1>0
  <2>3. data' \in Seq(Byte) /\ asked' \in Int /\ before' \in Statistics
    BY <1>0 DEF IInv, CallInv
  <2> QED BY <1>4, <2>1, <2>2, <2>3, Zenon DEF CallInv
<1>8. QuietInv' /\ GatherInv'
  BY <1>0 DEF QuietInv, GatherInv
<1> QED BY <1>1, <1>7, <1>8 DEF IInv

LEMMA SerialIInv ==
  ASSUME IInv, SearchSerially
  PROVE  IInv'
<1>1. /\ pc = "called" /\ pc' = "returned" /\ UNCHANGED << engineVars, callVars, workVars >>
      /\ results' = SearchResult(basis, known, data) /\ stats' = Tally(results')
  BY DEF SearchSerially
<1>2. results' = ParallelResult(basis, known, data, asked)
  BY <1>1 DEF SearchSerially, ParallelResult
<1>3. searching = {} /\ ch = << >>
  BY <1>1 DEF IInv, QuietInv
<1> QED BY <1>1, <1>2, <1>3, ReturnIInv

\* What the steps between a call's start and its return leave alone.
callerVars == << engineVars, callVars, results, stats >>

LEMMA GatheringKeeps ==
  ASSUME IInv, UNCHANGED callerVars,
         pc \in {"called", "launch", "collect"}, pc' \in {"launch", "collect"}
  PROVE  /\ SharedInv' /\ CallInv' /\ QuietInv'
         /\ basis' = basis /\ known' = known /\ data' = data /\ asked' = asked
<1>0. /\ basis' = basis /\ known' = known /\ data' = data /\ asked' = asked
      /\ before' = before /\ results' = results /\ stats' = stats
  BY DEF callerVars, engineVars, callVars
<1>1. SharedInv'
  BY <1>0 DEF IInv, SharedInv
<1>2. CallInv'
  BY <1>0 DEF IInv, CallInv
<1>3. QuietInv'
  BY DEF QuietInv
<1> QED BY <1>0, <1>1, <1>2, <1>3

LEMMA SplitIInv ==
  ASSUME IInv, Split
  PROVE  IInv'
<1> DEFINE W == WorkerCount(data, asked)
<1>0. /\ pc = "called" /\ pc' = "launch" /\ UNCHANGED callerVars
      /\ ~ Serial(basis, data, asked) /\ numWorkers' = W
      /\ launched' = 0 /\ searching' = {} /\ ch' = << >> /\ received' = 0
      /\ segResults' = [s \in 1 .. W |-> << >>]
  BY DEF Split, callerVars
<1>1. SharedInv' /\ CallInv' /\ QuietInv'
      /\ basis' = basis /\ known' = known /\ data' = data /\ asked' = asked
  BY <1>0, GatheringKeeps
<1>2. W \in Nat \ {0}
  <2>1. data \in Seq(Byte) /\ asked \in Int
    BY DEF IInv, CallInv
  <2>2. asked \in Nat \ {0} /\ data # << >>
    BY <1>0, <2>1, EmptySeq, BlockSizeAssumption DEF Serial
  <2> QED BY <2>1, <2>2, SegmentBounds
<1> HIDE DEF W
<1>3. ~ Serial(basis', data', asked') /\ numWorkers' = WorkerCount(data', asked')
  BY <1>0, <1>1 DEF W
<1>4. launched' \in 0 .. numWorkers' /\ pc' # "collect"
  BY <1>0, <1>2
<1>5. searching' \subseteq Started' /\ IsFiniteSet(searching') /\ Cardinality(searching') = 0
  BY <1>0, FS_EmptySet DEF Started
<1>6. /\ ch' \in Seq(Message) /\ Len(ch') = 0
      /\ received' + Len(ch') + 0 = launched' /\ received' \in Nat
  BY <1>0, EmptySeq
<1>7. segResults' \in [1 .. numWorkers' -> Seq(Instruction)]
  <2>1. << >> \in Seq(Instruction)
    BY EmptySeq
  <2> QED BY <1>0, <2>1
<1>8. Started' = {}
  BY <1>0 DEF Started
<1>9. \A k \in 1 .. Len(ch') :
         IsMessage(ch'[k], basis', known', data', asked', numWorkers')
  BY <1>6
<1>10. GatherInv'
  BY <1>3, <1>4, <1>5, <1>6, <1>7, <1>8, <1>9 DEF GatherInv
<1> QED BY <1>1, <1>10 DEF IInv

LEMMA WorkersType ==
  ASSUME IInv, pc \in {"launch", "collect"}
  PROVE  numWorkers \in Nat \ {0} /\ launched \in Nat
<1>1. data \in Seq(Byte) /\ asked \in Int /\ ~ Serial(basis, data, asked)
  BY DEF IInv, CallInv, GatherInv
<1>2. asked \in Nat \ {0} /\ data # << >>
  BY <1>1, EmptySeq, BlockSizeAssumption DEF Serial
<1>3. WorkerCount(data, asked) \in Nat \ {0}
  BY <1>1, <1>2, SegmentBounds
<1> QED BY <1>3 DEF IInv, GatherInv

LEMMA LaunchIInv ==
  ASSUME IInv, Launch
  PROVE  IInv'
<1>0. /\ pc = "launch" /\ pc' = "launch" /\ UNCHANGED callerVars
      /\ launched < numWorkers /\ launched' = launched + 1
      /\ searching' = searching \cup {launched}
      /\ numWorkers' = numWorkers /\ ch' = ch /\ received' = received
      /\ segResults' = segResults
  BY DEF Launch, callerVars, engineVars, callVars
<1>1. SharedInv' /\ CallInv' /\ QuietInv'
      /\ basis' = basis /\ known' = known /\ data' = data /\ asked' = asked
  BY <1>0, GatheringKeeps
<1>2. GatherInv /\ pc \in {"launch", "collect"}
  BY <1>0 DEF IInv
<1>3. ~ Serial(basis', data', asked') /\ numWorkers' = WorkerCount(data', asked')
  BY <1>0, <1>1, <1>2 DEF GatherInv
<1>4. numWorkers \in Nat /\ launched \in Nat
  BY <1>2, WorkersType
<1>5. launched' \in 0 .. numWorkers' /\ pc' # "collect"
  BY <1>0, <1>4
<1>6. searching \subseteq Started /\ IsFiniteSet(searching) /\ launched \notin searching
  BY <1>2, <1>4 DEF GatherInv, Started
<1>7. searching' \subseteq Started'
  BY <1>0, <1>4, <1>6 DEF Started
<1>8. /\ IsFiniteSet(searching') /\ Cardinality(searching') = Cardinality(searching) + 1
      /\ Cardinality(searching) \in Nat
  BY <1>0, <1>6, FS_AddElement, FS_CardinalityType
<1>9. /\ ch' \in Seq(Message) /\ Len(ch') \in Nat
      /\ received' \in Nat /\ received' + Len(ch') + Cardinality(searching') = launched'
  <2>1. received + Len(ch) + Cardinality(searching) = launched /\ received \in Nat
        /\ ch \in Seq(Message)
    BY <1>2 DEF GatherInv
  <2>2. Len(ch) \in Nat
    BY <2>1, LenProperties
  <2> QED BY <1>0, <1>8, <2>1, <2>2
<1>10. segResults' \in [1 .. numWorkers' -> Seq(Instruction)]
  BY <1>0, <1>2 DEF GatherInv
<1>11. \A s \in (Started' \ searching') \ Sent' :
         segResults'[s + 1] = SegmentResult(basis', known', data', asked', s)
  <2>1. Sent' = Sent
    BY <1>0 DEF Sent
  <2>2. Started' \ searching' \subseteq Started \ searching
    BY <1>0, <1>4 DEF Started
  <2>3. \A s \in (Started \ searching) \ Sent :
          segResults[s + 1] = SegmentResult(basis, known, data, asked, s)
    BY <1>2 DEF GatherInv
  <2> QED BY <1>0, <1>1, <2>1, <2>2, <2>3, Zenon
<1>12. \A k \in 1 .. Len(ch') :
         IsMessage(ch'[k], basis', known', data', asked', numWorkers')
  BY <1>0, <1>1, <1>2 DEF GatherInv
<1>13. GatherInv'
  BY <1>3, <1>5, <1>7, <1>8, <1>9, <1>10, <1>11, <1>12 DEF GatherInv
<1> QED BY <1>1, <1>13 DEF IInv

LEMMA LaunchEndIInv ==
  ASSUME IInv, LaunchEnd
  PROVE  IInv'
<1>0. /\ pc = "launch" /\ pc' = "collect" /\ UNCHANGED callerVars
      /\ launched = numWorkers /\ launched' = launched
      /\ searching' = searching /\ numWorkers' = numWorkers /\ ch' = ch
      /\ received' = received /\ segResults' = segResults
  BY DEF LaunchEnd, callerVars, workVars
<1>1. SharedInv' /\ CallInv' /\ QuietInv'
      /\ basis' = basis /\ known' = known /\ data' = data /\ asked' = asked
  BY <1>0, GatheringKeeps
<1>2. GatherInv'
  BY <1>0, <1>1, Zenon DEF IInv, GatherInv, Started, Sent
<1> QED BY <1>1, <1>2 DEF IInv

LEMMA SendIInv ==
  ASSUME IInv, NEW i \in searching, WorkerSend(i)
  PROVE  IInv'
<1> DEFINE x == [segID |-> i, results |-> SegmentResult(basis, known, data, asked, i)]
<1>0. /\ pc' = pc /\ UNCHANGED callerVars
      /\ launched' = launched /\ searching' = searching \ {i}
      /\ numWorkers' = numWorkers /\ ch' = Append(ch, x) /\ received' = received
      /\ segResults' = segResults
  BY DEF WorkerSend, callerVars, engineVars, callVars
<1>2. GatherInv /\ pc \in {"launch", "collect"}
  BY DEF IInv, CallInv, QuietInv
<1>1. SharedInv' /\ CallInv' /\ QuietInv'
      /\ basis' = basis /\ known' = known /\ data' = data /\ asked' = asked
  BY <1>0, <1>2, GatheringKeeps
<1>3. /\ ~ Serial(basis', data', asked') /\ numWorkers' = WorkerCount(data', asked')
      /\ launched' \in 0 .. numWorkers' /\ (pc' = "collect" => launched' = numWorkers')
  BY <1>0, <1>1, <1>2 DEF GatherInv
<1>4. numWorkers \in Nat \ {0} /\ launched \in 0 .. numWorkers
  BY <1>2, WorkersType DEF GatherInv
<1>5. searching \subseteq 0 .. launched - 1 /\ IsFiniteSet(searching)
  BY <1>2 DEF GatherInv, Started
<1>6. i \in 0 .. numWorkers - 1 /\ i \in Nat
  BY <1>4, <1>5
<1>7. searching' \subseteq Started'
  BY <1>0, <1>5 DEF Started
<1>8. /\ IsFiniteSet(searching') /\ Cardinality(searching') = Cardinality(searching) - 1
      /\ Cardinality(searching) \in Nat
  BY <1>0, <1>5, FS_RemoveElement, FS_CardinalityType
<1>9. x \in Message /\ IsMessage(x, basis, known, data, asked, numWorkers)
  <2> DEFINE r == SegmentResult(basis, known, data, asked, i)
  <2>1. /\ basis \in Seq(Byte) /\ data \in Seq(Byte) /\ AreBlocks(basis, known)
        /\ asked \in Int /\ ~ Serial(basis, data, asked)
    BY <1>2 DEF IInv, CallInv, GatherInv, SharedInv
  <2>2. asked \in Nat \ {0} /\ data # << >>
    BY <2>1, EmptySeq, BlockSizeAssumption DEF Serial
  <2>3. i \in 0 .. WorkerCount(data, asked) - 1
    BY <1>2, <1>6 DEF GatherInv
  <2>4. r \in Seq(Instruction)
    BY <2>1, <2>2, <2>3, SegmentCovers
  <2>5. x.segID = i /\ x.results = SegmentResult(basis, known, data, asked, x.segID)
    OBVIOUS
  <2>6. x = [segID |-> i, results |-> r]
    OBVIOUS
  <2> HIDE DEF r, x
  <2>7. x \in Message
    BY <1>6, <2>4, <2>6 DEF Message
  <2> QED BY <1>6, <2>5, <2>7 DEF IsMessage
<1> HIDE DEF x
<1>10. ch \in Seq(Message) /\ Len(ch) \in Nat
  <2>1. ch \in Seq(Message)
    BY <1>2 DEF GatherInv
  <2> QED BY <2>1, LenProperties
<1>11. /\ ch' \in Seq(Message) /\ Len(ch') = Len(ch) + 1
       /\ \A k \in 1 .. Len(ch) : ch'[k] = ch[k]
       /\ ch'[Len(ch) + 1] = x
  BY <1>0, <1>9, <1>10, AppendProperties
<1>12. received' \in Nat /\ received' + Len(ch') + Cardinality(searching') = launched'
  <2>1. received + Len(ch) + Cardinality(searching) = launched /\ received \in Nat
    BY <1>2 DEF GatherInv
  <2> QED BY <1>0, <1>8, <1>10, <1>11, <2>1
<1>13. segResults' \in [1 .. numWorkers' -> Seq(Instruction)]
  BY <1>0, <1>2 DEF GatherInv
<1>14. \A k \in 1 .. Len(ch') :
         IsMessage(ch'[k], basis', known', data', asked', numWorkers')
  <2>1. \A k \in 1 .. Len(ch) : IsMessage(ch[k], basis, known, data, asked, numWorkers)
    BY <1>2 DEF GatherInv
  <2>2. \A k \in 1 .. Len(ch') : k \in 1 .. Len(ch) \/ k = Len(ch) + 1
    BY <1>10, <1>11
  <2> QED BY <1>0, <1>1, <1>9, <1>11, <2>1, <2>2
<1>15. \A s \in (Started' \ searching') \ Sent' :
         segResults'[s + 1] = SegmentResult(basis', known', data', asked', s)
  <2>1. x.segID = i
    BY DEF x
  <2>2. i \in Sent'
    <3>1. Len(ch) + 1 \in 1 .. Len(ch')
      BY <1>10, <1>11
    <3> QED BY <1>11, <2>1, <3>1 DEF Sent
  <2>3. Sent \subseteq Sent'
    <3>1. 1 .. Len(ch) \subseteq 1 .. Len(ch')
      BY <1>10, <1>11
    <3> QED BY <1>11, <3>1 DEF Sent
  <2>4. Started' = Started
    BY <1>0 DEF Started
  <2>5. (Started' \ searching') \ Sent' \subseteq (Started \ searching) \ Sent
    BY <1>0, <2>2, <2>3, <2>4
  <2>6. \A s \in (Started \ searching) \ Sent :
          segResults[s + 1] = SegmentResult(basis, known, data, asked, s)
    BY <1>2 DEF GatherInv
  <2> QED BY <1>0, <1>1, <2>5, <2>6, Zenon
<1>16. GatherInv'
  BY <1>3, <1>7, <1>8, <1>11, <1>12, <1>13, <1>14, <1>15 DEF GatherInv
<1> QED BY <1>1, <1>16 DEF IInv

LEMMA CollectIInv ==
  ASSUME IInv, Collect
  PROVE  IInv'
<1> DEFINE x == Head(ch)
<1>0. /\ pc = "collect" /\ pc' = pc /\ UNCHANGED callerVars /\ ch # << >>
      /\ launched' = launched /\ searching' = searching
      /\ numWorkers' = numWorkers /\ ch' = Tail(ch) /\ received' = received + 1
      /\ segResults' = [segResults EXCEPT ![x.segID + 1] = x.results]
  BY DEF Collect, SlotOf, callerVars, engineVars, callVars
<1>2. GatherInv /\ pc \in {"launch", "collect"}
  BY <1>0 DEF IInv
<1>1. SharedInv' /\ CallInv' /\ QuietInv'
      /\ basis' = basis /\ known' = known /\ data' = data /\ asked' = asked
  BY <1>0, <1>2, GatheringKeeps
<1>3. /\ ~ Serial(basis', data', asked') /\ numWorkers' = WorkerCount(data', asked')
      /\ launched' \in 0 .. numWorkers' /\ (pc' = "collect" => launched' = numWorkers')
      /\ IsFiniteSet(searching')
  BY <1>0, <1>1, <1>2 DEF GatherInv
<1>4. searching' \subseteq Started' /\ Started' = Started
  BY <1>0, <1>2 DEF GatherInv, Started
<1>5. ch \in Seq(Message) /\ Len(ch) \in Nat
  <2>1. ch \in Seq(Message)
    BY <1>2 DEF GatherInv
  <2> QED BY <2>1, LenProperties
<1>6. /\ x = ch[1] /\ x \in Message /\ 1 \in 1 .. Len(ch)
      /\ ch' \in Seq(Message) /\ Len(ch') = Len(ch) - 1
      /\ \A k \in 1 .. Len(ch') : ch'[k] = ch[k + 1]
  <2>1. 1 \in 1 .. Len(ch)
    BY <1>0, <1>5, EmptySeq
  <2>2. /\ x = ch[1] /\ Tail(ch) \in Seq(Message) /\ Len(Tail(ch)) = Len(ch) - 1
        /\ \A k \in 1 .. Len(Tail(ch)) : Tail(ch)[k] = ch[k + 1]
    BY <1>0, <1>5, HeadTailProperties
  <2>3. ch[1] \in Message
    BY <1>5, <2>1, ElementOfSeq
  <2> QED BY <1>0, <2>1, <2>2, <2>3
<1> HIDE DEF x
<1>7. \A k \in 1 .. Len(ch) : IsMessage(ch[k], basis, known, data, asked, numWorkers)
  BY <1>2 DEF GatherInv
<1>8. /\ x.segID \in 0 .. numWorkers - 1 /\ x.segID \in Nat /\ x.results \in Seq(Instruction)
      /\ x.results = SegmentResult(basis, known, data, asked, x.segID)
  BY <1>6, <1>7 DEF IsMessage, Message
<1>9. received' \in Nat /\ received' + Len(ch') + Cardinality(searching') = launched'
  <2>1. received + Len(ch) + Cardinality(searching) = launched /\ received \in Nat
        /\ IsFiniteSet(searching)
    BY <1>2 DEF GatherInv
  <2>2. Cardinality(searching) \in Nat
    BY <2>1, FS_CardinalityType
  <2> QED BY <1>0, <1>5, <1>6, <2>1, <2>2
<1>10. segResults \in [1 .. numWorkers -> Seq(Instruction)] /\ numWorkers \in Nat
  BY <1>2, WorkersType DEF GatherInv
<1>11. x.segID + 1 \in 1 .. numWorkers
  BY <1>8, <1>10
<1>12. segResults' \in [1 .. numWorkers' -> Seq(Instruction)]
  BY <1>0, <1>8, <1>10, <1>11
<1>13. \A k \in 1 .. Len(ch') :
         IsMessage(ch'[k], basis', known', data', asked', numWorkers')
  <2>1. \A k \in 1 .. Len(ch') : k + 1 \in 1 .. Len(ch)
    BY <1>5, <1>6
  <2> QED BY <1>0, <1>1, <1>6, <1>7, <2>1
<1>14. ASSUME NEW s \in (Started' \ searching') \ Sent'
       PROVE  segResults'[s + 1] = SegmentResult(basis', known', data', asked', s)
  <2>1. s \in 0 .. launched - 1 /\ s \in Started \ searching
    BY <1>0, <1>4 DEF Started
  <2>2. s + 1 \in 1 .. numWorkers
    <3>1. launched \in 0 .. numWorkers
      BY <1>2 DEF GatherInv
    <3> QED BY <1>10, <2>1, <3>1
  <2>3. CASE s = x.segID
    BY <1>0, <1>1, <1>8, <1>10, <1>11, <2>3
  <2>4. CASE s # x.segID
    <3>1. s \notin Sent
      <4> SUFFICES ASSUME NEW k \in 1 .. Len(ch), s = ch[k].segID PROVE FALSE
        BY DEF Sent
      <4>1. k # 1
        BY <1>6, <2>4
      <4>2. k - 1 \in 1 .. Len(ch') /\ k - 1 + 1 = k
        BY <1>5, <1>6, <4>1
      <4>3. ch'[k - 1] = ch[k]
        BY <1>6, <4>2
      <4> QED BY <4>2, <4>3 DEF Sent
    <3>2. segResults[s + 1] = SegmentResult(basis, known, data, asked, s)
      BY <1>2, <2>1, <3>1 DEF GatherInv
    <3>3. s + 1 # x.segID + 1
      BY <1>8, <2>1, <2>4
    <3> QED BY <1>0, <1>1, <1>10, <2>2, <3>2, <3>3
  <2> QED BY <2>3, <2>4
<1>15. GatherInv'
  BY <1>3, <1>4, <1>6, <1>9, <1>12, <1>13, <1>14 DEF GatherInv
<1> QED BY <1>1, <1>15 DEF IInv

LEMMA MergeIInv ==
  ASSUME IInv, Merge
  PROVE  IInv'
<1>1. /\ pc = "collect" /\ pc' = "returned" /\ UNCHANGED << engineVars, callVars, workVars >>
      /\ received >= numWorkers
      /\ results' = FlattenSeq(segResults) /\ stats' = Tally(results')
  BY DEF Merge, Expected
<1>2. GatherInv
  BY DEF IInv
<1>3. numWorkers \in Nat /\ launched = numWorkers
  BY <1>1, <1>2, WorkersType DEF GatherInv
<1>4. searching = {} /\ ch = << >>
  <2>1. received + Len(ch) + Cardinality(searching) = launched /\ received \in Nat
        /\ IsFiniteSet(searching) /\ ch \in Seq(Message)
    BY <1>1, <1>2 DEF GatherInv
  <2>2. Cardinality(searching) \in Nat /\ Len(ch) \in Nat
    BY <2>1, FS_CardinalityType, LenProperties
  <2>3. Len(ch) = 0 /\ Cardinality(searching) = 0
    BY <1>1, <1>3, <2>1, <2>2
  <2> QED BY <2>1, <2>3, FS_EmptySet, EmptySeq
<1>5. segResults = [s \in 1 .. numWorkers |->
                      SegmentResult(basis, known, data, asked, s - 1)]
  <2>1. ASSUME NEW s \in 1 .. numWorkers
        PROVE  segResults[s] = SegmentResult(basis, known, data, asked, s - 1)
    <3> DEFINE t == s - 1
    <3>1. t \in Started /\ t + 1 = s
      BY <1>3 DEF Started
    <3>2. t \notin searching /\ t \notin Sent
      BY <1>4, EmptySeq DEF Sent
    <3> HIDE DEF t
    <3>3. segResults[t + 1] = SegmentResult(basis, known, data, asked, t)
      BY <1>1, <1>2, <3>1, <3>2 DEF GatherInv
    <3> QED BY <3>1, <3>3 DEF t
  <2>2. segResults \in [1 .. numWorkers -> Seq(Instruction)]
    BY <1>1, <1>2 DEF GatherInv
  <2> QED BY <2>1, <2>2
<1>6. results' = ParallelResult(basis, known, data, asked)
  <2>1. ~ Serial(basis, data, asked) /\ numWorkers = WorkerCount(data, asked)
    BY <1>1, <1>2 DEF GatherInv
  <2> QED BY <1>1, <1>5, <2>1 DEF ParallelResult
<1> QED BY <1>1, <1>4, <1>6, ReturnIInv

-----------------------------------------------------------------------------
(* The windows *)

LEMMA AskedType ==
  ASSUME NEW d \in Seq(Byte), NEW size \in Int
  PROVE  /\ AskedOf(d, size) \in Seq(Byte)
         /\ Len(AskedOf(d, size)) = IF size < 0 THEN 0 ELSE Least(size, Len(d))
         /\ \A a, b \in Nat : a <= b /\ b <= size /\ b <= Len(d) =>
              Slice(AskedOf(d, size), a, b) = Slice(d, a, b)
<1>1. Len(d) \in Nat
  BY LenProperties
<1>2. CASE size < 0
  <2>1. Least(size, Len(d)) = size
    BY <1>1, <1>2 DEF Least
  <2>2. AskedOf(d, size) = << >>
    <3>1. SubSeq(d, 0 + 1, size) = << >>
      BY <1>2, SubSeqEmpty
    <3> QED BY <2>1, <3>1 DEF AskedOf, Slice
  <2> QED BY <1>2, <2>2, EmptySeq
<1>3. CASE size >= 0
  <2> DEFINE n == Len(d)
             L == Least(size, n)
             x == Slice(d, 0, L)
  <2>2. AskedOf(d, size) = x
    BY DEF AskedOf
  <2>0. n \in Nat
    BY <1>1
  <2> HIDE DEF n
  <2>1. L \in Nat /\ L <= n /\ L <= size
    BY <1>3, <2>0 DEF Least
  <2>3. ASSUME NEW b \in Nat, b <= size, b <= n PROVE b <= L
    BY <2>3 DEF Least
  <2> USE DEF n
  <2> HIDE DEF L
  <2>4. x \in Seq(Byte) /\ Len(x) = L - 0
    <3>1. d \in Seq(Byte) /\ 0 \in Nat /\ L \in Nat /\ 0 <= L /\ L <= Len(d)
      BY <2>1
    <3> QED BY ONLY <3>1, SliceType
  <2>5. ASSUME NEW a \in Nat, NEW b \in Nat, a <= b, b <= size, b <= Len(d)
        PROVE  Slice(x, a, b) = Slice(d, a, b)
    <3>1. /\ d \in Seq(Byte) /\ 0 \in Nat /\ L \in Nat /\ a \in Nat /\ b \in Nat
          /\ 0 <= L /\ L <= Len(d) /\ a <= b /\ b <= L - 0 /\ 0 + a = a /\ 0 + b = b
      BY <2>1, <2>3, <2>5
    <3>2. Slice(Slice(d, 0, L), a, b) = Slice(d, 0 + a, 0 + b)
      BY ONLY <3>1, SliceSlice
    <3> QED BY <3>1, <3>2
  <2> HIDE DEF x
  <2>6. Len(x) = L
    BY <2>1, <2>4
  <2>7. ~ (size < 0)
    BY <1>3
  <2> QED BY <2>2, <2>4, <2>5, <2>6, <2>7, Zenon DEF L
<1> QED BY <1>2, <1>3

\* What a read may bring in.
LEMMA ReadBounds ==
  ASSUME LoopInv, loop = "read", remaining > 0,
         NEW r \in FullReads(Least(windowSize, remaining))
  PROVE  /\ r.n \in Nat /\ base + r.n <= Len(source) /\ base + r.n <= Len(Asked)
         /\ base \in Nat /\ base + r.n <= fileSize /\ r.err \in {"nil", "eof", "io"}
         /\ r.err = "eof" => base + r.n = Len(Asked)
         /\ r.n = 0 => r.err # "nil"
<1> DEFINE want == Least(windowSize, remaining)
           n == Least(want, Len(source) - base)
<1>1. /\ source \in Seq(Byte) /\ fileSize \in Int /\ windowSize \in Nat \ {0}
      /\ base \in 0 .. Len(Asked) /\ remaining = fileSize - base
  BY DEF LoopInv
<1>2. /\ Len(source) \in Nat
      /\ Len(Asked) = IF fileSize < 0 THEN 0 ELSE Least(fileSize, Len(source))
  BY <1>1, AskedType, LenProperties DEF Asked
<1>3. fileSize >= 0
  BY <1>1, <1>2
<1>4. /\ base \in Nat /\ base <= Len(source) /\ base < fileSize
      /\ Len(Asked) = Least(fileSize, Len(source))
  BY <1>1, <1>2, <1>3 DEF Least
<1>5. want \in Nat \ {0} /\ want <= fileSize - base
  BY <1>1, <1>4 DEF Least
<1>6. \/ r = [n |-> n, err |-> IF n < want THEN "eof" ELSE "nil"]
      \/ \E k \in {m \in 0 .. n : ReadFails /\ m < want} : r = [n |-> k, err |-> "io"]
  BY DEF FullReads
<1> HIDE DEF want
<1>7. n \in Nat /\ n <= want /\ base + n <= Len(source) /\ (n < want => n = Len(source) - base)
  BY <1>2, <1>4, <1>5 DEF Least
<1> HIDE DEF n
<1>8. ASSUME NEW k \in Nat, k <= n
       PROVE  base + k <= fileSize /\ base + k <= Len(Asked) /\ base + k <= Len(source)
  <2> DEFINE A == Len(Asked)
             S == Len(source)
  <2>1. A = Least(fileSize, S) /\ S \in Nat /\ base \in Nat
    BY <1>2, <1>4
  <2>2. n \in Nat /\ n <= want /\ base + n <= S
    BY <1>7
  <2> HIDE DEF A, S
  <2>3. base + k <= A
    BY <1>1, <1>5, <1>8, <2>1, <2>2 DEF Least
  <2> QED BY <1>1, <1>5, <1>8, <2>1, <2>2, <2>3 DEF S, A
<1>9. CASE r = [n |-> n, err |-> IF n < want THEN "eof" ELSE "nil"]
  <2>1. r.n = n /\ r.err = IF n < want THEN "eof" ELSE "nil"
    BY <1>9
  <2>2. base + n <= fileSize /\ base + n <= Len(Asked)
    BY <1>7, <1>8
  <2>3. n < want => base + n = Len(Asked)
    <3>1. n < want => base + n = Len(source)
      BY <1>2, <1>4, <1>7
    <3>2. Len(Asked) \in Nat /\ Len(Asked) <= Len(source)
      BY <1>1, <1>2, <1>4 DEF Least
    <3> QED BY <1>2, <1>4, <1>7, <2>2, <3>1, <3>2
  <2> QED BY <1>4, <1>5, <1>7, <2>1, <2>2, <2>3
<1>10. ASSUME NEW k \in {m \in 0 .. n : ReadFails /\ m < want}, r = [n |-> k, err |-> "io"]
      PROVE  r.n = k /\ r.err = "io" /\ k \in Nat /\ base + k <= Len(source)
             /\ base + k <= Len(Asked) /\ base + k <= fileSize
  <2>1. r.n = k /\ r.err = "io"
    BY <1>10
  <2>2. k \in Nat /\ k <= n
    BY <1>7
  <2> QED BY <1>7, <1>8, <2>1, <2>2
<1> QED BY <1>4, <1>6, <1>9, <1>10

LEMMA InitLoopInv == Init => LoopInv
<1> SUFFICES ASSUME Init PROVE LoopInv
  OBVIOUS
<1>1. loop = "none" /\ source = << >> /\ fileSize = 0 /\ windowSize = 1 /\ workers = 1
      /\ given = << >>
  BY DEF Init
<1> QED BY <1>1, EmptySeq DEF LoopInv

\* The loop's invariant depends on the search's state as far as this.
LEMMA KeptLoopInv ==
  ASSUME LoopInv, UNCHANGED loopVars,
         loop \in {"read", "search"} => basis' = basis,
         loop = "read" => AtRest',
         loop = "search" => /\ asked' = asked /\ data' = data
                            /\ pc' \in {"called", "launch", "collect", "returned"}
  PROVE  LoopInv'
<1>1. /\ loop' = loop /\ source' = source /\ fileSize' = fileSize
      /\ windowSize' = windowSize /\ workers' = workers /\ base' = base
      /\ remaining' = remaining /\ readErr' = readErr /\ given' = given
      /\ outcome' = outcome
  BY DEF loopVars, readerVars
<1>2. Asked' = Asked
  BY <1>1 DEF Asked
<1> QED BY <1>1, <1>2 DEF LoopInv

LEMMA LoadLoopInv ==
  ASSUME LoopInv, NEW f \in Bases, NEW s \in Reachable(f), Load(f, s)
  PROVE  LoopInv'
<1>1. /\ loop' = "none" /\ source' = << >> /\ given' = << >> /\ fileSize' = fileSize
      /\ windowSize' = windowSize /\ workers' = workers
  BY DEF Load
<1> QED BY <1>1, EmptySeq DEF LoopInv

LEMMA BeginLoopInv ==
  ASSUME LoopInv, NEW d \in Inputs, NEW w \in WindowSizes, NEW n \in Workers,
         NEW size \in FileSizes(d), SearchReaderParallel(d, size, w, n)
  PROVE  LoopInv'
<1>1. /\ AtRest /\ pc' = pc
      /\ source' = d /\ fileSize' = size /\ windowSize' = w
      /\ workers' = (IF n <= 0 THEN GOMAXPROCS ELSE n)
      /\ base' = 0 /\ remaining' = size /\ given' = << >> /\ outcome' = "none"
      /\ loop' = "read"
  BY DEF SearchReaderParallel
<1>2. d \in Seq(Byte) /\ size \in Int /\ w \in Nat \ {0} /\ n \in Int
      /\ GOMAXPROCS \in Int
  BY ParallelAssumption, WindowedAssumption
<1>3. workers' \in Int
  BY <1>1, <1>2
<1>4. Asked' = AskedOf(d, size)
  BY <1>1 DEF Asked
<1>5. Asked' \in Seq(Byte)
  BY <1>2, <1>4, AskedType
<1>6. base' \in 0 .. Len(Asked') /\ remaining' = fileSize' - base'
  BY <1>1, <1>2, <1>5, LenProperties
<1>7. given' \in Seq(Instruction) /\ Rebuilds(basis', Asked', given', base')
  BY <1>1, EmptySeq, CoversNone DEF Rebuilds
<1>8. AtRest'
  BY <1>1 DEF AtRest
<1> QED BY <1>1, <1>2, <1>3, <1>6, <1>7, <1>8 DEF LoopInv

LEMMA ReadWindowInv ==
  ASSUME IInv, LoopInv, ReadWindow
  PROVE  IInv' /\ LoopInv'
<1>1. PICK r \in FullReads(Least(windowSize, remaining)) :
        IF r.n = 0
        THEN /\ loop' = "returned" /\ outcome' = IF r.err = "io" THEN "io" ELSE "nil"
             /\ UNCHANGED << parallelVars, readErr >>
        ELSE /\ SearchParallel(Slice(source, base, base + r.n), workers)
             /\ readErr' = r.err
             /\ loop' = "search"
             /\ UNCHANGED << calls, outcome >>
  BY DEF ReadWindow
<1>2. /\ loop = "read" /\ remaining > 0
      /\ source' = source /\ fileSize' = fileSize /\ windowSize' = windowSize
      /\ workers' = workers /\ base' = base /\ remaining' = remaining /\ given' = given
  BY DEF ReadWindow, readerVars
<1>3. /\ source \in Seq(Byte) /\ fileSize \in Int /\ windowSize \in Nat \ {0}
      /\ workers \in Int
      /\ base \in 0 .. Len(Asked) /\ remaining = fileSize - base
      /\ given \in Seq(Instruction) /\ Rebuilds(basis, Asked, given, base)
      /\ outcome = "none"
  BY <1>2 DEF LoopInv
<1>4. Asked' = Asked
  BY <1>2 DEF Asked
<1>5. CASE r.n = 0
  <2>1. loop' = "returned" /\ UNCHANGED gatherVars
    BY <1>1, <1>5 DEF parallelVars, gatherVars
  <2>2. IInv'
    BY <2>1, KeptIInv
  <2> QED BY <1>2, <1>3, <2>1, <2>2 DEF LoopInv
<1>6. CASE r.n # 0
  <2> DEFINE n == r.n
             w == Slice(source, base, base + n)
  <2>1. /\ SearchParallel(w, workers) /\ readErr' = r.err
        /\ loop' = "search" /\ outcome' = outcome
    BY <1>1, <1>6
  <2>2. /\ n \in Nat /\ base + n <= Len(source) /\ base + n <= Len(Asked)
        /\ base \in Nat /\ base + n <= fileSize /\ r.err \in {"nil", "eof", "io"}
        /\ r.err = "eof" => base + n = Len(Asked)
    BY <1>2, ReadBounds
  <2> HIDE DEF n
  <2>3. w \in Seq(Byte) /\ Len(w) = n
    <3> DEFINE e == base + n
    <3>1. e \in Nat /\ base <= e /\ e <= Len(source) /\ e - base = n
      BY <2>2
    <3> HIDE DEF e
    <3>2. /\ Slice(source, base, e) \in Seq(Byte)
          /\ Len(Slice(source, base, e)) = e - base
      BY <1>3, <2>2, <3>1, SliceType
    <3> QED BY <3>1, <3>2 DEF e
  <2>4. w = Slice(Asked, base, base + n)
    <3>1. base + n \in Nat /\ base <= base + n
      BY <2>2
    <3> QED BY <1>3, <2>2, <3>1, AskedType DEF Asked
  <2> HIDE DEF w
  <2>5. data' = w /\ asked' = workers /\ pc' = "called" /\ basis' = basis
    BY <2>1 DEF SearchParallel, engineVars
  <2>6. IInv'
    BY <1>3, <2>1, <2>3, CallIInv
  <2>7. base' + Len(data') <= Len(Asked') /\ data' = Slice(Asked', base', base' + Len(data'))
    BY <1>2, <1>4, <2>2, <2>3, <2>4, <2>5
  <2>8. readErr' \in {"nil", "eof", "io"}
        /\ (readErr' = "eof" => base' + Len(data') = Len(Asked'))
    BY <1>2, <1>4, <2>1, <2>2, <2>3, <2>5
  <2>9. LoopInv'
    BY <1>2, <1>3, <1>4, <2>1, <2>5, <2>7, <2>8 DEF LoopInv
  <2> QED BY <2>6, <2>9
<1> QED BY <1>5, <1>6

\* The results of a window cover it at its place in the source.
LEMMA MovedCovers ==
  ASSUME IInv, LoopInv, loop = "search", pc = "returned"
  PROVE  /\ results \in Seq(Instruction) /\ Moved(results) \in Seq(Instruction)
         /\ Len(Moved(results)) = Len(results)
         /\ Covers(basis, Asked, Moved(results), base, base + Len(data))
         /\ base + Len(data) \in 0 .. Len(Asked)
<1> DEFINE n == Len(data)
           e == base + n
<1>1. /\ results \in Seq(Instruction) /\ Rebuilds(basis, data, results, n)
      /\ basis \in Seq(Byte)
  BY CallResult DEF IInv, CallInv, SharedInv
<1>2. /\ source \in Seq(Byte) /\ fileSize \in Int /\ base \in 0 .. Len(Asked)
      /\ e <= Len(Asked) /\ data = Slice(Asked, base, e) /\ data \in Seq(Byte)
  BY DEF LoopInv, IInv, CallInv
<1>3. Asked \in Seq(Byte)
  BY <1>2, AskedType DEF Asked
<1>4. n \in Nat /\ Len(Asked) \in Nat
  BY <1>2, <1>3, LenProperties
<1> HIDE DEF n
<1>5. base \in Nat /\ e \in Nat /\ base <= e /\ base + 0 = base /\ e \in 0 .. Len(Asked)
  BY <1>2, <1>4
<1>6. /\ basis \in Seq(Byte) /\ Asked \in Seq(Byte) /\ base \in Nat /\ e \in Nat
      /\ base <= e /\ e <= Len(Asked)
      /\ results \in Seq(Instruction) /\ 0 \in Nat /\ n \in Nat
      /\ Covers(basis, Slice(Asked, base, e), results, 0, n)
  BY <1>1, <1>2, <1>3, <1>4, <1>5 DEF Rebuilds
<1>7. /\ Shifted(results, base) \in Seq(Instruction)
      /\ Len(Shifted(results, base)) = Len(results)
      /\ Covers(basis, Asked, Shifted(results, base), base + 0, base + n)
  BY ONLY <1>6, ShiftedCovers
<1>8. Moved(results) = Shifted(results, base)
  BY DEF Moved, Shifted
<1> QED BY <1>1, <1>5, <1>7, <1>8 DEF n

\* What has been given when the callback has taken the first k results.
LEMMA GivenCovers ==
  ASSUME IInv, LoopInv, loop = "search", pc = "returned", NEW k \in 0 .. Len(results)
  PROVE  LET s == SubSeq(Moved(results), 1, k)
         IN  /\ given \in Seq(Instruction) /\ s \in Seq(Instruction)
             /\ \E m \in 0 .. Len(Asked) : Rebuilds(basis, Asked, given \o s, m)
             /\ k = Len(results) => Rebuilds(basis, Asked, given \o s, base + Len(data))
<1> DEFINE t == Moved(results)
           s == SubSeq(t, 1, k)
           e == base + Len(data)
<1>1. /\ t \in Seq(Instruction) /\ Len(t) = Len(results)
      /\ Covers(basis, Asked, t, base, e) /\ e \in 0 .. Len(Asked)
  BY MovedCovers
<1>2. /\ given \in Seq(Instruction) /\ Covers(basis, Asked, given, 0, base)
      /\ base \in 0 .. Len(Asked) /\ source \in Seq(Byte) /\ fileSize \in Int
  BY DEF LoopInv, Rebuilds
<1>3. Asked \in Seq(Byte) /\ basis \in Seq(Byte)
  BY <1>2, AskedType DEF Asked, IInv, SharedInv
<1> HIDE DEF t, e
<1>4. /\ s \in Seq(Instruction)
      /\ \E m \in 0 .. Len(Asked) : Covers(basis, Asked, s, base, m)
  BY <1>1, <1>2, <1>3, CoversPrefix
<1>5. PICK m \in 0 .. Len(Asked) : Covers(basis, Asked, s, base, m)
  BY <1>4
<1>6. k = Len(results) => s = t
  BY <1>1, SubSeqFull
<1> HIDE DEF s
<1>7. Rebuilds(basis, Asked, given \o s, m)
  BY <1>2, <1>3, <1>4, <1>5, CoversConcat DEF Rebuilds
<1>8. ASSUME k = Len(results) PROVE Rebuilds(basis, Asked, given \o s, e)
  <2>1. s = t
    BY <1>6, <1>8
  <2>2. Covers(basis, Asked, given \o t, 0, e)
    BY <1>1, <1>2, <1>3, CoversConcat
  <2> QED BY <2>1, <2>2 DEF Rebuilds
<1> QED BY <1>2, <1>4, <1>7, <1>8 DEF s, t, e

\* How far a hand-over gets.
LEMMA HandOverEffect ==
  ASSUME IInv, LoopInv, HandOver
  PROVE  /\ UNCHANGED << parallelVars, readerVars, readErr >>
         /\ loop = "search" /\ pc = "returned" /\ loop' \in {"read", "returned"}
         /\ \E k \in 0 .. Len(results) :
              /\ given' = given \o SubSeq(Moved(results), 1, k)
              /\ loop' = "read" \/ outcome' = "nil" => k = Len(results)
         /\ loop' = "read" => /\ base' = base + Len(data) /\ outcome' = outcome
                              /\ remaining' = remaining - Len(data) /\ readErr = "nil"
         /\ loop' = "returned" /\ outcome' = "nil" =>
              readErr = "eof" /\ base + Len(data) = Len(Asked)
<1>1. PICK h \in Handed(results) :
        /\ given' = given \o SubSeq(Moved(results), 1, h.given)
        /\ IF h.err = "callback"
           THEN UNCHANGED << base, remaining >>
           ELSE /\ base' = base + Len(data)
                /\ remaining' = remaining - Len(data)
        /\ IF readErr = "nil" /\ h.err = "nil"
           THEN loop' = "read" /\ UNCHANGED outcome
           ELSE loop' = "returned" /\ outcome' = Returned(h)
  BY DEF HandOver
<1>2. /\ UNCHANGED << parallelVars, readerVars, readErr >>
      /\ loop = "search" /\ pc = "returned"
  BY DEF HandOver
<1>3. Len(results) \in Nat
  BY <1>2, MovedCovers, LenProperties
<1>4. \/ h = [given |-> Len(results), err |-> "nil"]
      \/ \E k \in 1 .. Len(results) : h = [given |-> k, err |-> "callback"]
  BY DEF Handed
<1>5. /\ h.given \in 0 .. Len(results) /\ h.err \in {"nil", "callback"}
      /\ h.err = "nil" => h.given = Len(results)
  BY <1>3, <1>4
<1>6. readErr \in {"nil", "eof", "io"} /\ (readErr = "eof" => base + Len(data) = Len(Asked))
  BY <1>2 DEF LoopInv
<1>7. CASE readErr = "nil" /\ h.err = "nil"
  BY <1>1, <1>2, <1>5, <1>7
<1>8. CASE ~ (readErr = "nil" /\ h.err = "nil")
  <2>1. loop' = "returned" /\ outcome' = Returned(h)
    BY <1>1, <1>8
  <2>2. outcome' = "nil" => h.err = "nil" /\ readErr = "eof"
    BY <1>5, <1>6, <1>8, <2>1 DEF Returned
  <2> QED BY <1>1, <1>2, <1>5, <1>6, <2>1, <2>2
<1> QED BY <1>7, <1>8

LEMMA HandOverInv ==
  ASSUME IInv, LoopInv, HandOver
  PROVE  IInv' /\ LoopInv'
<1>1. /\ UNCHANGED gatherVars
      /\ pc' = pc /\ basis' = basis
      /\ source' = source /\ fileSize' = fileSize /\ windowSize' = windowSize
      /\ workers' = workers
  BY HandOverEffect DEF parallelVars, engineVars, gatherVars, readerVars
<1>2. IInv'
  BY <1>1, KeptIInv
<1>3. source \in Seq(Byte) /\ fileSize \in Int /\ windowSize \in Nat \ {0} /\ workers \in Int
      /\ Asked' = Asked
  BY <1>1 DEF LoopInv, Asked
<1>4. CASE loop' = "returned"
  BY <1>1, <1>2, <1>3, <1>4 DEF LoopInv
<1>5. CASE loop' = "read"
  <2>1. /\ loop = "search" /\ pc = "returned"
        /\ base' = base + Len(data) /\ outcome' = outcome /\ remaining' = remaining - Len(data)
    BY <1>5, HandOverEffect
  <2>2. PICK k \in 0 .. Len(results) :
          /\ given' = given \o SubSeq(Moved(results), 1, k) /\ k = Len(results)
    BY <1>5, HandOverEffect
  <2>3. given' \in Seq(Instruction) /\ Rebuilds(basis, Asked, given', base')
    <3> DEFINE s == SubSeq(Moved(results), 1, k)
    <3>1. /\ given \in Seq(Instruction) /\ s \in Seq(Instruction)
          /\ Rebuilds(basis, Asked, given \o s, base + Len(data))
      BY <2>1, <2>2, GivenCovers
    <3> HIDE DEF s
    <3>2. given \o s \in Seq(Instruction) /\ given' = given \o s
      BY <2>2, <3>1, ConcatProperties DEF s
    <3> QED BY <2>1, <3>1, <3>2
  <2>4. base' \in 0 .. Len(Asked)
    BY <2>1, MovedCovers
  <2>5. remaining' = fileSize - base'
    <3>1. base \in 0 .. Len(Asked) /\ remaining = fileSize - base /\ data \in Seq(Byte)
      BY <2>1 DEF LoopInv, IInv, CallInv
    <3>2. Len(data) \in Nat
      BY <3>1, LenProperties
    <3> QED BY <1>3, <2>1, <3>1, <3>2
  <2>6. AtRest' /\ outcome' = "none"
    BY <1>1, <2>1 DEF AtRest, LoopInv
  <2> QED BY <1>1, <1>2, <1>3, <1>5, <2>3, <2>4, <2>5, <2>6 DEF LoopInv
<1> QED BY <1>4, <1>5, HandOverEffect

-----------------------------------------------------------------------------
(* The invariant *)

\* A step of the call in memory, with the loop waiting or not there.
LEMMA CallSteps ==
  ASSUME IInv, LoopInv, Caller \/ Worker, UNCHANGED loopVars
  PROVE  IInv' /\ LoopInv'
<1>1. IInv'
  BY SerialIInv, SplitIInv, LaunchIInv, LaunchEndIInv, CollectIInv, MergeIInv, SendIInv
     DEF Caller, Worker
<1>2. UNCHANGED << engineVars, callVars >>
  BY DEF Caller, Worker, SearchSerially, Split, Launch, LaunchEnd, Collect, Merge, WorkerSend
<1>3. pc \in {"called", "launch", "collect"}
  <2>1. CASE Caller
    BY <2>1 DEF Caller, SearchSerially, Split, Launch, LaunchEnd, Collect, Merge
  <2>2. CASE Worker
    BY <2>2 DEF Worker, IInv, CallInv, QuietInv
  <2> QED BY <2>1, <2>2
<1>4. pc' \in {"called", "launch", "collect", "returned"}
  BY <1>3 DEF Caller, Worker, SearchSerially, Split, Launch, LaunchEnd, Collect, Merge,
              WorkerSend
<1>5. basis' = basis /\ asked' = asked /\ data' = data
  BY <1>2 DEF engineVars, callVars
<1>6. loop # "read"
  BY <1>3 DEF LoopInv, AtRest
<1>7. LoopInv'
  BY <1>4, <1>5, <1>6, KeptLoopInv
<1> QED BY <1>1, <1>7

LEMMA StutterInv ==
  ASSUME IInv, LoopInv, UNCHANGED vars
  PROVE  IInv' /\ LoopInv'
<1>1. UNCHANGED gatherVars /\ UNCHANGED loopVars
  BY DEF vars, parallelVars, gatherVars
<1>2. basis' = basis /\ asked' = asked /\ data' = data /\ pc' = pc
  BY <1>1 DEF gatherVars, engineVars, callVars
<1>3. LoopInv'
  BY <1>1, <1>2, KeptLoopInv DEF LoopInv, AtRest
<1> QED BY <1>1, <1>3, KeptIInv

LEMMA NextInv ==
  ASSUME FullInv, [Next]_vars
  PROVE  FullInv'
<1> USE DEF FullInv
<1>1. ASSUME NEW f \in Bases, NEW s \in Reachable(f), Load(f, s) PROVE FullInv'
  BY <1>1, LoadIInv, LoadLoopInv DEF Load
<1>2. ASSUME NEW d \in Inputs, NEW n \in Workers, CallSearchParallel(d, n) PROVE FullInv'
  <2>1. LoopAtRest /\ SearchParallel(d, n) /\ UNCHANGED loopVars
    BY <1>2 DEF CallSearchParallel
  <2>2. d \in Seq(Byte) /\ n \in Int
    BY ParallelAssumption
  <2>3. IInv'
    BY <2>1, <2>2, CallIInv
  <2>4. LoopInv'
    BY <2>1, KeptLoopInv DEF LoopAtRest
  <2> QED BY <2>3, <2>4
<1>3. ASSUME NEW d \in Inputs, NEW w \in WindowSizes, NEW n \in Workers,
             NEW size \in FileSizes(d), SearchReaderParallel(d, size, w, n)
      PROVE  FullInv'
  <2>1. UNCHANGED gatherVars
    BY <1>3 DEF SearchReaderParallel, gatherVars
  <2> QED BY <1>3, <2>1, KeptIInv, BeginLoopInv
<1>4. CASE Loop
  <2>1. CASE ReadWindow
    BY <2>1, ReadWindowInv
  <2>2. CASE HandOver
    BY <2>2, HandOverInv
  <2>3. CASE AllRead
    <3>1. UNCHANGED gatherVars
      BY <2>3 DEF AllRead, parallelVars, gatherVars
    <3>2. /\ loop' = "returned" /\ source' = source /\ fileSize' = fileSize
          /\ windowSize' = windowSize /\ workers' = workers
      BY <2>3 DEF AllRead, readerVars
    <3> QED BY <3>1, <3>2, KeptIInv DEF LoopInv
  <2> QED BY <1>4, <2>1, <2>2, <2>3 DEF Loop
<1>5. CASE (Caller \/ Worker) /\ UNCHANGED loopVars
  BY <1>5, CallSteps
<1>6. CASE Rest \/ UNCHANGED vars
  BY <1>6, StutterInv DEF Rest
<1> QED BY <1>1, <1>2, <1>3, <1>4, <1>5, <1>6 DEF Next

\* While a call gathers its results, every segment that was started is being
\* searched, waits in the channel with its number or is in its place.
THEOREM ParallelInvariant == Spec => []FullInv
<1>1. Init => FullInv
  BY InitIInv, InitLoopInv DEF FullInv
<1>2. FullInv /\ [Next]_vars => FullInv'
  BY NextInv
<1> QED BY <1>1, <1>2, PTL DEF Spec

\* Whichever worker finishes first, SearchParallel returns the segments'
\* results in the order of the file, counts them once each, and leaves no
\* goroutine and nothing in the channel behind (search.go:668).
THEOREM FinishOrderIrrelevant == Spec => []OrderOfFinishIrrelevant
<1>1. FullInv => OrderOfFinishIrrelevant
  <2> SUFFICES ASSUME FullInv, pc = "returned" PROVE OrderOfFinishIrrelevant
    BY DEF OrderOfFinishIrrelevant
  <2>1. searching = {} /\ ch = << >>
    BY DEF FullInv, IInv, QuietInv
  <2>2. /\ results = ParallelResult(basis, known, data, asked)
        /\ stats.matches = before.matches + MatchCount(results)
        /\ stats.literalBytes = before.literalBytes + LiteralCount(results)
        /\ before.matches \in Nat /\ before.literalBytes \in Nat
    BY DEF FullInv, IInv, CallInv, Statistics
  <2>3. results \in Seq(Instruction)
    BY <2>2, CallResult DEF FullInv, IInv
  <2>4. MatchCount(results) \in Nat /\ LiteralCount(results) \in Nat
    BY <2>3, MatchCountType, LiteralCountType
  <2>5. /\ stats.matches - before.matches = MatchCount(results)
        /\ stats.literalBytes - before.literalBytes = LiteralCount(results)
    BY <2>2, <2>4
  <2> QED BY <2>1, <2>2, <2>5 DEF OrderOfFinishIrrelevant
<1> QED BY <1>1, ParallelInvariant, PTL

-----------------------------------------------------------------------------
(* Both calls keep the sender's promise *)

\* The abstract specification's own copy of Rebuilds says the same.
LEMMA SenderRebuilds ==
  ASSUME NEW b, NEW d, NEW r, NEW hi
  PROVE  Sender!Rebuilds(b, d, r, hi) = Rebuilds(b, d, r, hi)
BY DEF Sender!Rebuilds, Rebuilds, Sender!Covers, Covers, Sender!EndOf, EndOf,
       Sender!Apply, Apply, Sender!Block, Block, Sender!BlockEnd, BlockEnd,
       Sender!Slice, Slice, Sender!Least, Least

LEMMA LoopRebuilds ==
  ASSUME NEW b, NEW d, NEW r, NEW hi
  PROVE  LoopSender!Rebuilds(b, d, r, hi) = Rebuilds(b, d, r, hi)
BY DEF LoopSender!Rebuilds, Rebuilds, LoopSender!Covers, Covers, LoopSender!EndOf, EndOf,
       LoopSender!Apply, Apply, LoopSender!Block, Block, LoopSender!BlockEnd, BlockEnd,
       LoopSender!Slice, Slice, LoopSender!Least, Least

LEMMA SenderSteps ==
  ASSUME FullInv, FullInv', [Next]_vars
  PROVE  [Sender!SenderNext]_(Sender!senderVars)
<1>0. ASSUME UNCHANGED << basis, data, results, pc >>
      PROVE  UNCHANGED Sender!senderVars
  <2>1. Verdict' = Verdict
    BY <1>0 DEF Verdict
  <2> QED BY <1>0, <2>1 DEF Sender!senderVars
<1>1. ASSUME NEW f \in Bases, NEW s \in Reachable(f), Load(f, s)
      PROVE  Sender!SenderNext
  <2>1. /\ pc \in {"idle", "returned"} /\ pc' = "idle" /\ basis' = f
        /\ results' = << >> /\ data' = << >>
    BY <1>1 DEF Load, LoadSignature, AtRest
  <2>2. Verdict # "open" /\ Verdict' = "idle"
    BY <2>1 DEF Verdict
  <2> QED BY <2>1, <2>2 DEF Sender!SenderNext, Sender!UseSignature
<1>2. ASSUME NEW d \in Seq(Byte), NEW n, SearchParallel(d, n)
      PROVE  Sender!SenderNext
  <2>1. /\ pc \in {"idle", "returned"} /\ pc' = "called" /\ basis' = basis
        /\ results' = << >> /\ data' = d
    BY <1>2 DEF SearchParallel, AtRest, engineVars
  <2>2. Verdict # "open" /\ Verdict' = "open"
    BY <2>1 DEF Verdict
  <2> QED BY <2>1, <2>2 DEF Sender!SenderNext, Sender!Begin
<1>3. ASSUME pc \in {"called", "launch", "collect"}, UNCHANGED << engineVars, callVars >>,
             pc' \in {"called", "launch", "collect"}, UNCHANGED results
      PROVE  UNCHANGED Sender!senderVars
  <2>1. Verdict' = Verdict
    BY <1>3 DEF Verdict
  <2> QED BY <1>3, <2>1 DEF Sender!senderVars, engineVars, callVars
<1>4. ASSUME pc \in {"called", "launch", "collect"}, UNCHANGED << engineVars, callVars >>,
             pc' = "returned"
      PROVE  Sender!SenderNext
  <2>1. basis' = basis /\ known' = known /\ data' = data /\ asked' = asked /\ results = << >>
    BY <1>4 DEF engineVars, callVars, FullInv, IInv, CallInv
  <2>2. results' = ParallelResult(basis, known, data, asked)
    BY <1>4, <2>1 DEF FullInv, IInv, CallInv
  <2>3. results' \in Seq(Instruction) /\ Rebuilds(basis, data, results', Len(data))
    BY <2>2, CallResult DEF FullInv, IInv
  <2>4. Len(results) <= Len(results') /\ results = SubSeq(results', 1, Len(results))
    <3>1. Len(results) = 0 /\ Len(results') \in Nat
      BY <2>1, <2>3, EmptySeq, LenProperties
    <3> QED BY <2>1, <2>3, <3>1, SubSeqEmpty
  <2>5. Verdict = "open" /\ Verdict' = "ok"
    BY <1>4 DEF Verdict
  <2> QED BY <2>1, <2>3, <2>4, <2>5, SenderRebuilds
          DEF Sender!SenderNext, Sender!Complete, Sender!ExtendTo
<1>5. CASE Caller /\ UNCHANGED loopVars
  <2>1. UNCHANGED << engineVars, callVars >> /\ pc \in {"called", "launch", "collect"}
    BY <1>5 DEF Caller, SearchSerially, Split, Launch, LaunchEnd, Collect, Merge
  <2>2. CASE SearchSerially \/ Merge
    BY <1>4, <2>1, <2>2 DEF SearchSerially, Merge
  <2>3. CASE Split \/ Launch \/ LaunchEnd \/ Collect
    BY <1>3, <2>1, <2>3 DEF Split, Launch, LaunchEnd, Collect
  <2> QED BY <1>5, <2>2, <2>3 DEF Caller
<1>6. CASE Worker /\ UNCHANGED loopVars
  BY <1>0, <1>6 DEF Worker, WorkerSend, engineVars, callVars
<1>7. ASSUME NEW d \in Inputs, NEW n \in Workers, CallSearchParallel(d, n)
      PROVE  Sender!SenderNext
  BY <1>2, <1>7, ParallelAssumption DEF CallSearchParallel
<1>8. ASSUME NEW d \in Inputs, NEW w \in WindowSizes, NEW n \in Workers,
             NEW size \in FileSizes(d), SearchReaderParallel(d, size, w, n)
      PROVE  UNCHANGED Sender!senderVars
  BY <1>0, <1>8 DEF SearchReaderParallel, engineVars, callVars
<1>9. CASE Loop
  <2>1. CASE ReadWindow
    <3>1. PICK r \in FullReads(Least(windowSize, remaining)) :
            \/ UNCHANGED parallelVars
            \/ SearchParallel(Slice(source, base, base + r.n), workers)
      BY <2>1 DEF ReadWindow
    <3>2. CASE UNCHANGED parallelVars
      BY <1>0, <3>2 DEF parallelVars, engineVars, callVars
    <3>3. CASE SearchParallel(Slice(source, base, base + r.n), workers)
      <4>1. data' = Slice(source, base, base + r.n)
        BY <3>3 DEF SearchParallel
      <4>2. data' \in Seq(Byte)
        BY DEF FullInv, IInv, CallInv
      <4> QED BY <1>2, <3>3, <4>1, <4>2
    <3> QED BY <3>1, <3>2, <3>3
  <2>2. CASE HandOver \/ AllRead
    BY <1>0, <2>2 DEF HandOver, AllRead, parallelVars, engineVars, callVars
  <2> QED BY <1>9, <2>1, <2>2 DEF Loop
<1>10. CASE Rest \/ UNCHANGED vars
  BY <1>0, <1>10 DEF Rest, vars, parallelVars, engineVars, callVars
<1> QED BY <1>1, <1>5, <1>6, <1>7, <1>8, <1>9, <1>10 DEF Next

\* SearchParallel keeps the promise every sender makes, however its goroutines
\* interleave.
THEOREM ParallelIsSender == Spec => ParallelKeepsPromise
<1>1. Init => Sender!SenderInit
  <2> SUFFICES ASSUME Init PROVE Sender!SenderInit
    OBVIOUS
  <2>1. basis = << >> /\ data = << >> /\ results = << >> /\ pc = "idle"
    BY DEF Init, ParallelInit
  <2>2. Verdict = "idle"
    BY <2>1 DEF Verdict
  <2> QED BY <2>1, <2>2 DEF Sender!SenderInit
<1>2. FullInv /\ FullInv' /\ [Next]_vars => [Sender!SenderNext]_(Sender!senderVars)
  BY SenderSteps
<1> QED BY <1>1, <1>2, ParallelInvariant, PTL DEF Spec, ParallelKeepsPromise, Sender!SenderSpec

\* What the abstract specification sees of a step that hands over.
LEMMA LoopExtends ==
  ASSUME FullInv, HandOver
  PROVE  \E hi \in 0 .. Len(Asked) :
           /\ LoopSender!ExtendTo(hi)
           /\ loop' = "returned" /\ outcome' = "nil" => hi = Len(Asked)
<1>1. /\ UNCHANGED << parallelVars, readerVars, readErr >>
      /\ loop = "search" /\ pc = "returned"
      /\ \E k \in 0 .. Len(results) :
           /\ given' = given \o SubSeq(Moved(results), 1, k)
           /\ loop' = "read" \/ outcome' = "nil" => k = Len(results)
      /\ loop' = "returned" /\ outcome' = "nil" =>
           readErr = "eof" /\ base + Len(data) = Len(Asked)
  BY HandOverEffect DEF FullInv
<1>2. PICK k \in 0 .. Len(results) :
        /\ given' = given \o SubSeq(Moved(results), 1, k)
        /\ loop' = "read" \/ outcome' = "nil" => k = Len(results)
  BY <1>1
<1> DEFINE s == SubSeq(Moved(results), 1, k)
<1>3. /\ given \in Seq(Instruction) /\ s \in Seq(Instruction)
      /\ \E m \in 0 .. Len(Asked) : Rebuilds(basis, Asked, given \o s, m)
      /\ k = Len(results) => Rebuilds(basis, Asked, given \o s, base + Len(data))
  BY <1>1, GivenCovers DEF FullInv
<1>4. given' = given \o s
  BY <1>2
<1> HIDE DEF s
<1>5. basis' = basis /\ source' = source /\ fileSize' = fileSize /\ Asked' = Asked
  BY <1>1 DEF parallelVars, engineVars, readerVars, Asked
<1>6. Len(given) <= Len(given') /\ given = SubSeq(given', 1, Len(given))
  <2>1. /\ Len(given \o s) = Len(given) + Len(s)
        /\ Len(given) \in Nat /\ Len(s) \in Nat
    BY <1>3, ConcatProperties, LenProperties
  <2>2. SubSeq(given \o s, 1, Len(given)) = given
    <3> DEFINE n == Len(given)
    <3>1. 1 \in 1 .. n + 1 /\ n \in 0 .. n
      BY <2>1
    <3>2. SubSeq(given \o s, 1, n) = SubSeq(given, 1, n)
      BY <1>3, <3>1, SubSeqOfConcat1
    <3> QED BY <1>3, <3>2, SubSeqFull
  <2> QED BY <1>4, <2>1, <2>2
<1>7. ASSUME NEW hi, Rebuilds(basis, Asked, given \o s, hi)
      PROVE  LoopSender!ExtendTo(hi)
  BY <1>4, <1>5, <1>6, <1>7, LoopRebuilds DEF LoopSender!ExtendTo, Asked, AskedOf
<1>8. CASE loop' = "returned" /\ outcome' = "nil"
  <2>1. Rebuilds(basis, Asked, given \o s, Len(Asked))
    BY <1>1, <1>2, <1>3, <1>8
  <2>2. Len(Asked) \in 0 .. Len(Asked)
    <3>1. Asked \in Seq(Byte)
      BY AskedType DEF FullInv, LoopInv, Asked
    <3>2. Len(Asked) \in Nat
      BY <3>1, LenProperties
    <3> QED BY <3>2
  <2> QED BY <1>7, <2>1, <2>2
<1>9. CASE ~ (loop' = "returned" /\ outcome' = "nil")
  BY <1>3, <1>7, <1>9
<1> QED BY <1>8, <1>9

\* A return that hands over nothing.
LEMMA LoopEnds ==
  ASSUME FullInv, loop = "read", loop' = "returned",
         UNCHANGED << basis, source, fileSize, given >>,
         outcome' \in {"nil", "io"}, outcome' = "nil" => base = Len(Asked)
  PROVE  LoopSender!SenderNext
<1>1. /\ base \in 0 .. Len(Asked) /\ Rebuilds(basis, Asked, given, base)
      /\ given \in Seq(Instruction) /\ Asked' = Asked
  BY DEF FullInv, LoopInv, Asked
<1>2. Len(given) \in Nat /\ SubSeq(given, 1, Len(given)) = given
  BY <1>1, LenProperties, SubSeqFull
<1>3. LoopSender!ExtendTo(base)
  BY <1>1, <1>2, LoopRebuilds DEF LoopSender!ExtendTo, Asked, AskedOf
<1>4. LoopVerdict = "open" /\ LoopVerdict' = (IF outcome' = "nil" THEN "ok" ELSE "failed")
  BY DEF LoopVerdict
<1>5. CASE outcome' = "nil"
  BY <1>3, <1>4, <1>5 DEF LoopSender!SenderNext, LoopSender!Complete, Asked, AskedOf
<1>6. CASE outcome' = "io"
  BY <1>1, <1>3, <1>4, <1>6 DEF LoopSender!SenderNext, LoopSender!Fail, Asked, AskedOf
<1> QED BY <1>5, <1>6

\* When nothing remains, all that was asked for has been read.
LEMMA ReadToTheEnd ==
  ASSUME LoopInv, loop = "read", remaining <= 0
  PROVE  base = Len(Asked)
<1>1. /\ base \in 0 .. Len(Asked) /\ remaining = fileSize - base
      /\ fileSize \in Int /\ source \in Seq(Byte)
  BY DEF LoopInv
<1>2. /\ Len(source) \in Nat
      /\ Len(Asked) = IF fileSize < 0 THEN 0 ELSE Least(fileSize, Len(source))
  BY <1>1, AskedType, LenProperties DEF Asked
<1> QED BY <1>1, <1>2 DEF Least

LEMMA LoopSteps ==
  ASSUME FullInv, [Next]_vars
  PROVE  [LoopSender!SenderNext]_(LoopSender!senderVars)
<1>0. ASSUME UNCHANGED << basis, source, fileSize, given, loop, outcome >>
      PROVE  UNCHANGED LoopSender!senderVars
  <2>1. LoopVerdict' = LoopVerdict /\ Asked' = Asked
    BY <1>0 DEF LoopVerdict, Asked
  <2> QED BY <1>0, <2>1 DEF LoopSender!senderVars, Asked, AskedOf
<1>1. ASSUME NEW f \in Bases, NEW s \in Reachable(f), Load(f, s)
      PROVE  LoopSender!SenderNext
  <2>1. /\ LoopAtRest /\ loop' = "none" /\ basis' = f /\ given' = << >> /\ source' = << >>
        /\ fileSize' = fileSize
    BY <1>1 DEF Load, LoadSignature
  <2>2. LoopVerdict # "open" /\ LoopVerdict' = "idle"
    BY <2>1 DEF LoopVerdict, LoopAtRest
  <2>3. AskedOf(source', fileSize') = << >>
    <3>1. fileSize' \in Int
      BY <2>1 DEF FullInv, LoopInv
    <3>2. << >> \in Seq(Byte) /\ Len(<< >>) = 0
      BY EmptySeq
    <3>3. /\ AskedOf(<< >>, fileSize') \in Seq(Byte)
          /\ Len(AskedOf(<< >>, fileSize')) =
               IF fileSize' < 0 THEN 0 ELSE Least(fileSize', 0)
      BY <3>1, <3>2, AskedType
    <3>4. Len(AskedOf(<< >>, fileSize')) = 0
      BY <3>1, <3>3 DEF Least
    <3> QED BY <2>1, <3>3, <3>4, EmptySeq
  <2> QED BY <2>1, <2>2, <2>3 DEF LoopSender!SenderNext, LoopSender!UseSignature, AskedOf
<1>2. ASSUME NEW d \in Inputs, NEW n \in Workers, CallSearchParallel(d, n)
      PROVE  UNCHANGED LoopSender!senderVars
  BY <1>0, <1>2 DEF CallSearchParallel, SearchParallel, engineVars, loopVars, readerVars
<1>3. ASSUME NEW d \in Inputs, NEW w \in WindowSizes, NEW n \in Workers,
             NEW size \in FileSizes(d), SearchReaderParallel(d, size, w, n)
      PROVE  LoopSender!SenderNext
  <2>1. /\ LoopAtRest /\ loop' = "read" /\ basis' = basis /\ given' = << >>
        /\ source' = d /\ fileSize' = size
    BY <1>3 DEF SearchReaderParallel, engineVars
  <2>2. d \in Seq(Byte) /\ size \in Int
    BY ParallelAssumption, WindowedAssumption
  <2>3. AskedOf(source', fileSize') \in Seq(Byte)
    BY <2>1, <2>2, AskedType
  <2>4. LoopVerdict # "open" /\ LoopVerdict' = "open"
    BY <2>1 DEF LoopVerdict, LoopAtRest
  <2> QED BY <2>1, <2>3, <2>4 DEF LoopSender!SenderNext, LoopSender!Begin, AskedOf
<1>4. CASE HandOver
  <2>1. PICK hi \in 0 .. Len(Asked) :
          /\ LoopSender!ExtendTo(hi)
          /\ loop' = "returned" /\ outcome' = "nil" => hi = Len(Asked)
    BY <1>4, LoopExtends
  <2>2. loop = "search" /\ loop' \in {"read", "returned"}
    BY <1>4, HandOverEffect DEF FullInv
  <2>3. LoopVerdict = "open"
    BY <2>2 DEF LoopVerdict
  <2>4. CASE loop' = "read"
    <3>1. LoopVerdict' = "open"
      BY <2>4 DEF LoopVerdict
    <3> QED BY <2>1, <2>3, <3>1
            DEF LoopSender!SenderNext, LoopSender!Deliver, Asked, AskedOf
  <2>5. CASE loop' = "returned" /\ outcome' = "nil"
    <3>1. LoopVerdict' = "ok"
      BY <2>5 DEF LoopVerdict
    <3> QED BY <2>1, <2>3, <2>5, <3>1
            DEF LoopSender!SenderNext, LoopSender!Complete, Asked, AskedOf
  <2>6. CASE loop' = "returned" /\ outcome' # "nil"
    <3>1. LoopVerdict' = "failed"
      BY <2>6 DEF LoopVerdict
    <3> QED BY <2>1, <2>3, <3>1
            DEF LoopSender!SenderNext, LoopSender!Fail, Asked, AskedOf
  <2> QED BY <2>2, <2>4, <2>5, <2>6
<1>5. CASE AllRead
  <2>1. /\ loop = "read" /\ remaining <= 0 /\ loop' = "returned" /\ outcome' = "nil"
        /\ UNCHANGED << basis, source, fileSize, given >>
    BY <1>5 DEF AllRead, parallelVars, engineVars, readerVars
  <2>2. base = Len(Asked)
    BY <2>1, ReadToTheEnd DEF FullInv
  <2> QED BY <2>1, <2>2, LoopEnds
<1>6. CASE ReadWindow
  <2>1. PICK r \in FullReads(Least(windowSize, remaining)) :
          IF r.n = 0
          THEN /\ loop' = "returned" /\ outcome' = IF r.err = "io" THEN "io" ELSE "nil"
               /\ UNCHANGED << parallelVars, readErr >>
          ELSE /\ SearchParallel(Slice(source, base, base + r.n), workers)
               /\ readErr' = r.err
               /\ loop' = "search"
               /\ UNCHANGED << calls, outcome >>
    BY <1>6 DEF ReadWindow
  <2>2. /\ loop = "read" /\ remaining > 0 /\ UNCHANGED << source, fileSize, given >>
    BY <1>6 DEF ReadWindow, readerVars
  <2>3. CASE r.n = 0
    <3>1. /\ loop' = "returned" /\ outcome' = (IF r.err = "io" THEN "io" ELSE "nil")
          /\ basis' = basis
      BY <2>1, <2>3 DEF parallelVars, engineVars
    <3>2. /\ r.err \in {"eof", "io"} /\ base \in Nat
          /\ r.err = "eof" => base + r.n = Len(Asked)
      BY <2>2, <2>3, ReadBounds DEF FullInv
    <3>3. outcome' \in {"nil", "io"} /\ (outcome' = "nil" => base = Len(Asked))
      BY <2>3, <3>1, <3>2
    <3> QED BY <2>2, <3>1, <3>3, LoopEnds
  <2>4. CASE r.n # 0
    <3>1. loop' = "search" /\ basis' = basis
      BY <2>1, <2>4 DEF SearchParallel, engineVars
    <3>2. LoopVerdict' = LoopVerdict /\ Asked' = Asked
      BY <2>2, <3>1 DEF LoopVerdict, Asked
    <3> QED BY <2>2, <3>1, <3>2 DEF LoopSender!senderVars, Asked, AskedOf
  <2> QED BY <2>3, <2>4
<1>7. CASE (Caller \/ Worker) /\ UNCHANGED loopVars
  <2>1. basis' = basis
    BY <1>7 DEF Caller, Worker, SearchSerially, Split, Launch, LaunchEnd, Collect, Merge,
                WorkerSend, engineVars
  <2> QED BY <1>0, <1>7, <2>1 DEF loopVars, readerVars
<1>8. CASE Rest \/ UNCHANGED vars
  BY <1>0, <1>8 DEF Rest, vars, parallelVars, engineVars, loopVars, readerVars
<1> QED BY <1>1, <1>2, <1>3, <1>4, <1>5, <1>6, <1>7, <1>8 DEF Next, Loop

\* SearchReaderParallel keeps the promise, at any window size and number of
\* workers, over readers that end early or fail and callbacks that refuse.
THEOREM WindowedIsSender == Spec => WindowedKeepsPromise
<1>1. Init => LoopSender!SenderInit
  <2> SUFFICES ASSUME Init PROVE LoopSender!SenderInit
    OBVIOUS
  <2>1. /\ basis = << >> /\ source = << >> /\ fileSize = 0 /\ given = << >> /\ loop = "none"
    BY DEF Init, ParallelInit
  <2>2. LoopVerdict = "idle"
    BY <2>1 DEF LoopVerdict
  <2>3. Slice(source, 0, Least(fileSize, Len(source))) = << >>
    <3>1. Len(<< >>) = 0
      BY EmptySeq
    <3>2. Least(fileSize, Len(source)) = 0
      BY <2>1, <3>1 DEF Least
    <3> QED BY <2>1, <3>2, SubSeqEmpty DEF Slice
  <2> QED BY <2>1, <2>2, <2>3 DEF LoopSender!SenderInit
<1>2. FullInv /\ [Next]_vars => [LoopSender!SenderNext]_(LoopSender!senderVars)
  BY LoopSteps
<1> QED BY <1>1, <1>2, ParallelInvariant, PTL
        DEF Spec, WindowedKeepsPromise, LoopSender!SenderSpec

-----------------------------------------------------------------------------
(* What cutting costs: sets of places *)

\* The sets of places of d at which a block may be sent and which do not
\* overlap: the places the matches of any search are at.
Disjoint(f, k, d) ==
  {S \in SUBSET (0 .. Len(d)) :
     /\ \A m \in S : /\ m + BlockSize <= Len(d)
                     /\ Candidates(f, k, Slice(d, m, m + BlockSize)) # {}
     /\ \A m, n \in S : m < n => m + BlockSize <= n}

Inside(S, lo, hi) == {m \in S : lo <= m /\ m + BlockSize <= hi}

\* In how many literal bytes insts cover the data from lo to hi, when c pieces
\* of it were searched: each costs at most a block more than the places in S.
Costs(S, insts, lo, hi, c) ==
  LiteralCount(insts) + Cardinality(Inside(S, lo, hi)) * BlockSize + BlockSize
    <= (hi - lo) + c * BlockSize

LEMMA OneMore ==
  ASSUME NEW X, NEW Y, IsFiniteSet(X), IsFiniteSet(Y),
         \A m, n \in Y \ X : m = n
  PROVE  Cardinality(Y) <= Cardinality(X) + 1
<1>0. Cardinality(X) \in Nat /\ Cardinality(Y) \in Nat
  BY FS_CardinalityType
<1>1. CASE Y \subseteq X
  <2>1. Cardinality(Y) <= Cardinality(X)
    BY <1>1, FS_Subset
  <2> QED BY <1>0, <2>1
<1>2. CASE ~ (Y \subseteq X)
  <2>1. PICK m \in Y : m \notin X
    BY <1>2
  <2>2. Y \subseteq X \cup {m}
    BY <2>1
  <2>3. IsFiniteSet(X \cup {m}) /\ Cardinality(X \cup {m}) = Cardinality(X) + 1
    BY <2>1, FS_AddElement
  <2>4. Cardinality(Y) <= Cardinality(X \cup {m})
    BY <2>2, <2>3, FS_Subset
  <2> QED BY <2>3, <2>4
<1> QED BY <1>1, <1>2

LEMMA InsideFinite ==
  ASSUME NEW f, NEW k, NEW d \in Seq(Byte), NEW S \in Disjoint(f, k, d), NEW lo, NEW hi
  PROVE  /\ IsFiniteSet(S) /\ Cardinality(S) \in Nat /\ S \subseteq Nat
         /\ IsFiniteSet(Inside(S, lo, hi)) /\ Cardinality(Inside(S, lo, hi)) \in Nat
         /\ \A m, n \in S : m < n => m + BlockSize <= n
<1>1. Len(d) \in Nat
  BY LenProperties
<1>2. IsFiniteSet(0 .. Len(d))
  BY <1>1, FS_Interval
<1>3. S \subseteq 0 .. Len(d) /\ \A m, n \in S : m < n => m + BlockSize <= n
  BY DEF Disjoint
<1>4. IsFiniteSet(S)
  BY <1>2, <1>3, FS_Subset
<1>5. IsFiniteSet(Inside(S, lo, hi))
  BY <1>4, FS_Subset DEF Inside
<1> QED BY <1>1, <1>3, <1>4, <1>5, FS_CardinalityType

\* At most one of the places lies in the first block.
LEMMA InsideNext ==
  ASSUME NEW f, NEW k, NEW d \in Seq(Byte), NEW S \in Disjoint(f, k, d),
         NEW lo \in Nat, NEW hi \in Nat
  PROVE  Cardinality(Inside(S, lo, hi)) <= Cardinality(Inside(S, lo + BlockSize, hi)) + 1
<1> DEFINE Y == Inside(S, lo, hi)
           X == Inside(S, lo + BlockSize, hi)
<1>0. BlockSize \in Nat /\ S \subseteq Nat /\ \A m, n \in S : m < n => m + BlockSize <= n
  BY BlockSizeAssumption, InsideFinite
<1>1. IsFiniteSet(X) /\ IsFiniteSet(Y)
  BY InsideFinite
<1>2. \A m \in Y \ X : m \in S /\ lo <= m /\ m < lo + BlockSize
  BY <1>0 DEF Inside
<1> HIDE DEF X, Y
<1>3. \A m, n \in Y \ X : m = n
  <2> SUFFICES ASSUME NEW m \in Y \ X, NEW n \in Y \ X
               PROVE  m = n
    OBVIOUS
  <2>1. /\ m \in S /\ lo <= m /\ m < lo + BlockSize /\ m \in Nat
        /\ n \in S /\ lo <= n /\ n < lo + BlockSize /\ n \in Nat
    BY <1>0, <1>2
  <2>2. ~ (m < n) /\ ~ (n < m)
    BY <1>0, <2>1
  <2> QED BY <2>1, <2>2
<1> QED BY <1>1, <1>3, OneMore DEF X, Y

\* At most one of the places lies across the cut.
LEMMA InsideCut ==
  ASSUME NEW f, NEW k, NEW d \in Seq(Byte), NEW S \in Disjoint(f, k, d),
         NEW lo \in Nat, NEW mid \in Nat, NEW hi \in Nat
  PROVE  Cardinality(Inside(S, lo, hi))
           <= Cardinality(Inside(S, lo, mid)) + Cardinality(Inside(S, mid, hi)) + 1
<1> DEFINE Y == Inside(S, lo, hi)
           A == Inside(S, lo, mid)
           B == Inside(S, mid, hi)
           X == A \cup B
<1>0. BlockSize \in Nat /\ S \subseteq Nat /\ \A m, n \in S : m < n => m + BlockSize <= n
  BY BlockSizeAssumption, InsideFinite
<1>1. /\ IsFiniteSet(A) /\ IsFiniteSet(B) /\ IsFiniteSet(Y)
      /\ Cardinality(A) \in Nat /\ Cardinality(B) \in Nat /\ Cardinality(Y) \in Nat
  BY InsideFinite
<1>2. \A m \in Y \ X : m \in S /\ m < mid /\ mid < m + BlockSize
  BY <1>0 DEF Inside
<1> HIDE DEF A, B, Y
<1>3. IsFiniteSet(X) /\ Cardinality(X) <= Cardinality(A) + Cardinality(B)
  <2>1. /\ IsFiniteSet(X)
        /\ Cardinality(X) = Cardinality(A) + Cardinality(B) - Cardinality(A \cap B)
    BY <1>1, FS_Union
  <2>2. IsFiniteSet(A \cap B)
    BY <1>1, FS_Subset
  <2>3. Cardinality(A \cap B) \in Nat
    BY <2>2, FS_CardinalityType
  <2> QED BY <1>1, <2>1, <2>3
<1> HIDE DEF X
<1>4. \A m, n \in Y \ X : m = n
  <2> SUFFICES ASSUME NEW m \in Y \ X, NEW n \in Y \ X
               PROVE  m = n
    OBVIOUS
  <2>1. /\ m \in S /\ m < mid /\ mid < m + BlockSize /\ m \in Nat
        /\ n \in S /\ n < mid /\ mid < n + BlockSize /\ n \in Nat
    BY <1>0, <1>2
  <2>2. ~ (m < n) /\ ~ (n < m)
    BY <1>0, <2>1
  <2> QED BY <2>1, <2>2
<1>5. Cardinality(Y) <= Cardinality(X) + 1 /\ Cardinality(X) \in Nat
  BY <1>1, <1>3, <1>4, OneMore, FS_CardinalityType
<1> QED BY <1>1, <1>3, <1>5 DEF A, B, Y

LEMMA InsideMiss ==
  ASSUME NEW f, NEW k, NEW d \in Seq(Byte), NEW S \in Disjoint(f, k, d),
         NEW a \in Nat, NEW b \in Nat, a \notin S
  PROVE  Inside(S, a, b) = Inside(S, a + 1, b)
<1>1. S \subseteq Nat /\ BlockSize \in Nat
  BY InsideFinite, BlockSizeAssumption
<1>2. ASSUME NEW m \in S
      PROVE  a <= m <=> a + 1 <= m
  BY <1>1
<1> QED BY <1>2 DEF Inside

\* How many bytes the places save from a on.
Saved(S, a, b) == Cardinality(Inside(S, a, b)) * BlockSize

LEMMA SavedNext ==
  ASSUME NEW f, NEW k, NEW d \in Seq(Byte), NEW S \in Disjoint(f, k, d),
         NEW a \in Nat, NEW b \in Nat
  PROVE  /\ Saved(S, a, b) <= Saved(S, a + BlockSize, b) + BlockSize
         /\ Saved(S, a, b) \in Nat
<1> DEFINE m == Cardinality(Inside(S, a, b))
           n == Cardinality(Inside(S, a + BlockSize, b))
<1>1. m \in Nat /\ n \in Nat /\ m <= n + 1 /\ BlockSize \in Nat
  BY InsideFinite, InsideNext, BlockSizeAssumption
<1>2. Saved(S, a, b) = m * BlockSize /\ Saved(S, a + BlockSize, b) = n * BlockSize
  BY DEF Saved
<1> HIDE DEF m, n
<1>3. m * BlockSize <= (n + 1) * BlockSize
  BY <1>1, ScaleMonotone
<1>4. (n + 1) * BlockSize = n * BlockSize + BlockSize /\ m * BlockSize \in Nat
  BY <1>1
<1> QED BY <1>2, <1>3, <1>4

LEMMA InsideNone ==
  ASSUME NEW f, NEW k, NEW d \in Seq(Byte), NEW S \in Disjoint(f, k, d),
         NEW lo \in Nat, NEW hi \in Nat, lo + BlockSize > hi
  PROVE  Cardinality(Inside(S, lo, hi)) = 0
<1>1. S \subseteq Nat /\ BlockSize \in Nat
  BY InsideFinite, BlockSizeAssumption
<1>2. ASSUME NEW m \in Inside(S, lo, hi)
      PROVE  FALSE
  <2>1. m \in Nat /\ lo <= m /\ m + BlockSize <= hi
    BY <1>1 DEF Inside
  <2> QED BY <1>1, <2>1
<1>3. Inside(S, lo, hi) = {}
  BY <1>2
<1> QED BY <1>3, FS_EmptySet

\* Two neighbours may cost a block more together: at the cut between them.
LEMMA CostsConcat ==
  ASSUME NEW f, NEW k, NEW d \in Seq(Byte), NEW S \in Disjoint(f, k, d),
         NEW lo \in Nat, NEW mid \in Nat, NEW hi \in Nat, NEW c \in Nat, NEW e \in Nat,
         NEW a \in Seq(Instruction), NEW b \in Seq(Instruction),
         Costs(S, a, lo, mid, c), Costs(S, b, mid, hi, e)
  PROVE  Costs(S, a \o b, lo, hi, c + e)
<1> DEFINE x == Cardinality(Inside(S, lo, mid))
           y == Cardinality(Inside(S, mid, hi))
           z == Cardinality(Inside(S, lo, hi))
           la == LiteralCount(a)
           lb == LiteralCount(b)
<1>1. x \in Nat /\ y \in Nat /\ z \in Nat /\ z <= x + y + 1
  BY InsideFinite, InsideCut
<1>2. LiteralCount(a \o b) = la + lb /\ la \in Nat /\ lb \in Nat
  BY CountsConcat, LiteralCountType
<1>3. /\ la + x * BlockSize + BlockSize <= (mid - lo) + c * BlockSize
      /\ lb + y * BlockSize + BlockSize <= (hi - mid) + e * BlockSize
  BY DEF Costs
<1> HIDE DEF x, y, z, la, lb
<1>4. BlockSize \in Nat
  BY BlockSizeAssumption
<1>5. z * BlockSize <= (x + y + 1) * BlockSize
  BY <1>1, <1>4, ScaleMonotone
<1>6. /\ (x + y + 1) * BlockSize = x * BlockSize + y * BlockSize + BlockSize
      /\ (c + e) * BlockSize = c * BlockSize + e * BlockSize
      /\ x * BlockSize \in Nat /\ y * BlockSize \in Nat /\ z * BlockSize \in Nat
      /\ c * BlockSize \in Nat /\ e * BlockSize \in Nat
  BY <1>1, <1>4
<1> DEFINE xb == x * BlockSize
           yb == y * BlockSize
           zb == z * BlockSize
           cb == c * BlockSize
           eb == e * BlockSize
<1>7. /\ xb \in Nat /\ yb \in Nat /\ zb \in Nat /\ cb \in Nat /\ eb \in Nat
      /\ zb <= xb + yb + BlockSize
      /\ la + xb + BlockSize <= (mid - lo) + cb
      /\ lb + yb + BlockSize <= (hi - mid) + eb
      /\ la \in Nat /\ lb \in Nat
  BY <1>2, <1>3, <1>5, <1>6
<1> HIDE DEF xb, yb, zb, cb, eb
<1>8. (la + lb) + zb + BlockSize <= (hi - lo) + (cb + eb)
  BY <1>4, <1>7
<1>9. LiteralCount(a \o b) + z * BlockSize + BlockSize <= (hi - lo) + (c + e) * BlockSize
  BY <1>2, <1>6, <1>8 DEF zb, cb, eb
<1> QED BY <1>9 DEF Costs, z

-----------------------------------------------------------------------------
(* What cutting costs: one piece *)

\* g keeps of a result what lies before z, and a reference that does as it is.
Trims(g, f, n, z) ==
  /\ Maps(g, Instruction, Seq(Instruction))
  /\ \A r \in Instruction : EndOf(f, r) <= n =>
       /\ LiteralCount(g[r]) <= Least(EndOf(f, r), z) - Least(r.offset, z)
       /\ ~ r.isLiteral /\ EndOf(f, r) <= z => LiteralCount(g[r]) = 0

\* What is kept of a list has no more literal bytes than the data it covers.
LEMMA KeptLiterals ==
  ASSUME NEW f \in Seq(Byte), NEW x \in Seq(Byte), NEW z \in Nat,
         NEW g, Trims(g, f, Len(x), z), NEW t \in Seq(Instruction),
         NEW lo \in Nat, NEW hi \in Nat, Covers(f, x, t, lo, hi)
  PROVE  /\ FlatMap(g, t) \in Seq(Instruction)
         /\ LiteralCount(FlatMap(g, t)) <= Least(hi, z) - Least(lo, z)
<1> DEFINE N == Len(t)
           At(m) == IF m = 0 THEN lo ELSE EndOf(f, t[m])
           Fits(m) == /\ At(m) \in Nat
                      /\ FlatMap(g, SubSeq(t, 1, m)) \in Seq(Instruction)
                      /\ LiteralCount(FlatMap(g, SubSeq(t, 1, m)))
                           <= Least(At(m), z) - Least(lo, z)
           P == {m \in 0 .. N : Fits(m)}
<1>0. N \in Nat /\ Maps(g, Instruction, Seq(Instruction))
  BY LenProperties DEF Trims
<1>1. 0 \in P
  <2>1. SubSeq(t, 1, 0) = << >> /\ FlatMap(g, << >>) = << >>
    BY SubSeqEmpty, FlatMapNone
  <2>2. << >> \in Seq(Instruction) /\ LiteralCount(<< >>) = 0
    BY NothingAmounts
  <2>3. At(0) = lo /\ Least(lo, z) - Least(lo, z) = 0
    BY DEF Least
  <2>4. FlatMap(g, SubSeq(t, 1, 0)) = << >> /\ At(0) \in Nat
    BY <2>1, <2>3
  <2>5. LiteralCount(FlatMap(g, SubSeq(t, 1, 0))) <= Least(At(0), z) - Least(lo, z)
    BY <2>2, <2>3, <2>4
  <2> HIDE DEF At
  <2>6. Fits(0)
    BY <2>2, <2>4, <2>5
  <2> HIDE DEF Fits
  <2> QED BY <1>0, <2>6
<1>2. ASSUME NEW m \in 0 .. N - 1, m \in P
      PROVE  m + 1 \in P
  <2> DEFINE j == m + 1
             r == t[j]
             a == FlatMap(g, SubSeq(t, 1, m))
             e == At(m)
  <2>1. /\ e \in Nat /\ a \in Seq(Instruction)
        /\ LiteralCount(a) <= Least(e, z) - Least(lo, z)
    BY <1>2
  <2>2. j \in 1 .. N /\ j # 0 /\ j \in 0 .. N
    BY <1>0
  <2>3. r \in Instruction /\ EndOf(f, r) <= Len(x)
    BY <2>2, ElementOfSeq DEF Covers
  <2>4. r.offset = e
    <3>1. CASE m = 0
      <4>1. t # << >> /\ j = 1
        BY <2>2, <3>1, EmptySeq
      <4> QED BY <3>1, <4>1 DEF Covers
    <3>2. CASE m # 0
      <4>1. m \in 1 .. Len(t) - 1
        BY <1>0, <3>2
      <4> QED BY <3>2, <4>1 DEF Covers
    <3> QED BY <3>1, <3>2
  <2>5. At(j) = EndOf(f, r)
    BY <2>2
  <2>6. FlatMap(g, SubSeq(t, 1, j)) = a \o g[r]
    BY <1>0, FlatMapNext, ZenonT(60)
  <2> HIDE DEF a, e, j, r, At
  <2>7. g[r] \in Seq(Instruction)
    BY <1>0, <2>3 DEF Maps
  <2>8. LiteralCount(g[r]) <= Least(EndOf(f, r), z) - Least(e, z) /\ EndOf(f, r) \in Nat
    BY <2>3, <2>4, EndOfType DEF Trims
  <2>9. a \o g[r] \in Seq(Instruction)
    BY <2>1, <2>7, ConcatProperties
  <2>10. /\ LiteralCount(a \o g[r]) = LiteralCount(a) + LiteralCount(g[r])
         /\ LiteralCount(a) \in Nat /\ LiteralCount(g[r]) \in Nat
    BY <2>1, <2>7, CountsConcat, LiteralCountType
  <2>11. LiteralCount(a \o g[r]) <= Least(EndOf(f, r), z) - Least(lo, z)
    BY <2>1, <2>8, <2>10, SMTT(30) DEF Least
  <2>12. Fits(j)
    BY <2>5, <2>6, <2>8, <2>9, <2>11
  <2> QED BY <2>2, <2>12 DEF j
<1> HIDE DEF P
<1>3. N \in P
  <2>1. 0 .. N \subseteq P
    BY <1>0, <1>1, <1>2, Induction
  <2> QED BY <1>0, <2>1
<1>4. SubSeq(t, 1, N) = t
  BY SubSeqFull
<1>5. At(N) = hi
  <2>1. CASE N = 0
    <3>1. t = << >>
      BY <2>1, EmptySeq
    <3> QED BY <2>1, <3>1 DEF Covers
  <2>2. CASE N # 0
    <3>1. t # << >>
      BY <1>0, <2>2, EmptySeq
    <3> QED BY <2>2, <3>1 DEF Covers
  <2> QED BY <2>1, <2>2
<1>6. Fits(N)
  BY <1>3 DEF P
<1> QED BY <1>4, <1>5, <1>6

\* x is the part of A that begins at u.
PartAt(A, u, x) ==
  /\ u + Len(x) <= Len(A)
  /\ \A a, b \in Nat : a <= b /\ b <= Len(x) => Slice(x, a, b) = Slice(A, u + a, u + b)

LEMMA SliceIsPart ==
  ASSUME NEW A \in Seq(Byte), NEW u \in Nat, NEW v \in Nat, u <= v, v <= Len(A)
  PROVE  /\ PartAt(A, u, Slice(A, u, v)) /\ Slice(A, u, v) \in Seq(Byte)
         /\ Len(Slice(A, u, v)) = v - u
<1> DEFINE x == Slice(A, u, v)
<1>1. x \in Seq(Byte) /\ Len(x) = v - u
  BY SliceType, ZenonT(60)
<1>2. ASSUME NEW a \in Nat, NEW b \in Nat, a <= b, b <= Len(x)
      PROVE  Slice(x, a, b) = Slice(A, u + a, u + b)
  <2>1. b <= v - u
    BY <1>1, <1>2
  <2> QED BY <1>2, <2>1, SliceSlice
<1> HIDE DEF x
<1>3. u + Len(x) <= Len(A)
  BY <1>1
<1>4. PartAt(A, u, x)
  BY <1>2, <1>3 DEF PartAt
<1> QED BY <1>1, <1>4 DEF x

LEMMA KeptCounts ==
  ASSUME NEW g, Maps(g, Instruction, Seq(Instruction)),
         NEW a \in Seq(Instruction), NEW r \in Instruction, NEW c \in Seq(Instruction)
  PROVE  /\ LiteralCount(FlatMap(g, (a \o << r >>) \o c))
              = LiteralCount(FlatMap(g, a)) + LiteralCount(g[r]) + LiteralCount(FlatMap(g, c))
         /\ LiteralCount(FlatMap(g, a)) \in Nat /\ LiteralCount(FlatMap(g, c)) \in Nat
<1> DEFINE one == << r >>
           ao == a \o one
           ga == FlatMap(g, a)
           gc == FlatMap(g, c)
           gr == g[r]
<1>1. one \in Seq(Instruction) /\ FlatMap(g, one) = gr
  BY FlatMapOne
<1> HIDE DEF one
<1>2. ao \in Seq(Instruction)
  BY <1>1, ConcatProperties
<1>0. Maps(g, Instruction, Seq(Instruction)) /\ a \in Seq(Instruction) /\ c \in Seq(Instruction)
  OBVIOUS
<1>9. one \in Seq(Instruction)
  BY <1>1
<1>8. FlatMap(g, a \o one) = FlatMap(g, a) \o FlatMap(g, one)
  BY ONLY <1>0, <1>9, FlatMapConcat
<1> HIDE DEF ao
<1>3. FlatMap(g, ao \o c) = FlatMap(g, ao) \o FlatMap(g, c)
  BY ONLY <1>0, <1>2, FlatMapConcat
<1>4. ga \in Seq(Instruction) /\ gc \in Seq(Instruction) /\ gr \in Seq(Instruction)
  BY FlatMapType DEF Maps
<1>5. FlatMap(g, (a \o one) \o c) = (ga \o gr) \o gc
  BY <1>1, <1>3, <1>8 DEF ao
<1> HIDE DEF ga, gc, gr
<1>6. ga \o gr \in Seq(Instruction)
  BY <1>4, ConcatProperties
<1>7. LiteralCount((ga \o gr) \o gc) = LiteralCount(ga) + LiteralCount(gr) + LiteralCount(gc)
      /\ LiteralCount(ga) \in Nat /\ LiteralCount(gc) \in Nat
  BY <1>4, <1>6, CountsConcat, LiteralCountType
<1> QED BY <1>5, <1>7 DEF one, ga, gc, gr

\* The scan of a piece, from s on: of the bytes up to z, at least those that the
\* places in S save are not literals in what g keeps.
LEMMA ScanCosts ==
  ASSUME NEW f \in Seq(Byte), NEW A \in Seq(Byte), NEW k, AreBlocks(f, k),
         NEW S \in Disjoint(f, k, A), NEW u \in Nat, NEW x \in Seq(Byte), PartAt(A, u, x),
         NEW z \in 0 .. Len(x),
         NEW g, Trims(g, f, Len(x), z),
         NEW s \in ScanStates(f, x), s.lm <= s.o, s.lm <= z
  PROVE  LiteralCount(FlatMap(g, Scanner(f, k, x)[s]))
           + Saved(S, u + s.o, u + z) <= z - s.lm
<1> DEFINE N == Len(x)
           h == Scanner(f, k, x)
           C(o) == Saved(S, u + o, u + z)
           Saves(t) == LiteralCount(FlatMap(g, h[t])) + C(t.o) <= z - t.lm
           P == {m \in 0 .. N : \A t \in ScanStates(f, x) :
                   t.lm <= t.o /\ t.lm <= z /\ t.o + m >= N => Saves(t)}
<1>0. /\ N \in Nat /\ z \in Nat /\ z <= N /\ BlockSize \in Nat \ {0} /\ NumBlocks(f) \in Nat
      /\ Shows(f, f) /\ Maps(g, Instruction, Seq(Instruction)) /\ u \in Nat
  BY LenProperties, BlockSizeAssumption, NumBlocksType DEF Shows, Trims
<1>9. u \in Nat /\ z \in Nat /\ BlockSize \in Nat
  BY <1>0
<1>1. ASSUME NEW t \in ScanStates(f, x), t.lm <= t.o, t.lm <= z, t.o + BlockSize > z
      PROVE  Saves(t)
  <2>1. t.o \in Nat /\ t.lm \in Nat
    BY <1>0 DEF ScanStates
  <2>2. C(t.o) = 0
    <3> DEFINE a == u + t.o
               b == u + z
    <3>1. a \in Nat /\ b \in Nat /\ a + BlockSize > b
      BY <1>0, <1>1, <2>1, SMTT(30)
    <3> HIDE DEF a, b
    <3>2. Cardinality(Inside(S, a, b)) = 0
      BY <3>1, InsideNone
    <3> QED BY <1>0, <3>2 DEF a, b, Saved
  <2>3. h[t] \in Seq(Instruction) /\ Covers(f, x, h[t], t.lm, N)
    BY <1>0, <1>1, ScannerType, ScannerCovers
  <2> HIDE DEF h, C
  <2>4. /\ FlatMap(g, h[t]) \in Seq(Instruction)
        /\ LiteralCount(FlatMap(g, h[t])) <= Least(N, z) - Least(t.lm, z)
    BY <1>0, <2>1, <2>3, KeptLiterals
  <2>5. Least(N, z) = z /\ Least(t.lm, z) = t.lm
    BY <1>0, <1>1, <2>1 DEF Least
  <2>6. LiteralCount(FlatMap(g, h[t])) \in Nat
    BY <2>4, LiteralCountType
  <2> HIDE DEF N
  <2> QED BY <1>0, <2>1, <2>2, <2>4, <2>5, <2>6
<1>2. 0 \in P
  <2>1. ASSUME NEW t \in ScanStates(f, x), t.o + 0 >= N
        PROVE  t.o + BlockSize > z
    BY <1>0, <2>1 DEF ScanStates
  <2> HIDE DEF Saves
  <2> QED BY <1>0, <1>1, <2>1
<1>3. ASSUME NEW m \in 0 .. N - 1, m \in P
      PROVE  m + 1 \in P
  <2> SUFFICES ASSUME NEW t \in ScanStates(f, x), t.lm <= t.o, t.lm <= z, t.o + (m + 1) >= N
               PROVE  Saves(t)
    <3> HIDE DEF Saves
    <3> QED BY <1>0
  <2> DEFINE e == t.o + BlockSize
             w == Slice(x, t.o, e)
  <2>0. t.o \in Nat /\ t.lm \in Nat /\ m \in Nat /\ e \in Nat /\ t.o <= e
    BY <1>0, SMTT(30) DEF ScanStates
  <2>a. ASSUME NEW p \in ScanStates(f, x), p.lm <= p.o, p.lm <= z, p.o + m >= N
        PROVE  LiteralCount(FlatMap(g, h[p])) + C(p.o) <= z - p.lm
    BY <1>3, <2>a
  <2>1. CASE e > z
    BY <1>1, <2>1
  <2>2. CASE e <= z /\ Candidates(f, k, w) = {}
    <3> DEFINE p == Missed(t)
    <3>1. /\ p \in ScanStates(f, x) /\ p.o = t.o + 1
          /\ p = [o |-> t.o + 1, lm |-> t.lm, want |-> t.want]
      BY <1>0, <2>0, <2>2, MissGoesOn, SMTT(30)
    <3>2. p.lm = t.lm /\ p.lm <= p.o /\ p.o + m >= N
      <4>1. p.lm = t.lm
        BY <3>1
      <4> HIDE DEF p
      <4>2. PICK o \in Nat, l \in Nat, n \in Nat : o = t.o /\ l = t.lm /\ n = N
        BY <1>0, <2>0
      <4>3. l <= o /\ o + (m + 1) >= n /\ m \in Nat
        BY <2>0, <4>2
      <4>4. l <= o + 1 /\ (o + 1) + m >= n
        BY ONLY <4>2, <4>3, SMTT(30)
      <4> QED BY ONLY <3>1, <4>1, <4>2, <4>4
    <3>3. h[t] = h[p]
      <4>1. t.o + BlockSize <= Len(x) /\ Candidates(f, k, Slice(x, t.o, t.o + BlockSize)) = {}
        BY <1>0, <2>0, <2>2
      <4> QED BY <1>0, <4>1, ScannerMisses
    <3> HIDE DEF p, h
    <3>4. C(t.o) = C(p.o)
      <4>1. u + t.o \notin S
        <5>1. Slice(A, u + t.o, u + e) = w
          <6>1. t.o \in Nat /\ e \in Nat /\ t.o <= e /\ e <= Len(x)
            BY <1>0, <2>0, <2>2
          <6> HIDE DEF e
          <6> QED BY <6>1 DEF PartAt, w
        <5>2. u + t.o + BlockSize = u + e
          BY <1>0, <2>0
        <5> QED BY <2>2, <5>1, <5>2 DEF Disjoint
      <4>2. PICK o \in Nat : o = t.o
        BY <2>0
      <4>0. u + o \in Nat /\ u + z \in Nat /\ u + (o + 1) = (u + o) + 1
        BY ONLY <1>9, <4>2
      <4>3. /\ u + o \in Nat /\ u + z \in Nat /\ u + (o + 1) = (u + o) + 1 /\ u + o \notin S
        BY <4>0, <4>1, <4>2
      <4>4. Inside(S, u + o, u + z) = Inside(S, u + (o + 1), u + z)
        BY <4>3, InsideMiss
      <4> QED BY <3>1, <4>2, <4>4 DEF Saved
    <3> HIDE DEF C
    <3>5. LiteralCount(FlatMap(g, h[p])) + C(p.o) <= z - p.lm
      BY <2>a, <3>1, <3>2
    <3> QED BY <3>2, <3>3, <3>4, <3>5
  <2>3. CASE e <= z /\ Candidates(f, k, w) # {}
    <3> DEFINE i == Chosen(f, k, w, t.want)
               p == After(t, i)
               cs == Chunks(Slice(x, t.lm, t.o), t.lm)
               one == << Match(i, t.o) >>
    <3>0. /\ w = Slice(x, t.o, t.o + BlockSize) /\ i = Chosen(f, k, w, t.want)
          /\ t.o + BlockSize <= Len(x)
      BY <1>0, <2>0, <2>3
    <3>1. Block(f, i) = w
      BY <2>3, ChosenIsWindow
    <3>2. /\ i \in 0 .. NumBlocks(f) - 1 /\ p \in ScanStates(f, x) /\ p.o = e
      BY <1>0, <2>0, <2>3, <3>0, MatchGoesOn
    <3>3. p.lm = e /\ p.lm <= p.o /\ p.lm <= z /\ p.o + m >= N
      <4>1. p.lm = e
        BY DEF After
      <4> HIDE DEF p
      <4>2. PICK o \in Nat, n \in Nat : o = t.o /\ n = N
        BY <1>0, <2>0
      <4>3. o + (m + 1) >= n /\ m \in Nat /\ BlockSize \in Nat \ {0}
        BY <1>0, <2>0, <4>2
      <4>4. (o + BlockSize) + m >= n
        BY ONLY <4>2, <4>3
      <4> QED BY <2>0, <2>3, <3>2, <4>1, <4>2, <4>4
    <3>4. h[t] = (cs \o one) \o h[p]
      <4> HIDE DEF w, i
      <4>1. MatchesAt(f, k, x, t, i)
        BY <2>3, <3>0 DEF MatchesAt
      <4>2. Scanner(f, k, x)[t] = SentAt(x, t, i, Scanner(f, k, x)[After(t, i)])
        BY <1>0, <4>1, ScannerMatches
      <4>3. Append(cs, Match(i, t.o)) = cs \o one
        <5>1. cs \in Seq(Instruction) /\ Match(i, t.o) \in Instruction
          BY <1>0, <3>2, StepType
        <5> HIDE DEF cs
        <5> QED BY <5>1, AppendIsConcat
      <4> HIDE DEF cs
      <4> QED BY <4>2, <4>3 DEF SentAt, Pending, cs
    <3>5. h[p] \in Seq(Instruction)
      BY <1>0, <3>2, <3>3, ScannerType
    <3>6. one \in Seq(Instruction) /\ g[Match(i, t.o)] \in Seq(Instruction)
          /\ LiteralCount(g[Match(i, t.o)]) = 0
      <4> DEFINE r == Match(i, t.o)
      <4>1. w \in Seq(Byte) /\ Len(w) = e - t.o
        <5>1. x \in Seq(Byte) /\ t.o \in Nat /\ e \in Nat /\ t.o <= e /\ e <= Len(x)
          BY <1>0, <2>0, <2>3
        <5> HIDE DEF e
        <5> QED BY ONLY <5>1, SliceType, ZenonT(120)
      <4>2. r \in Instruction /\ ~ r.isLiteral /\ r.offset = t.o
        BY <1>0, <3>0, <3>2, StepType DEF Match
      <4>3. EndOf(f, r) = t.o + Len(Block(f, i))
        BY DEF Match, EndOf, Apply
      <4>4. EndOf(f, r) = e
        BY <2>0, <3>1, <4>1, <4>3
      <4> HIDE DEF r, e, N
      <4>5. EndOf(f, r) <= z /\ EndOf(f, r) <= Len(x)
        BY <1>0, <2>0, <2>3, <4>4 DEF N
      <4> QED BY <1>0, <4>2, <4>5 DEF Trims, Maps, r
    <3>7. /\ cs \in Seq(Instruction) /\ FlatMap(g, cs) \in Seq(Instruction)
          /\ LiteralCount(FlatMap(g, cs)) <= t.o - t.lm
      <4>1. t.o <= Len(x) /\ t.o <= z
        BY <1>0, <2>0, <2>3, SMTT(30)
      <4>2. cs \in Seq(Instruction) /\ Covers(f, x, cs, t.lm, t.o)
        BY <2>0, <4>1, ChunksCover
      <4> HIDE DEF cs
      <4>3. /\ FlatMap(g, cs) \in Seq(Instruction)
            /\ LiteralCount(FlatMap(g, cs)) <= Least(t.o, z) - Least(t.lm, z)
        BY <1>0, <2>0, <4>2, KeptLiterals
      <4> QED BY <4>1, <4>2, <4>3 DEF Least
    <3> DEFINE lit == LiteralCount(FlatMap(g, h[p]))
               lc == LiteralCount(FlatMap(g, cs))
    <3>8. LiteralCount(FlatMap(g, h[t])) = lc + lit /\ lc \in Nat /\ lit \in Nat
      <4> DEFINE r == Match(i, t.o)
      <4>1. r \in Instruction /\ LiteralCount(g[r]) = 0 /\ h[t] = (cs \o << r >>) \o h[p]
        BY <1>0, <3>0, <3>2, <3>4, <3>6, StepType, SMTT(30)
      <4> HIDE DEF cs, p, h, r
      <4>2. /\ LiteralCount(FlatMap(g, (cs \o << r >>) \o h[p])) = lc + LiteralCount(g[r]) + lit
            /\ lc \in Nat /\ lit \in Nat
        BY <1>0, <3>5, <3>7, <4>1, KeptCounts, ZenonT(60)
      <4> HIDE DEF lc, lit
      <4> QED BY ONLY <4>1, <4>2
    <3>9. C(t.o) <= C(p.o) + BlockSize /\ C(t.o) \in Nat /\ C(p.o) \in Nat
      <4>1. PICK o \in Nat : o = t.o
        BY <2>0
      <4>2. /\ u + o \in Nat /\ u + z \in Nat /\ u + (o + BlockSize) = (u + o) + BlockSize
            /\ u + (o + BlockSize) \in Nat
        BY ONLY <1>9, <4>1, SMTT(30)
      <4>3. /\ Saved(S, u + o, u + z) <= Saved(S, u + (o + BlockSize), u + z) + BlockSize
            /\ Saved(S, u + o, u + z) \in Nat /\ Saved(S, u + (o + BlockSize), u + z) \in Nat
        BY <4>2, SavedNext
      <4> QED BY <3>2, <4>1, <4>3
    <3> HIDE DEF h, C, cs, one, p, lc
    <3>10. lit + C(p.o) <= z - e
      BY <2>a, <3>2, <3>3
    <3>11. lc <= t.o - t.lm
      BY <3>7 DEF lc
    <3> HIDE DEF lit
    <3>12. lc + lit + C(t.o) <= z - t.lm
      <4>1. PICK o \in Nat, l \in Nat : o = t.o /\ l = t.lm
        BY <2>0
      <4>2. PICK a \in Nat, b \in Nat : a = C(t.o) /\ b = C(p.o)
        BY <3>9
      <4>3. /\ a <= b + BlockSize /\ lit + b <= z - (o + BlockSize) /\ lc <= o - l
            /\ lc \in Nat /\ lit \in Nat
        BY <3>8, <3>9, <3>10, <3>11, <4>1, <4>2
      <4>4. lc + lit + a <= z - l
        BY ONLY <1>9, <4>3
      <4> QED BY <4>1, <4>2, <4>4
    <3> QED BY <3>8, <3>12
  <2> QED BY <1>0, <2>0, <2>1, <2>2, <2>3
<1> HIDE DEF P, Saves
<1>4. 0 .. N \subseteq P
  BY <1>0, <1>2, <1>3, Induction
<1>5. N \in P
  BY ONLY <1>0, <1>4
<1>6. s.o + N >= N
  <2>1. s.o \in Nat
    BY <1>0 DEF ScanStates
  <2> QED BY ONLY <1>0, <2>1
<1>7. Saves(s)
  BY <1>5, <1>6 DEF P
<1> QED BY <1>7 DEF Saves

\* An instruction stands for the bytes from its offset to its end.
LEMMA Extent ==
  ASSUME NEW f \in Seq(Byte), NEW r \in Instruction
  PROVE  /\ r.offset \in Nat /\ EndOf(f, r) \in Nat /\ r.offset <= EndOf(f, r)
         /\ Len(Apply(f, r)) = EndOf(f, r) - r.offset
<1>1. r.data \in Seq(Byte) /\ r.blockIdx \in Nat /\ r.offset \in Nat
  BY DEF Instruction
<1>2. Apply(f, r) \in Seq(Byte)
  BY <1>1, BlockIsBytes DEF Apply
<1>3. Len(Apply(f, r)) \in Nat
  BY <1>2, LenProperties
<1> QED BY <1>1, <1>3 DEF EndOf

LEMMA OneAmount ==
  ASSUME NEW r \in Instruction
  PROVE  /\ << r >> \in Seq(Instruction)
         /\ LiteralCount(<< r >>) = IF r.isLiteral THEN Len(r.data) ELSE 0
<1> DEFINE s == << r >>
<1>1. s \in Seq(Instruction)
  OBVIOUS
<1>2. FlatMap(Carried, s) = Carried[r]
  BY SentMaps, FlatMapOne
<1> HIDE DEF s
<1>3. LiteralCount(s) = Len(Carried[r])
  BY <1>1, <1>2, LiteralCountIs
<1>4. Carried[r] = IF r.isLiteral THEN r.data ELSE << >>
  BY DEF Carried
<1> QED BY <1>1, <1>3, <1>4 DEF s

\* All of a result is kept.
Entire == [r \in Instruction |-> << r >>]

LEMMA EntireTrims ==
  ASSUME NEW f \in Seq(Byte), NEW n \in Nat
  PROVE  Trims(Entire, f, n, n)
<1>1. Maps(Entire, Instruction, Seq(Instruction))
  BY OneAmount DEF Maps, Entire
<1>2. ASSUME NEW r \in Instruction, EndOf(f, r) <= n
      PROVE  /\ LiteralCount(Entire[r]) <= Least(EndOf(f, r), n) - Least(r.offset, n)
             /\ ~ r.isLiteral /\ EndOf(f, r) <= n => LiteralCount(Entire[r]) = 0
  <2>1. LiteralCount(Entire[r]) = IF r.isLiteral THEN Len(r.data) ELSE 0
    BY OneAmount DEF Entire
  <2>2. r.offset \in Nat /\ EndOf(f, r) \in Nat /\ r.offset <= EndOf(f, r)
    BY Extent
  <2>3. r.isLiteral => Len(r.data) = EndOf(f, r) - r.offset
    BY Extent DEF Apply
  <2>4. Least(EndOf(f, r), n) = EndOf(f, r) /\ Least(r.offset, n) = r.offset
    BY <1>2, <2>2 DEF Least
  <2> QED BY <2>1, <2>2, <2>3, <2>4
<1> QED BY <1>1, <1>2 DEF Trims

LEMMA EntireKeeps ==
  ASSUME NEW t \in Seq(Instruction)
  PROVE  FlatMap(Entire, t) = t
<1> DEFINE N == Len(t)
           P == {m \in 0 .. N : FlatMap(Entire, SubSeq(t, 1, m)) = SubSeq(t, 1, m)}
<1>0. N \in Nat /\ Maps(Entire, Instruction, Seq(Instruction))
  BY LenProperties, OneAmount DEF Maps, Entire
<1>1. 0 \in P
  <2>1. SubSeq(t, 1, 0) = << >> /\ FlatMap(Entire, << >>) = << >>
    BY SubSeqEmpty, FlatMapNone
  <2>2. FlatMap(Entire, SubSeq(t, 1, 0)) = SubSeq(t, 1, 0)
    BY <2>1
  <2> HIDE DEF N
  <2> QED BY <1>0, <2>2
<1>2. ASSUME NEW m \in 0 .. N - 1, m \in P
      PROVE  m + 1 \in P
  <2>1. FlatMap(Entire, SubSeq(t, 1, m)) = SubSeq(t, 1, m)
    BY <1>2
  <2>2. FlatMap(Entire, SubSeq(t, 1, m + 1))
          = FlatMap(Entire, SubSeq(t, 1, m)) \o Entire[t[m + 1]]
    BY <1>0, FlatMapNext
  <2>3. SubSeq(t, 1, m + 1) = SubSeq(t, 1, m) \o << t[m + 1] >> /\ t[m + 1] \in Instruction
    BY PrefixNext
  <2>4. Entire[t[m + 1]] = << t[m + 1] >>
    BY <2>3 DEF Entire
  <2>5. FlatMap(Entire, SubSeq(t, 1, m + 1)) = SubSeq(t, 1, m + 1)
    BY <2>1, <2>2, <2>3, <2>4
  <2> QED BY <1>0, <2>5
<1> HIDE DEF P
<1>3. 0 .. N \subseteq P
  BY <1>0, <1>1, <1>2, Induction
<1>4. N \in P
  BY <1>0, <1>3
<1>5. SubSeq(t, 1, N) = t
  BY SubSeqFull
<1> QED BY <1>4, <1>5 DEF P

Placed(r, a) == [r EXCEPT !.offset = @ + a]

\* What a worker keeps of a result of a search that began at a.
KeptAt(f, d, end, a) == [r \in Instruction |-> Kept(f, d, end, Placed(r, a))]

LEMMA KeptAtTrims ==
  ASSUME NEW f \in Seq(Byte), NEW d \in Seq(Byte), NEW end \in Nat, end <= Len(d),
         NEW a \in Nat, a <= end, NEW n \in Nat
  PROVE  Trims(KeptAt(f, d, end, a), f, n, end - a)
<1> DEFINE g == KeptAt(f, d, end, a)
           z == end - a
<1>0. z \in Nat /\ a + z = end
  OBVIOUS
<1>1. ASSUME NEW r \in Instruction
      PROVE  /\ g[r] \in Seq(Instruction)
             /\ LiteralCount(g[r]) <= Least(EndOf(f, r), z) - Least(r.offset, z)
             /\ ~ r.isLiteral /\ EndOf(f, r) <= z => LiteralCount(g[r]) = 0
  <2> DEFINE o == r.offset
             b == o + a
             p == Placed(r, a)
             e == EndOf(f, r)
  <2>1. /\ o \in Nat /\ e \in Nat /\ o <= e /\ b \in Nat
        /\ r.data \in Seq(Byte) /\ r.isLiteral \in BOOLEAN
    <3>1. o \in Nat /\ e \in Nat /\ o <= e
      BY Extent
    <3>2. r.data \in Seq(Byte) /\ r.isLiteral \in BOOLEAN
      BY DEF Instruction
    <3> QED BY <3>1, <3>2
  <2>2. /\ p \in Instruction /\ p.offset = b /\ p.isLiteral = r.isLiteral
        /\ p.data = r.data /\ p.blockIdx = r.blockIdx
    BY <2>1 DEF Placed, Instruction
  <2>3. EndOf(f, p) = e + a
    <3>1. Apply(f, p) = Apply(f, r)
      BY <2>2 DEF Apply
    <3>2. Len(Apply(f, r)) = e - o
      BY Extent
    <3> HIDE DEF p
    <3> QED BY <2>1, <2>2, <3>1, <3>2 DEF EndOf
  <2>4. g[r] = Kept(f, d, end, p)
    BY DEF KeptAt
  <2>5. r.isLiteral => Len(r.data) = e - o
    BY Extent DEF Apply
  <2> HIDE DEF g, p, e, z, o
  <2>6. CASE ~ (b < end)
    <3>1. g[r] = << >>
      BY <2>2, <2>4, <2>6 DEF Kept
    <3>2. LiteralCount(g[r]) = 0 /\ g[r] \in Seq(Instruction)
      BY <3>1, NothingAmounts
    <3>3. 0 <= Least(e, z) - Least(o, z)
      BY <1>0, <2>1 DEF Least
    <3> QED BY <3>2, <3>3 DEF o, e
  <2>7. CASE b < end
    <3> DEFINE t == Trimmed(f, d, end, p)
    <3>1. g[r] = << t >>
      BY <2>2, <2>4, <2>7 DEF Kept
    <3>2. o < z /\ Least(o, z) = o
      BY <1>0, <2>1, <2>7 DEF Least
    <3>3. CASE r.isLiteral
      <4> DEFINE s == r.data
                 m == Least(Len(s), end - b)
                 y == Slice(s, 0, m)
      <4>1. s \in Seq(Byte) /\ 0 \in Nat /\ m \in Nat /\ 0 <= m /\ m <= Len(s) /\ Len(s) \in Nat
        BY <2>1, <2>7, LenProperties DEF Least
      <4>2. t = [p EXCEPT !.data = y]
        BY <2>2, <3>3 DEF Trimmed
      <4>3. m = Least(e, z) - o
        <5>1. Len(s) = e - o /\ end - b = z - o
          BY <1>0, <2>1, <2>5, <3>3
        <5> HIDE DEF s
        <5> QED BY <1>0, <2>1, <3>2, <5>1 DEF Least
      <4> HIDE DEF s, m
      <4>4. y \in Seq(Byte) /\ Len(y) = m - 0
        BY ONLY <4>1, SliceType, ZenonT(60)
      <4> HIDE DEF y, t
      <4>5. t \in Instruction /\ t.isLiteral /\ t.data = y
        BY <2>2, <3>3, <4>2, <4>4 DEF Instruction
      <4>6. LiteralCount(<< t >>) = Len(y) /\ << t >> \in Seq(Instruction)
        BY <4>5, OneAmount
      <4> QED BY <3>1, <3>2, <3>3, <4>1, <4>3, <4>4, <4>6 DEF o, e
    <3>4. CASE ~ r.isLiteral /\ e + a > end
      <4> DEFINE y == Slice(d, b, end)
      <4>1. t = Literal(y, b)
        BY <2>2, <2>3, <3>4 DEF Trimmed
      <4>2. y \in Seq(Byte) /\ Len(y) = end - b
        <5>1. d \in Seq(Byte) /\ b \in Nat /\ end \in Nat /\ b <= end /\ end <= Len(d)
          BY <2>1, <2>7
        <5> HIDE DEF b
        <5> QED BY ONLY <5>1, SliceType, ZenonT(60)
      <4> HIDE DEF y, t
      <4>3. t \in Instruction /\ t.isLiteral /\ t.data = y
        BY <2>1, <4>1, <4>2 DEF Literal, Instruction
      <4>4. LiteralCount(<< t >>) = Len(y) /\ << t >> \in Seq(Instruction)
        BY <4>3, OneAmount
      <4>5. end - b = z - o /\ Least(e, z) = z /\ ~ (e <= z)
        BY <1>0, <2>1, <3>4 DEF Least
      <4>6. LiteralCount(g[r]) <= Least(e, z) - Least(o, z)
        BY <1>0, <2>1, <3>1, <3>2, <4>2, <4>4, <4>5
      <4> QED BY <3>1, <4>4, <4>5, <4>6 DEF o, e
    <3>5. CASE ~ r.isLiteral /\ ~ (e + a > end)
      <4>1. t = p
        BY <2>2, <2>3, <3>5 DEF Trimmed
      <4>2. LiteralCount(<< p >>) = 0 /\ << p >> \in Seq(Instruction)
        BY <2>2, <3>5, OneAmount
      <4>3. 0 <= Least(e, z) - Least(o, z)
        BY <1>0, <2>1 DEF Least
      <4> QED BY <3>1, <4>1, <4>2, <4>3 DEF o, e
    <3> QED BY <2>1, <3>3, <3>4, <3>5
  <2> QED BY <2>6, <2>7
<1> HIDE DEF g, z
<1>2. Maps(g, Instruction, Seq(Instruction))
  BY <1>1 DEF g, KeptAt, Maps
<1> QED BY <1>1, <1>2 DEF Trims, g, z

\* The search of one piece costs at most a block more than the places in S.
LEMMA PieceCosts ==
  ASSUME NEW f \in Seq(Byte), NEW A \in Seq(Byte), NEW k, AreBlocks(f, k),
         NEW S \in Disjoint(f, k, A), NEW u \in Nat, NEW x \in Seq(Byte), PartAt(A, u, x),
         NEW z \in 0 .. Len(x), NEW g, Trims(g, f, Len(x), z)
  PROVE  Costs(S, FlatMap(g, SearchResult(f, k, x)), u, u + z, 1)
<1> DEFINE t == SearchResult(f, k, x)
           s == [o |-> 0, lm |-> 0, want |-> 0]
           c == Saved(S, u, u + z)
           l == LiteralCount(FlatMap(g, t))
<1>0. /\ Len(x) \in Nat /\ z \in Nat /\ z <= Len(x) /\ u + z \in Nat
      /\ BlockSize \in Nat \ {0} /\ NumBlocks(f) \in Nat
  BY LenProperties, BlockSizeAssumption, NumBlocksType
<1>1. t = IF NumBlocks(f) = 0 \/ Len(x) < BlockSize THEN Chunks(x, 0) ELSE Scanner(f, k, x)[s]
  BY Zenon DEF SearchResult, Scanner
<1>2. l + c <= z
  <2>1. CASE NumBlocks(f) = 0 \/ Len(x) < BlockSize
    <3>1. t = Chunks(x, 0)
      BY <1>1, <2>1
    <3> HIDE DEF t
    <3>2. t \in Seq(Instruction) /\ Covers(f, x, t, 0, Len(x))
      BY <3>1, ChunksRebuild
    <3>3. l <= Least(Len(x), z) - Least(0, z) /\ FlatMap(g, t) \in Seq(Instruction)
      BY <1>0, <3>2, KeptLiterals
    <3>4. Cardinality(Inside(S, u, u + z)) = 0
      <4>1. CASE NumBlocks(f) = 0
        <5>1. k = {}
          BY <4>1 DEF AreBlocks
        <5>2. ASSUME NEW m \in S
              PROVE  FALSE
          BY <5>1 DEF Disjoint, Candidates
        <5>3. Inside(S, u, u + z) = {}
          BY <5>2 DEF Inside
        <5> QED BY <5>3, FS_EmptySet
      <4>2. CASE Len(x) < BlockSize
        <5> DEFINE b == u + z
        <5>1. b \in Nat /\ u + BlockSize > b
          BY <1>0, <4>2
        <5> HIDE DEF b
        <5>2. Cardinality(Inside(S, u, b)) = 0
          BY <5>1, InsideNone
        <5> QED BY <5>2 DEF b
      <4> QED BY <2>1, <4>1, <4>2
    <3>5. c = 0
      BY <1>0, <3>4 DEF Saved
    <3>6. l \in Nat
      BY <3>3, LiteralCountType
    <3> HIDE DEF c, l
    <3> QED BY <1>0, <3>3, <3>5, <3>6 DEF Least
  <2>2. CASE ~ (NumBlocks(f) = 0 \/ Len(x) < BlockSize)
    <3>1. t = Scanner(f, k, x)[s]
      BY <1>1, <2>2
    <3>2. s \in ScanStates(f, x) /\ s.lm <= s.o /\ s.lm <= z /\ s.o = 0 /\ s.lm = 0
      BY <1>0 DEF ScanStates
    <3> HIDE DEF s
    <3>3. LiteralCount(FlatMap(g, Scanner(f, k, x)[s])) + Saved(S, u + s.o, u + z) <= z - s.lm
      BY <3>2, ScanCosts
    <3>4. u + s.o = u /\ z - s.lm = z
      BY <1>0, <3>2
    <3> QED BY <3>1, <3>3, <3>4
  <2> QED BY <2>1, <2>2
<1>3. FlatMap(g, t) \in Seq(Instruction) /\ l \in Nat
  <2>1. t \in Seq(Instruction)
    BY SearchRebuilds
  <2> HIDE DEF t
  <2>2. FlatMap(g, t) \in Seq(Instruction)
    BY <2>1, FlatMapType DEF Trims
  <2> QED BY <2>2, LiteralCountType
<1>4. c = Cardinality(Inside(S, u, u + z)) * BlockSize /\ c \in Nat
  <2>1. Cardinality(Inside(S, u, u + z)) \in Nat
    BY InsideFinite
  <2>2. c = Cardinality(Inside(S, u, u + z)) * BlockSize
    BY DEF Saved
  <2> HIDE DEF c
  <2> QED BY <1>0, <2>1, <2>2
<1> HIDE DEF c, l
<1>5. l + c + BlockSize <= ((u + z) - u) + 1 * BlockSize
  BY <1>0, <1>2, <1>3, <1>4
<1>6. l + Cardinality(Inside(S, u, u + z)) * BlockSize + BlockSize
        <= ((u + z) - u) + 1 * BlockSize
  BY <1>4, <1>5
<1> QED BY <1>6 DEF Costs, l, t

-----------------------------------------------------------------------------
(* What cutting costs: segments *)

LEMMA PartOfPart ==
  ASSUME NEW A \in Seq(Byte), NEW u \in Nat, NEW x \in Seq(Byte), PartAt(A, u, x),
         NEW lo \in Nat, NEW hi \in Nat, lo <= hi, hi <= Len(x)
  PROVE  PartAt(A, u + lo, Slice(x, lo, hi))
<1> DEFINE y == Slice(x, lo, hi)
<1>1. y \in Seq(Byte) /\ Len(y) = hi - lo /\ PartAt(x, lo, y)
  BY SliceIsPart
<1> HIDE DEF y
<1>2. /\ u + Len(x) <= Len(A) /\ lo + Len(y) <= Len(x)
      /\ Len(x) \in Nat /\ Len(A) \in Nat /\ Len(y) \in Nat
  BY <1>1, LenProperties DEF PartAt
<1>3. (u + lo) + Len(y) <= Len(A)
  BY <1>2
<1>4. ASSUME NEW a \in Nat, NEW b \in Nat, a <= b, b <= Len(y)
      PROVE  Slice(y, a, b) = Slice(A, (u + lo) + a, (u + lo) + b)
  <2>1. Slice(y, a, b) = Slice(x, lo + a, lo + b)
    BY <1>1, <1>4 DEF PartAt
  <2> DEFINE v == lo + a
             w == lo + b
  <2>2. v \in Nat /\ w \in Nat /\ v <= w /\ w <= Len(x)
    BY <1>2, <1>4
  <2>3. u + v = (u + lo) + a /\ u + w = (u + lo) + b
    OBVIOUS
  <2> HIDE DEF v, w
  <2>4. Slice(x, v, w) = Slice(A, u + v, u + w)
    BY <2>2 DEF PartAt
  <2> QED BY <2>1, <2>3, <2>4 DEF v, w
<1> QED BY <1>3, <1>4 DEF PartAt, y

LEMMA SegmentCosts ==
  ASSUME NEW f \in Seq(Byte), NEW A \in Seq(Byte), NEW k, AreBlocks(f, k),
         NEW S \in Disjoint(f, k, A), NEW u \in Nat, NEW x \in Seq(Byte), PartAt(A, u, x),
         x # << >>, NEW n \in Nat \ {0}, NEW i \in 0 .. WorkerCount(x, n) - 1
  PROVE  Costs(S, SegmentResult(f, k, x, n, i),
               u + i * SegmentSize(x, n), u + SegmentEnd(x, n, i), 1)
<1> DEFINE lo == i * SegmentSize(x, n)
           end == SegmentEnd(x, n, i)
           hi == Least(end + BlockSize, Len(x))
           part == Slice(x, lo, hi)
           insts == SearchResult(f, k, part)
           found == Found(f, k, x, n, i)
           g == KeptAt(f, x, end, lo)
           z == end - lo
<1>1. /\ lo \in Nat /\ end \in Nat /\ lo < end /\ end <= Len(x)
      /\ hi \in Nat /\ end <= hi /\ lo <= hi /\ hi <= Len(x)
  <2>1. lo \in Nat /\ end \in Nat /\ lo < end /\ end <= Len(x)
    BY SegmentBounds
  <2>2. Len(x) \in Nat /\ BlockSize \in Nat
    BY LenProperties, BlockSizeAssumption
  <2> HIDE DEF lo, end
  <2> QED BY <2>1, <2>2 DEF Least
<1>2. found = Shifted(insts, lo)
  BY DEF Found, Forked, Shifted
<1>3. SegmentResult(f, k, x, n, i)
        = FlattenSeq([j \in DOMAIN found |-> Kept(f, x, end, found[j])])
  BY DEF SegmentResult
<1> HIDE DEF lo, end, hi, found
<1>4. part \in Seq(Byte) /\ Len(part) = hi - lo /\ PartAt(A, u + lo, part)
  BY <1>1, SliceIsPart, PartOfPart
<1> HIDE DEF part
<1>5. insts \in Seq(Instruction)
  BY <1>4, SearchRebuilds
<1>6. SegmentResult(f, k, x, n, i) = FlatMap(g, insts)
  <2> HIDE DEF insts
  <2>1. DOMAIN found = DOMAIN insts /\ \A j \in DOMAIN insts : found[j] = Placed(insts[j], lo)
    BY <1>2 DEF Shifted, Placed
  <2>2. \A j \in DOMAIN insts : g[insts[j]] = Kept(f, x, end, Placed(insts[j], lo))
    <3> TAKE j \in DOMAIN insts
    <3>1. insts[j] \in Instruction
      BY <1>5, LenProperties, ElementOfSeq
    <3> QED BY <3>1 DEF KeptAt
  <2> HIDE DEF g
  <2>3. [j \in DOMAIN found |-> Kept(f, x, end, found[j])] = Mapped(g, insts)
    BY <2>1, <2>2 DEF Mapped
  <2> QED BY <1>3, <2>3 DEF FlatMap
<1>7. z \in 0 .. Len(part) /\ u + lo \in Nat /\ (u + lo) + z = u + end
  BY <1>1, <1>4
<1>8. Trims(g, f, Len(part), z)
  <2>1. Len(part) \in Nat /\ lo <= end
    BY <1>1, <1>4
  <2> QED BY <1>1, <2>1, KeptAtTrims
<1> HIDE DEF g, z
<1>9. Costs(S, FlatMap(g, insts), u + lo, (u + lo) + z, 1)
  BY <1>4, <1>7, <1>8, PieceCosts
<1> QED BY <1>6, <1>7, <1>9 DEF lo, end

\* Pieces that touch cost together what they cost one by one.
LEMMA FlattenCosts ==
  ASSUME NEW f, NEW k, NEW A \in Seq(Byte), NEW S \in Disjoint(f, k, A),
         NEW p \in Seq(Seq(Instruction)), p # << >>, NEW at,
         \A m \in 1 .. Len(p) : /\ at[m] \in Nat /\ at[m + 1] \in Nat
                                /\ Costs(S, p[m], at[m], at[m + 1], 1)
  PROVE  Costs(S, FlattenSeq(p), at[1], at[Len(p) + 1], Len(p))
<1> DEFINE N == Len(p)
<1>1. N \in Nat /\ N # 0
  BY LenProperties, EmptySeq
<1>2. PICK g : Joins(p, N, g) /\ FlattenSeq(p) = g[N]
  BY <1>1, FlattenJoins
<1> DEFINE P == {m \in 0 .. N : m # 0 => /\ g[m] \in Seq(Instruction)
                                         /\ Costs(S, g[m], at[1], at[m + 1], m)}
<1>3. 0 \in P
  BY <1>1
<1>4. ASSUME NEW m \in 0 .. N - 1, m \in P
      PROVE  m + 1 \in P
  <2> DEFINE j == m + 1
  <2>1. j \in 1 .. N /\ (j = 1 <=> m = 0) /\ j - 1 = m /\ j # 0 /\ j \in 0 .. N /\ m \in Nat
    BY <1>1
  <2>2. /\ p[j] \in Seq(Instruction) /\ at[j] \in Nat /\ at[j + 1] \in Nat
        /\ Costs(S, p[j], at[j], at[j + 1], 1)
    BY <2>1, ElementOfSeq
  <2>3. g[j] = IF m = 0 THEN p[j] ELSE g[m] \o p[j]
    BY <1>2, <2>1 DEF Joins
  <2>4. m # 0 => g[m] \in Seq(Instruction) /\ Costs(S, g[m], at[1], at[j], m)
    BY <1>4
  <2>5. at[1] \in Nat
    BY <1>1
  <2> HIDE DEF j
  <2>6. CASE m = 0
    <3>1. j = 1 /\ g[j] = p[j]
      BY <2>1, <2>3, <2>6
    <3> QED BY <2>1, <2>2, <3>1 DEF j
  <2>7. CASE m # 0
    <3>1. g[j] = g[m] \o p[j]
      BY <2>3, <2>7
    <3> DEFINE a == g[m]
               b == p[j]
               lo == at[1]
               mid == at[j]
               hi == at[j + 1]
    <3>2. /\ a \in Seq(Instruction) /\ b \in Seq(Instruction)
          /\ lo \in Nat /\ mid \in Nat /\ hi \in Nat /\ m \in Nat /\ 1 \in Nat
          /\ Costs(S, a, lo, mid, m) /\ Costs(S, b, mid, hi, 1)
      BY <2>1, <2>2, <2>4, <2>5, <2>7
    <3> HIDE DEF a, b, lo, mid, hi
    <3>3. Costs(S, a \o b, lo, hi, m + 1)
      BY <3>2, CostsConcat
    <3>4. a \o b \in Seq(Instruction)
      BY <3>2, ConcatProperties
    <3>5. g[j] \in Seq(Instruction) /\ Costs(S, g[j], at[1], at[j + 1], j)
      BY <3>1, <3>3, <3>4 DEF a, b, lo, hi, j
    <3> QED BY <2>1, <3>5 DEF j
  <2> QED BY <2>6, <2>7
<1> HIDE DEF P
<1>5. 0 .. N \subseteq P
  BY <1>1, <1>3, <1>4, Induction
<1>6. N \in P
  BY <1>1, <1>5, SMTT(30)
<1>7. Costs(S, g[N], at[1], at[N + 1], N)
  BY <1>1, <1>6 DEF P
<1> QED BY <1>2, <1>7

\* How many pieces a window is searched in.
PiecesOf(f, x, n) == IF Serial(f, x, n) THEN 1 ELSE WorkerCount(x, n)

LEMMA WindowCosts ==
  ASSUME NEW f \in Seq(Byte), NEW A \in Seq(Byte), NEW k, AreBlocks(f, k),
         NEW S \in Disjoint(f, k, A), NEW u \in Nat, NEW x \in Seq(Byte), PartAt(A, u, x),
         x # << >>, NEW n \in Nat \ {0}
  PROVE  Costs(S, ParallelResult(f, k, x, n), u, u + Len(x), PiecesOf(f, x, n))
<1>1. CASE Serial(f, x, n)
  <2>1. Len(x) \in 0 .. Len(x) /\ Len(x) \in Nat
    BY LenProperties
  <2>2. Costs(S, FlatMap(Entire, SearchResult(f, k, x)), u, u + Len(x), 1)
    BY <2>1, EntireTrims, PieceCosts
  <2>3. SearchResult(f, k, x) \in Seq(Instruction)
    BY SearchRebuilds
  <2>4. FlatMap(Entire, SearchResult(f, k, x)) = SearchResult(f, k, x)
    BY <2>3, EntireKeeps
  <2> QED BY <1>1, <2>2, <2>4 DEF ParallelResult, PiecesOf
<1>2. CASE ~ Serial(f, x, n)
  <2> DEFINE W == WorkerCount(x, n)
             c == SegmentSize(x, n)
             p == [s \in 1 .. W |-> SegmentResult(f, k, x, n, s - 1)]
             at == [m \in 1 .. W + 1 |-> IF m = 1 THEN u ELSE u + SegmentEnd(x, n, m - 2)]
  <2>2. ParallelResult(f, k, x, n) = FlattenSeq(p)
    BY <1>2 DEF ParallelResult
  <2>3. c \in Nat \ {0} /\ W \in Nat \ {0}
    BY SegmentBounds
  <2>4. ASSUME NEW s \in 1 .. W
        PROVE  /\ p[s] \in Seq(Instruction)
               /\ Costs(S, p[s], u + (s - 1) * c, u + SegmentEnd(x, n, s - 1), 1)
               /\ u + (s - 1) * c \in Nat /\ u + SegmentEnd(x, n, s - 1) \in Nat
    <3> DEFINE i == s - 1
    <3>1. i \in 0 .. W - 1
      BY <2>3
    <3>2. p[s] = SegmentResult(f, k, x, n, i)
      OBVIOUS
    <3> HIDE DEF i, p
    <3>3. /\ SegmentResult(f, k, x, n, i) \in Seq(Instruction)
          /\ Costs(S, SegmentResult(f, k, x, n, i), u + i * c, u + SegmentEnd(x, n, i), 1)
      BY <3>1, SegmentCovers, SegmentCosts
    <3>4. i * c \in Nat /\ SegmentEnd(x, n, i) \in Nat
      BY <3>1, SegmentBounds
    <3> QED BY <3>2, <3>3, <3>4 DEF i
  <2>5. p \in Seq(Seq(Instruction)) /\ Len(p) = W
    <3>1. p = [s \in 1 .. W |-> p[s]]
      OBVIOUS
    <3> HIDE DEF p, W
    <3>2. p \in [1 .. W -> Seq(Instruction)]
      BY <2>4, <3>1
    <3> QED BY <2>3, <3>2, LenProperties
  <2>6. ASSUME NEW s \in 1 .. W
        PROVE  at[s] = u + (s - 1) * c /\ at[s + 1] = u + SegmentEnd(x, n, s - 1)
    <3> HIDE DEF c
    <3>1. s \in 1 .. W + 1 /\ s + 1 \in 1 .. W + 1 /\ s + 1 # 1 /\ s + 1 - 2 = s - 1
      BY <2>3
    <3>2. CASE s = 1
      <4>1. (s - 1) * c = 0 /\ u + 0 = u
        BY <2>3, <3>2
      <4> QED BY <3>1, <3>2, <4>1
    <3>3. CASE s # 1
      <4> DEFINE j == s - 2
      <4>1. j \in 0 .. W - 1 /\ j < W - 1 /\ j + 1 = s - 1
        BY <2>3, <3>3
      <4> HIDE DEF j
      <4>2. SegmentEnd(x, n, j) = (j + 1) * c
        BY <4>1, SegmentBounds DEF c
      <4>3. at[s] = u + SegmentEnd(x, n, j)
        BY <3>1, <3>3 DEF j
      <4> QED BY <3>1, <4>1, <4>2, <4>3
    <3> QED BY <3>2, <3>3
  <2>7. at[1] = u /\ at[W + 1] = u + Len(x)
    <3>1. 1 \in 1 .. W + 1 /\ W \in 1 .. W /\ W - 1 \in 0 .. W - 1
      BY <2>3
    <3>2. SegmentEnd(x, n, W - 1) = Len(x)
      BY <3>1, SegmentBounds
    <3> QED BY <2>6, <3>1, <3>2
  <2> HIDE DEF p, at, W
  <2>8. p # << >>
    BY <2>3, <2>5, EmptySeq
  <2>9. \A m \in 1 .. Len(p) : /\ at[m] \in Nat /\ at[m + 1] \in Nat
                               /\ Costs(S, p[m], at[m], at[m + 1], 1)
    BY <2>4, <2>5, <2>6
  <2>10. Costs(S, FlattenSeq(p), at[1], at[Len(p) + 1], Len(p))
    BY <2>5, <2>8, <2>9, FlattenCosts
  <2> QED BY <1>2, <2>2, <2>5, <2>7, <2>10 DEF PiecesOf, W
<1> QED BY <1>1, <1>2

-----------------------------------------------------------------------------
(* What cutting costs: the places of a search *)

\* The unmatched end: literals, or no more than a block of it as a reference.
LEMMA TailCosts ==
  ASSUME NEW f \in Seq(Byte), NEW d \in Seq(Byte), NEW lm \in 0 .. Len(d)
  PROVE  Len(d) - lm <= LiteralCount(TailResult(f, d, lm)) + BlockSize
<1> DEFINE n == Len(d)
           i == lm \div BlockSize
           w == Slice(d, lm, n)
           cs == Chunks(w, lm)
<1>0. n \in Nat /\ lm \in Nat /\ lm <= n /\ n <= Len(d) /\ i \in Nat /\ BlockSize \in Nat
  BY LenProperties, BlockSizeAssumption
<1>1. \/ i < NumBlocks(f) /\ TailResult(f, d, lm) = << Match(i, lm) >> /\ Block(f, i) = w
      \/ TailResult(f, d, lm) = cs
  BY DEF TailResult
<1>2. w \in Seq(Byte) /\ Len(w) = n - lm /\ LiteralCount(cs) = n - lm
  <2> HIDE DEF n
  <2>1. w \in Seq(Byte) /\ Len(w) = n - lm
    BY <1>0, SliceType, ZenonT(60)
  <2>2. LiteralCount(Chunks(Slice(d, lm, n), lm)) = n - lm
    BY <1>0, SliceChunksAmount
  <2> QED BY <2>1, <2>2
<1>3. CASE TailResult(f, d, lm) = cs
  <2> HIDE DEF n, cs
  <2> QED BY <1>0, <1>2, <1>3 DEF n
<1>4. CASE i < NumBlocks(f) /\ TailResult(f, d, lm) = << Match(i, lm) >> /\ Block(f, i) = w
  <2>1. LiteralCount(<< Match(i, lm) >>) = 0
    BY <1>0, MatchAmounts
  <2>2. i \in 0 .. NumBlocks(f) - 1
    BY <1>0, <1>4, NumBlocksType
  <2> HIDE DEF i, w
  <2>3. Len(Block(f, i)) <= BlockSize
    BY <2>2, BlockType, BlockBounds
  <2>4. Len(w) <= BlockSize
    BY <1>4, <2>3
  <2> HIDE DEF n
  <2> QED BY <1>0, <1>2, <1>4, <2>1, <2>4 DEF n
<1> QED BY <1>1, <1>3, <1>4

\* The matches of a scan are at places that do not overlap, and all else that
\* it does not send as literals is a shorter block at the end.
LEMMA ScanPlaces ==
  ASSUME NEW f \in Seq(Byte), NEW d \in Seq(Byte), NEW k, AreBlocks(f, k),
         NEW s \in ScanStates(f, d), s.lm <= s.o
  PROVE  \E S \in Disjoint(f, k, d) :
           Len(d) - s.lm
             <= LiteralCount(Scanner(f, k, d)[s]) + Cardinality(S) * BlockSize + BlockSize
<1> DEFINE N == Len(d)
           h == Scanner(f, k, d)
           Placeable(t) ==
             \E S \in Disjoint(f, k, d) :
               /\ \A m \in S : t.o <= m
               /\ N - t.lm <= LiteralCount(h[t]) + Cardinality(S) * BlockSize + BlockSize
           P == {m \in 0 .. N : \A t \in ScanStates(f, d) :
                                 t.lm <= t.o /\ t.o + m >= N => Placeable(t)}
<1>0. N \in Nat /\ BlockSize \in Nat \ {0} /\ NumBlocks(f) \in Nat
  BY LenProperties, BlockSizeAssumption, NumBlocksType
<1>9. BlockSize \in Nat
  BY <1>0
<1>1. ASSUME NEW t \in ScanStates(f, d), t.lm <= t.o, t.o + BlockSize > N
      PROVE  Placeable(t)
  <2>1. t.lm \in 0 .. N
    BY DEF ScanStates
  <2>2. h[t] = TailResult(f, d, t.lm)
    BY <1>0, <1>1, ScannerEnds
  <2>3. h[t] \in Seq(Instruction)
    BY <1>0, <1>1, ScannerType
  <2> HIDE DEF h
  <2>4. N - t.lm <= LiteralCount(h[t]) + BlockSize
    BY <2>1, <2>2, TailCosts
  <2>5. {} \in Disjoint(f, k, d) /\ Cardinality({}) = 0
    BY FS_EmptySet DEF Disjoint
  <2>6. LiteralCount(h[t]) \in Nat /\ Cardinality({}) * BlockSize = 0
    BY <1>0, <2>3, <2>5, LiteralCountType
  <2> HIDE DEF N
  <2>7. N - t.lm <= LiteralCount(h[t]) + Cardinality({}) * BlockSize + BlockSize
    BY <1>9, <2>4, <2>6
  <2> QED BY <2>5, <2>7
<1>2. 0 \in P
  <2>1. ASSUME NEW t \in ScanStates(f, d), t.o + 0 >= N
        PROVE  t.o + BlockSize > N
    BY <1>0, <2>1 DEF ScanStates
  <2> HIDE DEF Placeable
  <2> QED BY <1>0, <1>1, <2>1
<1>3. ASSUME NEW m \in 0 .. N - 1, m \in P
      PROVE  m + 1 \in P
  <2> SUFFICES ASSUME NEW t \in ScanStates(f, d), t.lm <= t.o, t.o + (m + 1) >= N
               PROVE  Placeable(t)
    <3> HIDE DEF Placeable
    <3> QED BY <1>0
  <2> DEFINE e == t.o + BlockSize
             w == Slice(d, t.o, e)
  <2>0. t.o \in Nat /\ t.lm \in Nat /\ m \in Nat /\ e \in Nat /\ t.o <= e
    BY <1>0, SMTT(30) DEF ScanStates
  <2>a. ASSUME NEW p \in ScanStates(f, d), p.lm <= p.o, p.o + m >= N
        PROVE  Placeable(p)
    <3> HIDE DEF Placeable
    <3> QED BY <1>3, <2>a
  <2>1. CASE e > N
    BY <1>1, <2>1
  <2>2. CASE e <= N /\ Candidates(f, k, w) = {}
    <3> DEFINE p == Missed(t)
    <3>1. /\ p \in ScanStates(f, d) /\ p.o = t.o + 1
          /\ p = [o |-> t.o + 1, lm |-> t.lm, want |-> t.want]
      BY <1>0, <2>0, <2>2, MissGoesOn
    <3>2. p.lm = t.lm /\ p.lm <= p.o /\ p.o + m >= N
      <4>1. p.lm = t.lm
        BY <3>1
      <4> HIDE DEF p
      <4>2. PICK o \in Nat, l \in Nat, n \in Nat : o = t.o /\ l = t.lm /\ n = N
        BY <1>0, <2>0
      <4>3. l <= o /\ o + (m + 1) >= n /\ m \in Nat
        BY <2>0, <4>2
      <4>4. l <= o + 1 /\ (o + 1) + m >= n
        BY ONLY <4>2, <4>3
      <4> QED BY ONLY <3>1, <4>1, <4>2, <4>4
    <3>3. h[t] = h[p]
      <4>1. t.o + BlockSize <= Len(d) /\ Candidates(f, k, Slice(d, t.o, t.o + BlockSize)) = {}
        BY <1>0, <2>0, <2>2
      <4> QED BY <1>0, <4>1, ScannerMisses
    <3> HIDE DEF p, h
    <3>4. PICK S \in Disjoint(f, k, d) :
            /\ \A q \in S : p.o <= q
            /\ N - p.lm <= LiteralCount(h[p]) + Cardinality(S) * BlockSize + BlockSize
      BY <2>a, <3>1, <3>2
    <3>5. \A q \in S : t.o <= q
      <4>1. S \subseteq Nat
        BY InsideFinite
      <4> QED BY <2>0, <3>1, <3>4, <4>1
    <3> QED BY <3>2, <3>3, <3>4, <3>5
  <2>3. CASE e <= N /\ Candidates(f, k, w) # {}
    <3> DEFINE i == Chosen(f, k, w, t.want)
               p == After(t, i)
               cs == Chunks(Slice(d, t.lm, t.o), t.lm)
               one == << Match(i, t.o) >>
    <3>0. /\ w = Slice(d, t.o, t.o + BlockSize) /\ i = Chosen(f, k, w, t.want)
          /\ t.o + BlockSize <= Len(d)
      BY <1>0, <2>0, <2>3
    <3>2. /\ i \in 0 .. NumBlocks(f) - 1 /\ p \in ScanStates(f, d) /\ p.o = e
      BY <1>0, <2>0, <2>3, <3>0, MatchGoesOn
    <3>3. p.lm = e /\ p.lm <= p.o /\ p.o + m >= N
      <4>1. p.lm = e
        BY DEF After
      <4> HIDE DEF p
      <4>2. PICK o \in Nat, n \in Nat : o = t.o /\ n = N
        BY <1>0, <2>0
      <4>3. o + (m + 1) >= n /\ m \in Nat /\ BlockSize \in Nat \ {0}
        BY <1>0, <2>0, <4>2
      <4>4. (o + BlockSize) + m >= n
        BY ONLY <4>2, <4>3
      <4> QED BY <2>0, <2>3, <3>2, <4>1, <4>2, <4>4
    <3>4. h[t] = (cs \o one) \o h[p]
      <4> HIDE DEF w, i
      <4>1. MatchesAt(f, k, d, t, i)
        BY <2>3, <3>0 DEF MatchesAt
      <4>2. Scanner(f, k, d)[t] = SentAt(d, t, i, Scanner(f, k, d)[After(t, i)])
        BY <1>0, <4>1, ScannerMatches
      <4>3. Append(cs, Match(i, t.o)) = cs \o one
        <5>1. cs \in Seq(Instruction) /\ Match(i, t.o) \in Instruction
          BY <1>0, <3>2, StepType
        <5> HIDE DEF cs
        <5> QED BY <5>1, AppendIsConcat
      <4> HIDE DEF cs
      <4> QED BY <4>2, <4>3 DEF SentAt, Pending, cs
    <3>5. h[p] \in Seq(Instruction)
      BY <1>0, <3>2, <3>3, ScannerType
    <3>6. /\ cs \in Seq(Instruction) /\ LiteralCount(cs) = t.o - t.lm
          /\ one \in Seq(Instruction) /\ LiteralCount(one) = 0
      <4>1. t.o <= Len(d)
        BY <1>0, <2>0, <2>3
      <4>2. cs \in Seq(Instruction) /\ LiteralCount(cs) = t.o - t.lm
        BY <2>0, <4>1, SliceChunksAmount
      <4>3. i \in Nat
        BY <1>0, <3>2
      <4> HIDE DEF cs, i
      <4> QED BY <2>0, <4>2, <4>3, MatchAmounts
    <3> HIDE DEF h, cs, one, p
    <3>7. LiteralCount(h[t]) = (t.o - t.lm) + LiteralCount(h[p]) /\ LiteralCount(h[p]) \in Nat
      <4>1. cs \o one \in Seq(Instruction)
        BY <3>6, ConcatProperties
      <4>2. /\ LiteralCount(cs \o one) = LiteralCount(cs) + LiteralCount(one)
            /\ LiteralCount((cs \o one) \o h[p]) = LiteralCount(cs \o one) + LiteralCount(h[p])
            /\ LiteralCount(h[p]) \in Nat
        BY <3>5, <3>6, <4>1, CountsConcat, LiteralCountType
      <4> QED BY <2>0, <3>4, <3>6, <4>2
    <3>8. PICK S \in Disjoint(f, k, d) :
            /\ \A q \in S : p.o <= q
            /\ N - p.lm <= LiteralCount(h[p]) + Cardinality(S) * BlockSize + BlockSize
      BY <2>a, <3>2, <3>3
    <3> DEFINE R == S \cup {t.o}
    <3>9. /\ IsFiniteSet(S) /\ Cardinality(S) \in Nat /\ S \subseteq Nat /\ t.o \notin S
          /\ \A q \in S : e <= q
      <4>1. IsFiniteSet(S) /\ Cardinality(S) \in Nat /\ S \subseteq Nat
        BY InsideFinite
      <4>2. \A q \in S : e <= q
        BY <3>2, <3>8
      <4>3. t.o \notin S
        BY <1>0, <2>0, <4>1, <4>2
      <4> QED BY <4>1, <4>2, <4>3
    <3>10. R \in Disjoint(f, k, d) /\ \A q \in R : t.o <= q
      <4>1. t.o \in 0 .. Len(d) /\ S \subseteq 0 .. Len(d)
        BY <1>0, <2>0, <2>3 DEF Disjoint
      <4>2. ASSUME NEW q \in R
            PROVE  /\ q + BlockSize <= Len(d)
                   /\ Candidates(f, k, Slice(d, q, q + BlockSize)) # {}
        <5>1. CASE q = t.o
          BY <2>3, <3>0, <5>1
        <5>2. CASE q \in S
          BY <5>2 DEF Disjoint
        <5> QED BY <5>1, <5>2
      <4>3. ASSUME NEW a \in R, NEW b \in R, a < b
            PROVE  a + BlockSize <= b
        <5>1. CASE a = t.o /\ b \in S
          BY <3>9, <5>1
        <5>2. CASE a \in S /\ b = t.o
          <6>1. e <= a /\ a \in Nat
            BY <3>9, <5>2
          <6> QED BY <1>9, <2>0, <4>3, <5>2, <6>1
        <5>3. CASE a \in S /\ b \in S
          BY <4>3, <5>3 DEF Disjoint
        <5>4. CASE a = t.o /\ b = t.o
          BY <2>0, <4>3, <5>4
        <5> QED BY <5>1, <5>2, <5>3, <5>4
      <4>4. ASSUME NEW q \in R
            PROVE  t.o <= q
        BY <1>9, <2>0, <3>9
      <4>5. R \in SUBSET (0 .. Len(d))
        BY <4>1
      <4> HIDE DEF R
      <4>6. R \in Disjoint(f, k, d)
        BY <4>2, <4>3, <4>5 DEF Disjoint
      <4> QED BY <4>4, <4>6
    <3>11. Cardinality(R) = Cardinality(S) + 1
      BY <3>9, FS_AddElement
    <3> HIDE DEF R
    <3>12. N - t.lm <= LiteralCount(h[t]) + Cardinality(R) * BlockSize + BlockSize
      <4>1. PICK c \in Nat : c = Cardinality(S)
        BY <3>9
      <4>0. (c + 1) * BlockSize = c * BlockSize + BlockSize /\ c * BlockSize \in Nat
        BY ONLY <1>9, <4>1
      <4>2. Cardinality(R) * BlockSize = c * BlockSize + BlockSize /\ c * BlockSize \in Nat
        BY <3>11, <4>1, <4>0
      <4>3. PICK o \in Nat, l \in Nat, a \in Nat, cb \in Nat :
              o = t.o /\ l = t.lm /\ a = LiteralCount(h[p]) /\ cb = c * BlockSize
        BY <2>0, <3>7, <4>2
      <4>4. N - (o + BlockSize) <= a + cb + BlockSize
        BY <3>3, <3>8, <4>1, <4>3
      <4>5. N \in Nat
        BY <1>0
      <4> HIDE DEF N
      <4>6. N - l <= ((o - l) + a) + (cb + BlockSize) + BlockSize
        BY ONLY <1>9, <4>4, <4>5
      <4> QED BY <3>7, <4>2, <4>3, <4>6
    <3> QED BY <3>10, <3>12
  <2> QED BY <1>0, <2>0, <2>1, <2>2, <2>3
<1> HIDE DEF P, Placeable
<1>4. 0 .. N \subseteq P
  BY <1>0, <1>2, <1>3, Induction
<1>5. N \in P
  BY ONLY <1>0, <1>4
<1>6. s.o + N >= N
  <2>1. s.o \in Nat
    BY <1>0 DEF ScanStates
  <2> QED BY ONLY <1>0, <2>1
<1>7. Placeable(s)
  BY <1>5, <1>6 DEF P
<1> QED BY <1>7 DEF Placeable

LEMMA SearchPlaces ==
  ASSUME NEW f \in Seq(Byte), NEW d \in Seq(Byte), NEW k, AreBlocks(f, k)
  PROVE  \E S \in Disjoint(f, k, d) :
           Len(d)
             <= LiteralCount(SearchResult(f, k, d)) + Cardinality(S) * BlockSize + BlockSize
<1> DEFINE t == SearchResult(f, k, d)
           s == [o |-> 0, lm |-> 0, want |-> 0]
<1>0. Len(d) \in Nat /\ BlockSize \in Nat /\ NumBlocks(f) \in Nat
  BY LenProperties, BlockSizeAssumption, NumBlocksType
<1>1. t = IF NumBlocks(f) = 0 \/ Len(d) < BlockSize THEN Chunks(d, 0) ELSE Scanner(f, k, d)[s]
  BY Zenon DEF SearchResult, Scanner
<1>2. CASE NumBlocks(f) = 0 \/ Len(d) < BlockSize
  <2>1. LiteralCount(t) = Len(d)
    BY <1>1, <1>2, ChunksAmount
  <2>2. {} \in Disjoint(f, k, d) /\ Cardinality({}) = 0
    BY FS_EmptySet DEF Disjoint
  <2>3. Cardinality({}) * BlockSize = 0
    BY <1>0, <2>2
  <2> HIDE DEF t
  <2>4. Len(d) <= LiteralCount(t) + Cardinality({}) * BlockSize + BlockSize
    BY <1>0, <2>1, <2>3
  <2> QED BY <2>2, <2>4 DEF t
<1>3. CASE ~ (NumBlocks(f) = 0 \/ Len(d) < BlockSize)
  <2>1. s \in ScanStates(f, d) /\ s.lm <= s.o /\ s.lm = 0
    BY <1>0 DEF ScanStates
  <2>2. t = Scanner(f, k, d)[s]
    BY <1>1, <1>3
  <2> HIDE DEF s, t
  <2>3. \E S \in Disjoint(f, k, d) :
          Len(d) - s.lm
            <= LiteralCount(Scanner(f, k, d)[s]) + Cardinality(S) * BlockSize + BlockSize
    BY <2>1, ScanPlaces
  <2>4. Len(d) - s.lm = Len(d)
    BY <1>0, <2>1
  <2> QED BY <2>2, <2>3, <2>4 DEF t
<1> QED BY <1>2, <1>3

-----------------------------------------------------------------------------
(* What cutting costs: windows *)

WindowOf(d, W, j) == Slice(d, j * W, Least(j * W + W, Len(d)))

\* The pieces of the first j windows.
PiecesTo(f, d, W, n, j) ==
  {c \in (0 .. j - 1) \X (0 .. n - 1) : c[2] < PiecesOf(f, WindowOf(d, W, c[1]), n)}

LEMMA WindowType ==
  ASSUME NEW d \in Seq(Byte), NEW W \in Nat \ {0}, NEW j \in Nat, j * W < Len(d)
  PROVE  LET x == WindowOf(d, W, j)
             e == Least(j * W + W, Len(d))
         IN  /\ x \in Seq(Byte) /\ x # << >> /\ PartAt(d, j * W, x)
             /\ e \in Nat /\ j * W < e /\ e <= Len(d) /\ j * W + Len(x) = e
<1> DEFINE lo == j * W
           N == Len(d)
           e == Least(lo + W, N)
           x == Slice(d, lo, e)
<1>1. lo \in Nat /\ N \in Nat /\ lo < N
  BY LenProperties
<1> HIDE DEF lo, N
<1>2. e \in Nat /\ lo < e /\ e <= N
  BY <1>1 DEF Least
<1> HIDE DEF e
<1>3. x \in Seq(Byte) /\ Len(x) = e - lo /\ PartAt(d, lo, x)
  BY <1>1, <1>2, SliceIsPart DEF N
<1> HIDE DEF x
<1>4. x # << >> /\ lo + Len(x) = e
  BY <1>1, <1>2, <1>3
<1> QED BY <1>1, <1>2, <1>3, <1>4 DEF WindowOf, x, e, lo, N

LEMMA PiecesOfType ==
  ASSUME NEW f, NEW x \in Seq(Byte), x # << >>, NEW n \in Nat \ {0}
  PROVE  PiecesOf(f, x, n) \in 1 .. n
<1> DEFINE c == SegmentSize(x, n)
           W == WorkerCount(x, n)
           e == (Len(x) + c - 1) \div c
<1>1. c \in Nat \ {0} /\ W \in Nat \ {0}
  BY SegmentBounds
<1>2. W = Least(n, e)
  BY DEF WorkerCount
<1> HIDE DEF c, W
<1>3. Len(x) \in Nat
  BY LenProperties
<1>4. e \in Nat
  BY <1>1, <1>3, RoundedDivision
<1> HIDE DEF e
<1>5. W \in 1 .. n
  BY <1>1, <1>2, <1>4 DEF Least
<1> QED BY <1>5 DEF PiecesOf, W

LEMMA PiecesFinite ==
  ASSUME NEW f, NEW d, NEW W, NEW n \in Nat, NEW j \in Nat
  PROVE  /\ IsFiniteSet(PiecesTo(f, d, W, n, j))
         /\ Cardinality(PiecesTo(f, d, W, n, j)) \in Nat
<1>1. IsFiniteSet(0 .. j - 1) /\ IsFiniteSet(0 .. n - 1)
  BY FS_Interval
<1>2. IsFiniteSet((0 .. j - 1) \X (0 .. n - 1))
  BY <1>1, FS_Product
<1>3. IsFiniteSet(PiecesTo(f, d, W, n, j))
  BY <1>2, FS_Subset DEF PiecesTo
<1> QED BY <1>3, FS_CardinalityType

LEMMA PiecesNext ==
  ASSUME NEW f, NEW d \in Seq(Byte), NEW W \in Nat \ {0}, NEW n \in Nat \ {0}, NEW j \in Nat,
         j * W < Len(d)
  PROVE  Cardinality(PiecesTo(f, d, W, n, j + 1))
           = Cardinality(PiecesTo(f, d, W, n, j)) + PiecesOf(f, WindowOf(d, W, j), n)
<1> DEFINE c == PiecesOf(f, WindowOf(d, W, j), n)
           R == 0 .. c - 1
           A == PiecesTo(f, d, W, n, j)
           B == {j} \X R
           D == PiecesTo(f, d, W, n, j + 1)
<1>1. c \in 1 .. n
  BY WindowType, PiecesOfType
<1>2. D = A \cup B
  <2>1. ASSUME NEW p \in D
        PROVE  p \in A \cup B
    <3>1. /\ p = << p[1], p[2] >> /\ p[1] \in 0 .. (j + 1) - 1 /\ p[2] \in 0 .. n - 1
          /\ p[2] < PiecesOf(f, WindowOf(d, W, p[1]), n)
      BY DEF PiecesTo
    <3>2. CASE p[1] = j
      <4>1. p[2] \in R
        BY <1>1, <3>1, <3>2
      <4> QED BY <3>1, <3>2, <4>1
    <3>3. CASE p[1] # j
      <4>1. p[1] \in 0 .. j - 1
        BY <3>1, <3>3
      <4> QED BY <3>1, <4>1 DEF PiecesTo
    <3> QED BY <3>2, <3>3
  <2>2. ASSUME NEW p \in A
        PROVE  p \in D
    <3>1. /\ p \in (0 .. j - 1) \X (0 .. n - 1)
          /\ p[2] < PiecesOf(f, WindowOf(d, W, p[1]), n)
      BY DEF PiecesTo
    <3>2. p \in (0 .. (j + 1) - 1) \X (0 .. n - 1)
      BY <3>1
    <3> QED BY <3>1, <3>2 DEF PiecesTo
  <2>3. ASSUME NEW p \in B
        PROVE  p \in D
    <3>1. p[1] = j /\ p[2] \in R /\ p = << p[1], p[2] >>
      OBVIOUS
    <3>2. p[1] \in 0 .. (j + 1) - 1 /\ p[2] \in 0 .. n - 1 /\ p[2] < c
      BY <1>1, <3>1
    <3> HIDE DEF B, R
    <3>3. p \in (0 .. (j + 1) - 1) \X (0 .. n - 1)
      BY <3>1, <3>2
    <3> QED BY <3>1, <3>2, <3>3 DEF PiecesTo
  <2> HIDE DEF A, B, D
  <2> QED BY <2>1, <2>2, <2>3
<1>3. A \cap B = {}
  <2>1. ASSUME NEW p \in A, p \in B
        PROVE  FALSE
    <3>1. p[1] \in 0 .. j - 1
      BY DEF PiecesTo
    <3>2. p[1] = j
      BY <2>1
    <3> QED BY <3>1, <3>2
  <2> HIDE DEF A, B
  <2> QED BY <2>1
<1>4. IsFiniteSet(A) /\ Cardinality(A) \in Nat
  BY PiecesFinite
<1>5. IsFiniteSet(B) /\ Cardinality(B) = c
  <2> DEFINE e == c - 1
  <2> HIDE DEF c
  <2>0. e \in Int /\ e + 1 = c /\ ~ (0 > e) /\ R = 0 .. e /\ c \in Nat
    BY <1>1
  <2> HIDE DEF e, R
  <2>1. IsFiniteSet(R) /\ Cardinality(R) = c
    <3>1. 0 \in Int /\ e \in Int
      BY <2>0
    <3>2. IsFiniteSet(0 .. e) /\ Cardinality(0 .. e) = IF 0 > e THEN 0 ELSE e - 0 + 1
      BY ONLY <3>1, FS_Interval
    <3>3. e - 0 + 1 = c
      BY <2>0
    <3> QED BY <2>0, <3>2, <3>3
  <2>2. IsFiniteSet({j}) /\ Cardinality({j}) = 1
    BY FS_Singleton
  <2>3. IsFiniteSet({j} \X R) /\ Cardinality({j} \X R) = 1 * c
    BY <2>1, <2>2, FS_Product
  <2> QED BY <2>0, <2>3
<1> HIDE DEF A, B, c, D
<1>6. Cardinality(A \cup B) = Cardinality(A) + Cardinality(B) - Cardinality(A \cap B)
  BY <1>4, <1>5, FS_Union
<1>7. Cardinality(A \cap B) = 0
  BY <1>3, FS_EmptySet
<1>8. Cardinality(D) = Cardinality(A) + c
  BY <1>1, <1>2, <1>4, <1>5, <1>6, <1>7
<1> QED BY <1>8 DEF A, c, D

LEMMA ShiftedCount ==
  ASSUME NEW t \in Seq(Instruction), NEW a \in Nat
  PROVE  Shifted(t, a) \in Seq(Instruction) /\ LiteralCount(Shifted(t, a)) = LiteralCount(t)
<1> DEFINE s == Shifted(t, a)
<1>1. Len(t) \in Nat /\ DOMAIN t = 1 .. Len(t)
  BY LenProperties
<1>2. ASSUME NEW m \in 1 .. Len(t)
      PROVE  /\ t[m] \in Instruction /\ s[m] = Placed(t[m], a)
             /\ s[m] \in Instruction /\ Carried[s[m]] = Carried[t[m]]
  <2> DEFINE r == t[m]
  <2>1. r \in Instruction
    BY ElementOfSeq
  <2>2. s[m] = Placed(r, a)
    BY <1>1 DEF Shifted, Placed
  <2> HIDE DEF r, s
  <2>3. /\ Placed(r, a) \in Instruction /\ Placed(r, a).isLiteral = r.isLiteral
        /\ Placed(r, a).data = r.data
    <3>1. r.offset \in Nat
      BY <2>1 DEF Instruction
    <3>2. r.offset + a \in Nat
      BY <3>1
    <3> QED BY <2>1, <3>2 DEF Placed, Instruction
  <2> QED BY <2>1, <2>2, <2>3 DEF Carried, r
<1>3. DOMAIN s = 1 .. Len(t) /\ s = [m \in 1 .. Len(t) |-> s[m]]
  BY <1>1 DEF Shifted
<1> HIDE DEF s
<1>4. s \in Seq(Instruction)
  BY <1>1, <1>2, <1>3
<1>5. Mapped(Carried, s) = Mapped(Carried, t)
  BY <1>1, <1>2, <1>3 DEF Mapped
<1>6. LiteralCount(s) = LiteralCount(t)
  BY <1>4, <1>5, LiteralCountIs DEF FlatMap
<1> QED BY <1>4, <1>6 DEF s

\* What was given for the first j windows costs a block for each of their
\* pieces, less what the places of any search save.
PaidTo(f, k, d, W, n, t, j) ==
  IF j = 0 THEN t = << >>
  ELSE \A S \in Disjoint(f, k, d) :
         Costs(S, t, 0, Least(j * W, Len(d)), Cardinality(PiecesTo(f, d, W, n, j)))

Paid(f, k, d, W, n, t, at) ==
  \E j \in 0 .. (Len(d) + W - 1) \div W :
    at = Least(j * W, Len(d)) /\ PaidTo(f, k, d, W, n, t, j)

LEMMA PaidNext ==
  ASSUME NEW f \in Seq(Byte), NEW d \in Seq(Byte), NEW k, AreBlocks(f, k),
         NEW W \in Nat \ {0}, NEW n \in Nat \ {0}, NEW t \in Seq(Instruction),
         NEW at \in Nat, at < Len(d), Paid(f, k, d, W, n, t, at)
  PROVE  LET e == Least(at + W, Len(d))
             s == ParallelResult(f, k, Slice(d, at, e), n)
         IN  Paid(f, k, d, W, n, t \o Shifted(s, at), e)
<1> DEFINE N == Len(d)
           q == (N + W - 1) \div W
<1>1. PICK j \in 0 .. q : at = Least(j * W, N) /\ PaidTo(f, k, d, W, n, t, j)
  BY DEF Paid
<1>2. N \in Nat /\ q \in Nat /\ N <= q * W
  BY RoundedDivision, LenProperties
<1>3. j \in Nat /\ at = j * W /\ j * W < N
  <2>1. j \in Nat
    BY <1>2
  <2> DEFINE m == j * W
  <2>2. m \in Nat /\ at = Least(m, N) /\ at < N
    BY <1>1, <2>1
  <2> HIDE DEF m, N, q
  <2>3. at = m
    BY <1>2, <2>2 DEF Least
  <2> QED BY <2>1, <2>2, <2>3 DEF m
<1>4. j + 1 \in 0 .. q /\ (j + 1) * W = at + W /\ j + 1 # 0
  <2>1. ~ (q <= j)
    <3>1. ASSUME q <= j
          PROVE  FALSE
      <4> DEFINE u == q * W
                 v == j * W
      <4>0. /\ q \in Nat /\ j \in Nat /\ W \in Nat /\ q <= j /\ N <= u /\ v < N
            /\ N \in Nat
        BY <1>2, <1>3, <3>1
      <4> HIDE DEF N, q
      <4>1. u <= v
        BY ONLY <4>0, ScaleMonotone DEF u, v
      <4>2. u \in Nat /\ v \in Nat
        BY <4>0
      <4> HIDE DEF u, v
      <4> QED BY ONLY <4>0, <4>1, <4>2
    <3> QED BY <3>1
  <2>2. (j + 1) * W = j * W + W
    BY <1>3
  <2> QED BY <1>2, <1>3, <2>1, <2>2
<1> DEFINE e == Least(at + W, N)
           x == WindowOf(d, W, j)
           s == ParallelResult(f, k, x, n)
           y == Shifted(s, at)
           c == PiecesOf(f, x, n)
<1>5. /\ x = Slice(d, at, e) /\ x \in Seq(Byte) /\ x # << >> /\ PartAt(d, at, x)
      /\ e \in Nat /\ at + Len(x) = e
  BY <1>3, WindowType DEF WindowOf
<1>6. c \in 1 .. n /\ c \in Nat
  BY <1>5, PiecesOfType
<1>7. Cardinality(PiecesTo(f, d, W, n, j + 1)) = Cardinality(PiecesTo(f, d, W, n, j)) + c
  BY <1>3, PiecesNext
<1> HIDE DEF x, e, N, q, c
<1>8. s \in Seq(Instruction)
  BY <1>5, ParallelRebuilds
<1> HIDE DEF s
<1>9. y \in Seq(Instruction) /\ LiteralCount(y) = LiteralCount(s)
  BY <1>8, ShiftedCount
<1> HIDE DEF y
<1>10. ASSUME NEW S \in Disjoint(f, k, d)
       PROVE  Costs(S, t \o y, 0, e, Cardinality(PiecesTo(f, d, W, n, j + 1)))
  <2>1. Costs(S, s, at, at + Len(x), c)
    BY <1>5, WindowCosts DEF s, c
  <2>2. Costs(S, y, at, e, c)
    BY <1>5, <1>9, <2>1 DEF Costs
  <2>3. CASE j = 0
    <3>1. t = << >> /\ at = 0
      BY <1>1, <1>3, <2>3 DEF PaidTo
    <3>2. t \o y = y
      BY <1>9, <3>1, ConcatEmptySeq
    <3>3. Cardinality(PiecesTo(f, d, W, n, j)) = 0
      <4>1. PiecesTo(f, d, W, n, j) = {}
        BY <2>3 DEF PiecesTo
      <4> QED BY <4>1, FS_EmptySet
    <3>4. Cardinality(PiecesTo(f, d, W, n, j + 1)) = c
      BY <1>6, <1>7, <3>3
    <3> QED BY <2>2, <3>1, <3>2, <3>4
  <2>4. CASE j # 0
    <3> DEFINE b == Cardinality(PiecesTo(f, d, W, n, j))
    <3>1. Costs(S, t, 0, at, b)
      BY <1>1, <2>4 DEF PaidTo, N
    <3>2. b \in Nat
      BY <1>3, PiecesFinite
    <3> HIDE DEF b
    <3>3. Costs(S, t \o y, 0, e, b + c)
      BY <1>5, <1>6, <1>9, <2>2, <3>1, <3>2, CostsConcat
    <3> QED BY <1>7, <3>3 DEF b
  <2> QED BY <2>3, <2>4
<1>11. e = Least((j + 1) * W, N)
  BY <1>4 DEF e
<1>12. PaidTo(f, k, d, W, n, t \o y, j + 1)
  BY <1>4, <1>10, <1>11 DEF PaidTo, N
<1>13. Paid(f, k, d, W, n, t \o y, e)
  BY <1>4, <1>11, <1>12 DEF Paid, q, N
<1> QED BY <1>5, <1>13 DEF y, s, e, N

\* All of a source costs at most a block for each piece more than its search
\* in one piece.
LEMMA PaidBound ==
  ASSUME NEW f \in Seq(Byte), NEW d \in Seq(Byte), NEW k, AreBlocks(f, k),
         NEW W \in Nat \ {0}, NEW n \in Nat \ {0}, NEW t \in Seq(Instruction), t # << >>,
         Paid(f, k, d, W, n, t, Len(d))
  PROVE  LiteralCount(t) <=
           LiteralCount(SearchResult(f, k, d))
           + BlockSize * Cardinality(PiecesTo(f, d, W, n, (Len(d) + W - 1) \div W))
<1> DEFINE N == Len(d)
           q == (N + W - 1) \div W
           c(j) == Cardinality(PiecesTo(f, d, W, n, j))
           r == SearchResult(f, k, d)
<1>0. N \in Nat /\ q \in Nat /\ BlockSize \in Nat
  BY RoundedDivision, LenProperties, BlockSizeAssumption
<1>1. PICK j \in 0 .. q : N = Least(j * W, N) /\ PaidTo(f, k, d, W, n, t, j)
  BY DEF Paid
<1>2. j # 0 /\ j \in Nat
  BY <1>0, <1>1 DEF PaidTo
<1>3. c(j) <= c(q) /\ c(j) \in Nat /\ c(q) \in Nat
  <2>1. IsFiniteSet(PiecesTo(f, d, W, n, q)) /\ c(j) \in Nat /\ c(q) \in Nat
    BY <1>0, <1>2, PiecesFinite
  <2>2. 0 .. j - 1 \subseteq 0 .. q - 1
    BY <1>0, <1>2
  <2>3. PiecesTo(f, d, W, n, j) \subseteq PiecesTo(f, d, W, n, q)
    <3> HIDE DEF q
    <3> QED BY <2>2 DEF PiecesTo
  <2> HIDE DEF q
  <2> QED BY <2>1, <2>3, FS_Subset
<1>4. PICK S \in Disjoint(f, k, d) :
        N <= LiteralCount(r) + Cardinality(S) * BlockSize + BlockSize
  BY SearchPlaces
<1>5. Costs(S, t, 0, N, c(j))
  BY <1>1, <1>2 DEF PaidTo
<1>6. Inside(S, 0, N) = S /\ Cardinality(S) \in Nat
  <2>1. S \subseteq Nat /\ Cardinality(S) \in Nat
    BY InsideFinite
  <2>2. ASSUME NEW m \in S
        PROVE  0 <= m /\ m + BlockSize <= N
    <3>1. m \in Nat
      BY <2>1
    <3>2. m + BlockSize <= N
      BY DEF Disjoint
    <3> QED BY <3>1, <3>2
  <2> HIDE DEF N
  <2>3. Inside(S, 0, N) = S
    BY <2>2 DEF Inside
  <2> QED BY <2>1, <2>3
<1>7. LiteralCount(t) + Cardinality(S) * BlockSize + BlockSize <= (N - 0) + c(j) * BlockSize
  BY <1>5, <1>6 DEF Costs
<1>8. LiteralCount(t) \in Nat /\ LiteralCount(r) \in Nat
  BY SearchRebuilds, LiteralCountType
<1> DEFINE a == LiteralCount(t)
           b == LiteralCount(r)
           m == Cardinality(S)
           x == c(j)
           y == c(q)
<1>9. /\ a \in Nat /\ b \in Nat /\ m \in Nat /\ x \in Nat /\ y \in Nat /\ x <= y
      /\ a + m * BlockSize + BlockSize <= (N - 0) + x * BlockSize
      /\ N <= b + m * BlockSize + BlockSize
  BY <1>3, <1>4, <1>6, <1>7, <1>8
<1> HIDE DEF a, b, m, x, y, N, q
<1>10. x * BlockSize <= y * BlockSize
  BY <1>0, <1>9, ScaleMonotone
<1>11. x * BlockSize \in Nat /\ m * BlockSize \in Nat /\ y * BlockSize = BlockSize * y
       /\ y * BlockSize \in Nat
  BY <1>0, <1>9
<1> DEFINE xb == x * BlockSize
           yb == y * BlockSize
           mb == m * BlockSize
<1>12. /\ xb \in Nat /\ yb \in Nat /\ mb \in Nat /\ xb <= yb
       /\ a + mb + BlockSize <= (N - 0) + xb
       /\ N <= b + mb + BlockSize /\ a \in Nat /\ b \in Nat
  BY <1>9, <1>10, <1>11
<1> HIDE DEF xb, yb, mb
<1>13. a <= b + yb
  BY ONLY <1>0, <1>12
<1>14. a <= b + BlockSize * y
  BY <1>11, <1>13 DEF yb
<1> QED BY <1>14 DEF a, b, y, r, q, N

-----------------------------------------------------------------------------
(* What the boundaries cost, window by window *)

\* A read that no error cuts short fills the window, or reaches the end.
LEMMA FullWindow ==
  ASSUME LoopInv, loop = "read", remaining > 0,
         NEW r \in FullReads(Least(windowSize, remaining)), r.err # "io"
  PROVE  base + r.n = Least(base + windowSize, Len(Asked))
<1> DEFINE S == Len(source)
           A == Len(Asked)
           want == Least(windowSize, remaining)
           n == Least(want, S - base)
<1>1. /\ source \in Seq(Byte) /\ fileSize \in Int /\ windowSize \in Nat \ {0}
      /\ base \in 0 .. Len(Asked) /\ remaining = fileSize - base
  BY DEF LoopInv
<1>2. S \in Nat /\ A = IF fileSize < 0 THEN 0 ELSE Least(fileSize, S)
  BY <1>1, AskedType, LenProperties DEF Asked
<1>3. r.n = n
  <2>1. \/ r = [n |-> n, err |-> IF n < want THEN "eof" ELSE "nil"]
        \/ \E k \in {m \in 0 .. n : ReadFails /\ m < want} : r = [n |-> k, err |-> "io"]
    BY DEF FullReads
  <2> HIDE DEF n, want
  <2> QED BY <2>1
<1>4. base \in Nat /\ base <= A
  BY <1>1
<1> HIDE DEF S, A
<1>5. fileSize >= 0 /\ base <= fileSize /\ A = Least(fileSize, S)
  BY <1>1, <1>2, <1>4
<1>6. base + n = Least(base + windowSize, A)
  BY <1>1, <1>2, <1>4, <1>5 DEF Least
<1> QED BY <1>3, <1>6 DEF A

\* What has been given is paid for, window by window; the window being searched
\* is a full one, or ends where the source does, or its read failed.
LossInv ==
  /\ workers \in Nat \ {0}
  /\ loop \in {"read", "search"} =>
       Paid(basis, known, Asked, windowSize, workers, given, base)
  /\ loop = "search" =>
       /\ base < Len(Asked)
       /\ readErr # "io" => base + Len(data) = Least(base + windowSize, Len(Asked))
  /\ loop = "returned" /\ outcome = "nil" /\ given # << >> =>
       /\ given \in Seq(Instruction)
       /\ Paid(basis, known, Asked, windowSize, workers, given, Len(Asked))

LEMMA KeptLossInv ==
  ASSUME LossInv, UNCHANGED loopVars,
         loop # "none" => basis' = basis /\ known' = known,
         loop = "search" => data' = data
  PROVE  LossInv'
<1>1. /\ loop' = loop /\ source' = source /\ fileSize' = fileSize
      /\ windowSize' = windowSize /\ workers' = workers /\ base' = base
      /\ readErr' = readErr /\ given' = given /\ outcome' = outcome
  BY DEF loopVars, readerVars
<1>2. Asked' = Asked
  BY <1>1 DEF Asked
<1> QED BY <1>1, <1>2 DEF LossInv

LEMMA PaidNothing ==
  ASSUME NEW f, NEW k, NEW d \in Seq(Byte), NEW W \in Nat \ {0}, NEW n
  PROVE  Paid(f, k, d, W, n, << >>, 0)
<1>1. Len(d) \in Nat /\ (Len(d) + W - 1) \div W \in Nat
  BY RoundedDivision, LenProperties
<1>2. 0 \in 0 .. (Len(d) + W - 1) \div W
  BY <1>1
<1>3. 0 = Least(0 * W, Len(d))
  BY <1>1 DEF Least
<1>4. PaidTo(f, k, d, W, n, << >>, 0)
  BY DEF PaidTo
<1> QED BY <1>2, <1>3, <1>4 DEF Paid

LEMMA BeginLoss ==
  ASSUME NEW d \in Inputs, NEW w \in WindowSizes, NEW n \in Workers,
         NEW size \in FileSizes(d), SearchReaderParallel(d, size, w, n)
  PROVE  LossInv'
<1>1. /\ source' = d /\ fileSize' = size /\ windowSize' = w
      /\ workers' = (IF n <= 0 THEN GOMAXPROCS ELSE n)
      /\ base' = 0 /\ given' = << >> /\ loop' = "read"
  BY DEF SearchReaderParallel
<1>2. /\ d \in Seq(Byte) /\ size \in Int /\ w \in Nat \ {0} /\ n \in Int
      /\ GOMAXPROCS \in Nat \ {0}
  BY ParallelAssumption, WindowedAssumption
<1>3. workers' \in Nat \ {0}
  BY <1>1, <1>2
<1>4. Asked' = AskedOf(d, size)
  BY <1>1 DEF Asked
<1>5. Asked' \in Seq(Byte)
  BY <1>2, <1>4, AskedType
<1>6. Paid(basis', known', Asked', windowSize', workers', given', base')
  BY <1>1, <1>2, <1>5, PaidNothing
<1> QED BY <1>1, <1>3, <1>6 DEF LossInv

\* A call that returns when all of the source has been handed over.
LEMMA EndLoss ==
  ASSUME FullInv, LossInv, loop = "read", loop' = "returned", UNCHANGED << basis, known >>,
         UNCHANGED << source, fileSize, windowSize, workers, given >>,
         outcome' = "nil" => base = Len(Asked)
  PROVE  LossInv'
<1>1. Asked' = Asked /\ given \in Seq(Instruction)
  BY DEF Asked, FullInv, LoopInv
<1> QED BY <1>1 DEF LossInv

LEMMA ReadWindowLoss ==
  ASSUME FullInv, LossInv, ReadWindow
  PROVE  LossInv'
<1>1. PICK r \in FullReads(Least(windowSize, remaining)) :
        IF r.n = 0
        THEN /\ loop' = "returned" /\ outcome' = IF r.err = "io" THEN "io" ELSE "nil"
             /\ UNCHANGED << parallelVars, readErr >>
        ELSE /\ SearchParallel(Slice(source, base, base + r.n), workers)
             /\ readErr' = r.err
             /\ loop' = "search"
             /\ UNCHANGED << calls, outcome >>
  BY DEF ReadWindow
<1>2. /\ loop = "read" /\ remaining > 0
      /\ source' = source /\ fileSize' = fileSize /\ windowSize' = windowSize
      /\ workers' = workers /\ base' = base /\ given' = given
  BY DEF ReadWindow, readerVars
<1>3. /\ r.n \in Nat /\ base + r.n <= Len(source) /\ base + r.n <= Len(Asked)
      /\ base \in Nat /\ r.err \in {"nil", "eof", "io"}
      /\ r.err = "eof" => base + r.n = Len(Asked)
      /\ r.n = 0 => r.err # "nil"
  BY <1>2, ReadBounds DEF FullInv
<1>4. Asked' = Asked /\ Len(Asked) \in Nat /\ source \in Seq(Byte)
  <2>1. source \in Seq(Byte) /\ Asked \in Seq(Byte)
    BY AskedType DEF FullInv, LoopInv, Asked
  <2> QED BY <1>2, <2>1, LenProperties DEF Asked
<1>5. CASE r.n = 0
  <2>1. loop' = "returned" /\ basis' = basis /\ known' = known
        /\ outcome' = IF r.err = "io" THEN "io" ELSE "nil"
    BY <1>1, <1>5 DEF parallelVars, engineVars
  <2>2. outcome' = "nil" => base = Len(Asked)
    BY <1>3, <1>5, <2>1
  <2> QED BY <1>2, <2>1, <2>2, EndLoss
<1>6. CASE r.n # 0
  <2> DEFINE n == r.n
             w == Slice(source, base, base + n)
  <2>1. SearchParallel(w, workers) /\ readErr' = r.err /\ loop' = "search"
    BY <1>1, <1>6
  <2>2. data' = w /\ basis' = basis /\ known' = known
    BY <2>1 DEF SearchParallel, engineVars
  <2>3. n \in Nat \ {0} /\ base + n <= Len(source) /\ base + n <= Len(Asked)
    BY <1>3, <1>6
  <2>4. r.err # "io" => base + n = Least(base + windowSize, Len(Asked))
    BY <1>2, FullWindow DEF FullInv
  <2> HIDE DEF n
  <2>5. Len(w) = n
    <3> DEFINE e == base + n
    <3>1. e \in Nat /\ base <= e /\ e <= Len(source) /\ e - base = n
      BY <1>3, <2>3
    <3> HIDE DEF e
    <3>2. Len(Slice(source, base, e)) = e - base
      BY <1>3, <1>4, <3>1, SliceType
    <3> QED BY <3>1, <3>2 DEF e
  <2> HIDE DEF w
  <2>6. base < Len(Asked)
    BY <1>3, <1>4, <2>3
  <2>7. Len(data') = n
    BY <2>2, <2>5
  <2> QED BY <1>2, <1>4, <2>1, <2>2, <2>4, <2>6, <2>7 DEF LossInv
<1> QED BY <1>5, <1>6

\* The results of a window that was not cut short, handed over whole.
LEMMA HandedAll ==
  ASSUME FullInv, LossInv, loop = "search", pc = "returned", readErr # "io"
  PROVE  LET t == SubSeq(Moved(results), 1, Len(results))
         IN  /\ given \o t \in Seq(Instruction)
             /\ Paid(basis, known, Asked, windowSize, workers, given \o t, base + Len(data))
<1> DEFINE e == Least(base + windowSize, Len(Asked))
<1>1. /\ source \in Seq(Byte) /\ fileSize \in Int /\ windowSize \in Nat \ {0}
      /\ base \in Nat /\ given \in Seq(Instruction) /\ asked = workers
      /\ data = Slice(Asked, base, base + Len(data))
      /\ basis \in Seq(Byte) /\ AreBlocks(basis, known)
      /\ results = ParallelResult(basis, known, data, asked)
  <2>1. base \in 0 .. Len(Asked)
    BY DEF FullInv, LoopInv
  <2>2. base \in Nat
    BY <2>1
  <2> QED BY <2>2 DEF FullInv, LoopInv, IInv, SharedInv, CallInv
<1>2. /\ workers \in Nat \ {0} /\ base < Len(Asked) /\ base + Len(data) = e
      /\ Paid(basis, known, Asked, windowSize, workers, given, base)
  BY DEF LossInv
<1>3. Asked \in Seq(Byte)
  BY <1>1, AskedType DEF Asked
<1> HIDE DEF e
<1>4. results = ParallelResult(basis, known, Slice(Asked, base, e), workers)
  BY <1>1, <1>2
<1>5. Paid(basis, known, Asked, windowSize, workers, given \o Shifted(results, base), e)
  BY <1>1, <1>2, <1>3, <1>4, PaidNext DEF e
<1>6. Moved(results) = Shifted(results, base)
  BY DEF Moved, Shifted
<1>7. Moved(results) \in Seq(Instruction) /\ Len(Moved(results)) = Len(results)
  BY MovedCovers DEF FullInv
<1>8. SubSeq(Moved(results), 1, Len(results)) = Moved(results)
  BY <1>7, SubSeqFull
<1>9. given \o Moved(results) \in Seq(Instruction)
  BY <1>1, <1>7, ConcatProperties
<1> QED BY <1>2, <1>5, <1>6, <1>8, <1>9

LEMMA HandOverLoss ==
  ASSUME FullInv, LossInv, HandOver
  PROVE  LossInv'
<1>1. /\ loop = "search" /\ pc = "returned" /\ loop' \in {"read", "returned"}
      /\ basis' = basis /\ known' = known /\ source' = source /\ fileSize' = fileSize
      /\ windowSize' = windowSize /\ workers' = workers
  BY HandOverEffect DEF FullInv, parallelVars, engineVars, readerVars
<1>2. Asked' = Asked
  BY <1>1 DEF Asked
<1>3. CASE loop' = "read"
  <2>1. readErr = "nil" /\ base' = base + Len(data)
        /\ given' = given \o SubSeq(Moved(results), 1, Len(results))
    BY <1>3, HandOverEffect DEF FullInv
  <2>2. Paid(basis, known, Asked, windowSize, workers, given', base')
    BY <1>1, <2>1, HandedAll
  <2> QED BY <1>1, <1>2, <1>3, <2>2 DEF LossInv
<1>4. CASE loop' = "returned" /\ outcome' = "nil"
  <2>1. readErr = "eof" /\ base + Len(data) = Len(Asked)
        /\ given' = given \o SubSeq(Moved(results), 1, Len(results))
    BY <1>4, HandOverEffect DEF FullInv
  <2>2. /\ given' \in Seq(Instruction)
        /\ Paid(basis, known, Asked, windowSize, workers, given', Len(Asked))
    BY <1>1, <2>1, HandedAll
  <2> QED BY <1>1, <1>2, <1>4, <2>2 DEF LossInv
<1>5. CASE loop' = "returned" /\ outcome' # "nil"
  BY <1>1, <1>5 DEF LossInv
<1> QED BY <1>1, <1>3, <1>4, <1>5

LEMMA NextLoss ==
  ASSUME FullInv, LossInv, [Next]_vars
  PROVE  LossInv'
<1>1. ASSUME NEW f \in Bases, NEW s \in Reachable(f), Load(f, s) PROVE LossInv'
  <2>1. loop' = "none" /\ workers' = workers
    BY <1>1 DEF Load
  <2> QED BY <2>1 DEF LossInv
<1>2. ASSUME NEW d \in Inputs, NEW n \in Workers, CallSearchParallel(d, n) PROVE LossInv'
  <2>1. LoopAtRest /\ UNCHANGED loopVars /\ basis' = basis /\ known' = known
    BY <1>2 DEF CallSearchParallel, SearchParallel, engineVars
  <2>2. loop # "search"
    BY <2>1 DEF LoopAtRest
  <2> QED BY <2>1, <2>2, KeptLossInv
<1>3. ASSUME NEW d \in Inputs, NEW w \in WindowSizes, NEW n \in Workers,
             NEW size \in FileSizes(d), SearchReaderParallel(d, size, w, n)
      PROVE  LossInv'
  BY <1>3, BeginLoss
<1>4. CASE ReadWindow
  BY <1>4, ReadWindowLoss
<1>5. CASE HandOver
  BY <1>5, HandOverLoss
<1>6. CASE AllRead
  <2>1. /\ loop = "read" /\ remaining <= 0 /\ loop' = "returned" /\ outcome' = "nil"
        /\ UNCHANGED << basis, known >>
        /\ UNCHANGED << source, fileSize, windowSize, workers, given >>
    BY <1>6 DEF AllRead, parallelVars, engineVars, readerVars
  <2>2. base = Len(Asked)
    BY <2>1, ReadToTheEnd DEF FullInv
  <2> QED BY <2>1, <2>2, EndLoss
<1>7. CASE (Caller \/ Worker) /\ UNCHANGED loopVars
  <2>1. UNCHANGED << engineVars, callVars >>
    BY <1>7 DEF Caller, Worker, SearchSerially, Split, Launch, LaunchEnd, Collect, Merge,
                WorkerSend
  <2>2. basis' = basis /\ known' = known /\ data' = data
    BY <2>1 DEF engineVars, callVars
  <2> QED BY <1>7, <2>2, KeptLossInv
<1>8. CASE Rest \/ UNCHANGED vars
  <2>1. UNCHANGED loopVars /\ basis' = basis /\ known' = known /\ data' = data
    BY <1>8 DEF Rest, vars, parallelVars, engineVars, callVars
  <2> QED BY <2>1, KeptLossInv
<1> QED BY <1>1, <1>2, <1>3, <1>4, <1>5, <1>6, <1>7, <1>8 DEF Next, Loop

\* What SearchReaderParallel hands over in windows and segments has at most a
\* block of literal bytes for each piece more than one Search of the whole
\* source has: the compression lost at each boundary is bounded (search.go:715),
\* wherever the boundaries fall and whatever the table has lost.
THEOREM BoundariesCostABlock == Spec => []WindowLoss
<1>1. Init => LossInv
  BY DEF Init, LossInv
<1>2. FullInv /\ LossInv /\ [Next]_vars => LossInv'
  BY NextLoss
<1>3. FullInv /\ LossInv => WindowLoss
  <2> SUFFICES ASSUME FullInv, LossInv, loop = "returned", outcome = "nil", given # << >>
               PROVE  LiteralCount(given) <=
                        LiteralCount(SearchResult(basis, known, Asked))
                        + BlockSize * Cardinality(Pieces(Asked))
    BY DEF WindowLoss, Asked, AskedOf
  <2>1. /\ workers \in Nat \ {0} /\ given \in Seq(Instruction)
        /\ Paid(basis, known, Asked, windowSize, workers, given, Len(Asked))
    BY DEF LossInv
  <2>2. /\ basis \in Seq(Byte) /\ AreBlocks(basis, known) /\ windowSize \in Nat \ {0}
        /\ Asked \in Seq(Byte)
    BY AskedType DEF FullInv, IInv, SharedInv, LoopInv, Asked
  <2>3. Pieces(Asked) = PiecesTo(basis, Asked, windowSize, workers,
                                 (Len(Asked) + windowSize - 1) \div windowSize)
    BY DEF Pieces, PiecesTo, Windows, PieceCount, PiecesOf, WindowAt, WindowOf
  <2> QED BY <2>1, <2>2, <2>3, PaidBound
<1> QED BY <1>1, <1>2, <1>3, ParallelInvariant, PTL DEF Spec
=============================================================================
