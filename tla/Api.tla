---------------------------------- MODULE Api ----------------------------------
(***************************************************************************)
(* The convenience functions (api.go), GenerateSignature and its parallel  *)
(* form, and Verify, as their caller sees them: a goroutine, Client, makes *)
(* one of these calls while others use the registry.  Each call looks its  *)
(* algorithm up by name, once for every part it is put together from, and  *)
(* what the parts do with a file is what MatchEngine, SignatureParallel    *)
(* and Receiver are checked to do.                                         *)
(*                                                                         *)
(* A digest is the algorithm and what it is of: algorithms differ, and     *)
(* none has collisions.  DeltaStream and DeltaFromWireStream are "Delta"   *)
(* and "DeltaFromWire" but for the way a literal is cut (SearchReader).    *)
(***************************************************************************)
EXTENDS Registry, SearchResults

CONSTANTS
  Client,      \* the goroutine that makes the call
  MayCall,     \* what each of the other goroutines may call
  Pairs,       \* an old and a new file
  Widths,      \* blocks the vector unit hashes at once with MD5, 1 without one
  GOMAXPROCS,  \* what runtime.GOMAXPROCS(0) returns
  BuiltinMD5,  \* what hashsimd computes, whatever is registered
  HasFastSum,  \* the algorithms that have a FastSum
  Alien        \* no byte

ASSUME ApiAssumption ==
  /\ Client \in Goroutine /\ BuiltinMD5 \in Algo /\ HasFastSum \subseteq Algo
  /\ \A p \in Goroutine \ {Client} : MayCall[p] \subseteq Calls
  /\ \A p \in Pairs : p.old \in Seq(Byte) /\ p.new \in Seq(Byte)
  /\ Widths \subseteq Nat \ {0} /\ GOMAXPROCS \in Nat \ {0} /\ Alien \notin Byte
  /\ "unknown" \notin Algo

VARIABLES
  width,    \* the machine's vector unit
  task,     \* the call, or None
  todo,     \* the parts still to come
  asked,    \* whether the registry was asked for the next part's algorithm
  sig,      \* the algorithm of each block's digest; None for a nil signature
  insts,    \* the instructions of the delta
  result,   \* the rebuilt file
  sum,      \* the digest of the new file that a caller of Verify expects
  outcome,  \* "none", "ok", "panic" or the error
  stable    \* history: nothing was registered under the name since the call

partVars == << sig, insts, result, sum >>
clientVars == << width, task, todo, asked, partVars, outcome >>
apiVars == << vars, clientVars, stable >>

\* The parts each call is made of.
Parts(op, old) ==
  CASE op = "Delta" -> << "sign", "search" >>
    [] op = "DeltaFromWire" -> << "receive", "search" >>
    [] op = "ApplyDelta" -> << "rebuild" >>
    [] op = "RoundTrip" -> << "sign", "search", "rebuild" >>
    [] op = "GenerateSignature" -> << "sign" >>
    [] op = "GenerateSignatureParallel" ->
         IF NumBlocks(old) <= 1 THEN << "sign" >> ELSE << "share" >>
    [] op = "Verify" -> << "hash", "verify" >>

Ops ==
  {"Delta", "DeltaFromWire", "ApplyDelta", "RoundTrip",
   "GenerateSignature", "GenerateSignatureParallel", "Verify"}

Task(op, pair, n) == [op |-> op, old |-> pair.old, new |-> pair.new, name |-> n]
Known(f) == 0 .. NumBlocks(f) - 1

\* None is no call and no signature.
ASSUME NoneAssumption ==
  \A pair \in Pairs :
    /\ \A op \in Ops, n \in Name : None # Task(op, pair, n)
    /\ \A a \in Algo : None # [k \in 1 .. NumBlocks(pair.old) |-> a]

ApiInit ==
  /\ Init
  /\ width \in Widths
  /\ task = None /\ todo = << >> /\ asked = FALSE
  /\ sig = None /\ insts = << >> /\ result = << >> /\ sum = None
  /\ outcome = "none" /\ stable = TRUE

\* ApplyDelta is given a true delta, Verify a file that may be the wrong one.
Begin(op, pair, n) ==
  /\ task = None
  /\ task' = Task(op, pair, n)
  /\ todo' = Parts(op, pair.old)
  /\ insts' = IF op = "ApplyDelta"
              THEN SearchResult(pair.old, Known(pair.old), pair.new) ELSE << >>
  /\ result' \in IF op = "Verify" THEN {pair.old, pair.new} ELSE {<< >>}
  /\ UNCHANGED << vars, width, asked, sig, sum, outcome, stable >>

-----------------------------------------------------------------------------
(* One part after another *)

Due(part) == task # None /\ outcome = "none" /\ Head(todo) = part

\* GetAlgo(algo), for each part but the decoding of a signature.
Ask ==
  /\ task # None /\ outcome = "none" /\ ~ Due("receive") /\ ~ asked
  /\ Call(Client, [op |-> "GetAlgo", name |-> task.name])
  /\ asked' = TRUE
  /\ UNCHANGED << width, task, todo, partVars, outcome, stable >>

Answered(part) == Due(part) /\ asked /\ stage[Client] = "idle"
Unknown == answer[Client] = "unknown"
Algorithm == answer[Client]

Finish(err) == outcome' = err /\ UNCHANGED todo

NextPart ==
  /\ todo' = Tail(todo)
  /\ outcome' = IF Tail(todo) = << >> THEN "ok" ELSE "none"

Advance ==
  /\ asked' = FALSE
  /\ UNCHANGED << vars, width, task, stable >>

-----------------------------------------------------------------------------
(* Signatures *)

\* strongAlgo == "md5" && hashsimd.MD5x8Available()
Vectors == task.name = Default /\ width > 1

\* Block k is in a full batch of full blocks, of those from lo to hi - 1.
InFullBatch(f, k, lo, hi) ==
  LET base == lo + ((k - lo) \div width) * width
  IN  base + width <= hi /\ (base + width) * BlockSize <= Len(f)

\* The algorithm block k of f is hashed with, when a is registered.
HashedWith(f, a, k, lo, hi) ==
  IF Vectors /\ InFullBatch(f, k, lo, hi) THEN BuiltinMD5 ELSE a

\* The rest of a batch goes to FastSum, whether there is one or not.
Panics(f, a, k, lo, hi) ==
  Vectors /\ ~ InFullBatch(f, k, lo, hi) /\ a \notin HasFastSum

\* GenerateSignature drops the error of an algorithm that is not registered.
Sign ==
  /\ Answered("sign")
  /\ LET f == task.old
         n == NumBlocks(f)
         a == Algorithm
     IN  IF Unknown THEN sig' = None /\ NextPart
         ELSE IF \E k \in Known(f) : Panics(f, a, k, 0, n)
         THEN Finish("panic") /\ UNCHANGED sig
         ELSE /\ sig' = [k \in 1 .. n |-> HashedWith(f, a, k - 1, 0, n)]
              /\ NextPart
  /\ UNCHANGED << insts, result, sum >>
  /\ Advance

\* The blocks one of the goroutines of GenerateSignatureParallel has.
Share(f, k) ==
  LET n    == NumBlocks(f)
      w    == Least(GOMAXPROCS, n)
      each == (n + w - 1) \div w
      lo   == (k \div each) * each
  IN  << lo, Least(lo + each, n) >>

ShareOut ==
  /\ Answered("share")
  /\ LET f == task.old
         a == Algorithm
     IN  IF Unknown THEN Finish("unknown") /\ UNCHANGED sig
         ELSE IF \E k \in Known(f) : Panics(f, a, k, Share(f, k)[1], Share(f, k)[2])
         THEN Finish("panic") /\ UNCHANGED sig
         ELSE /\ sig' = [k \in 1 .. NumBlocks(f) |->
                  HashedWith(f, a, k - 1, Share(f, k - 1)[1], Share(f, k - 1)[2])]
              /\ NextPart
  /\ UNCHANGED << insts, result, sum >>
  /\ Advance

\* WireDecodeSignature: a peer's signature, by what is registered there.
Receive ==
  /\ Due("receive")
  /\ \/ \E a \in Algo :
          sig' = [k \in 1 .. NumBlocks(task.old) |-> a] /\ NextPart
     \/ Finish("wire") /\ UNCHANGED sig
  /\ UNCHANGED << insts, result, sum >>
  /\ Advance

-----------------------------------------------------------------------------
(* Delta, reconstruction, verification *)

\* The blocks an engine with algorithm a can recognise by their digests.
AsSeen(a, f) ==
  [p \in DOMAIN f |-> IF sig[(p - 1) \div BlockSize + 1] = a THEN f[p] ELSE Alien]

\* Mutants: no signature, no delta; the engine takes the default algorithm.
NothingToMatch(a, f, d) ==
  IF sig = None THEN << >> ELSE SearchResult(AsSeen(a, f), Known(f), d)
ByDefault(a, f, d) ==
  IF sig = None THEN Chunks(d, 0)
  ELSE SearchResult(AsSeen(registry[defaultAlgo], f), Known(f), d)

\* LoadSignature and Search; a nil signature leaves nothing to match.
Searched(a, f, d) ==
  IF sig = None THEN Chunks(d, 0) ELSE SearchResult(AsSeen(a, f), Known(f), d)

\* NewMatchEngine and what follows it.
SearchPart ==
  /\ Answered("search")
  /\ IF Unknown THEN Finish("unknown") /\ UNCHANGED insts
     ELSE insts' = Searched(Algorithm, task.old, task.new) /\ NextPart
  /\ UNCHANGED << sig, result, sum >>
  /\ Advance

\* NewReconstructor and Reconstruct; RoundTrip compares.
RebuildPart ==
  /\ Answered("rebuild")
  /\ IF Unknown THEN Finish("unknown") /\ UNCHANGED result
     ELSE /\ result' = FlattenSeq([k \in DOMAIN insts |-> Apply(task.old, insts[k])])
          /\ IF task.op = "RoundTrip" /\ result' # task.new
             THEN Finish("mismatch") ELSE NextPart
  /\ UNCHANGED << sig, insts, sum >>
  /\ Advance

\* NewHash, for the sum to expect.
HashPart ==
  /\ Answered("hash")
  /\ IF Unknown THEN Finish("unknown") /\ UNCHANGED sum
     ELSE sum' = << Algorithm, task.new >> /\ NextPart
  /\ UNCHANGED << sig, insts, result >>
  /\ Advance

\* NewReconstructor and Verify.
VerifyPart ==
  /\ Answered("verify")
  /\ IF Unknown THEN Finish("unknown")
     ELSE IF << Algorithm, result >> = sum THEN NextPart ELSE Finish("unverified")
  /\ UNCHANGED partVars
  /\ Advance

ClientStep ==
  \/ Ask
  \/ Sign \/ ShareOut \/ Receive
  \/ SearchPart \/ RebuildPart
  \/ HashPart \/ VerifyPart

RegistryStep(p) ==
  /\ Step(p)
  /\ stable' = (stable /\ (task # None => registry'[task.name] = registry[task.name]))
  /\ UNCHANGED clientVars

\* The call is over, and the others have made all the calls the bound allows.
ApiRest ==
  /\ outcome # "none"
  /\ \A p \in Goroutine \ {Client} : stage[p] = "idle" /\ calls[p] = MaxCalls[p]
  /\ UNCHANGED apiVars

ApiNext ==
  \/ \E p \in Goroutine : RegistryStep(p)
  \/ \E p \in Goroutine \ {Client} : \E c \in MayCall[p] :
       Call(p, c) /\ UNCHANGED << clientVars, stable >>
  \/ \E op \in Ops, pair \in Pairs, n \in Name : Begin(op, pair, n)
  \/ ClientStep
  \/ ApiRest

\* Go runs every goroutine that can run, and a mutex handed over in turn starves
\* none of those that want it.  Nothing obliges the client to go on.
ApiSpec ==
  /\ ApiInit /\ [][ApiNext]_apiVars
  /\ \A p \in Goroutine : WF_apiVars(RegistryStep(p)) /\ SF_apiVars(Lock(p) /\ RegistryStep(p))

-----------------------------------------------------------------------------
(* Properties *)

Deltas == {"Delta", "DeltaFromWire", "RoundTrip"}

\* Whatever is registered, or registered anew, between the lookups of one call,
\* and whatever machine the signature was made on: a delta rebuilds the new file
\* (the algorithms may cost matches, never bytes), and RoundTrip does not report
\* a mismatch.
RoundTripHolds ==
  /\ outcome # "mismatch"
  /\ outcome = "ok" /\ task.op \in Deltas =>
       Rebuilds(task.old, task.new, insts, Len(task.new))
  /\ outcome = "ok" /\ task.op \in {"ApplyDelta", "RoundTrip"} => result = task.new

\* Left out is a vector unit while another MD5 is registered.
Undisturbed == stable /\ (Vectors => registry[task.name] = BuiltinMD5)

\* A peer's signature is by the same algorithm.
SignedAlike ==
  task.op = "DeltaFromWire" => \A k \in DOMAIN sig : sig[k] = registry[task.name]

\* A call during which its name keeps its algorithm finds all there is to find:
\* signature and engine, built apart, agree on it, and Verify accepts the right
\* file and no other (api.go:21, reconstruct.go:113).
UndisturbedFindsAll ==
  outcome # "none" /\ Undisturbed =>
    /\ outcome = "ok" /\ task.op \in Deltas /\ SignedAlike =>
         References(insts) =
           References(SearchResult(task.old, Known(task.old), task.new))
    /\ task.op = "Verify" /\ outcome # "unknown" =>
         (outcome = "ok" <=> result = task.new)

\* registry.go:80, "If nil, the hash.Hash path (New+Write+Sum) is used instead."
FastSumOptional == outcome # "panic"
================================================================================
