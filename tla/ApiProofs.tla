---------------------------- MODULE ApiProofs --------------------------------
(***************************************************************************)
(* Theorems about Registry: the default is registered at all times, and    *)
(* what is registered stays so, for any number of goroutines and calls.    *)
(* And about Api: a delta is true and RoundTrip succeeds whatever others   *)
(* register in the middle of a call, and where nobody does, a delta has    *)
(* all the references there are and Verify is right.                       *)
(***************************************************************************)
EXTENDS Api, BlocksProofs

-----------------------------------------------------------------------------
(* The registry *)

Stages == {"idle", "want", "wait", "hold"}
Phases == {"lookup", "list", "default", "store"}

\* The state as far as the map and the default depend on it.
StoreType ==
  /\ registry \in [Name -> Algo \cup {None}]
  /\ defaultAlgo \in Name
  /\ call \in [Goroutine -> Calls]
  /\ stage \in [Goroutine -> Stages]
  /\ phase \in [Goroutine -> Phases]

\* A call looks up or stores only what it is for.
PhaseFits ==
  \A p \in Goroutine :
    /\ phase[p] = "lookup" => call[p].op \in {"GetAlgo", "SetDefault"}
    /\ phase[p] = "store" => call[p].op \in {"Register", "SetDefault"}

\* Between its two locks SetDefault holds none, and yet what it found under the
\* first is still there when it takes the second.
FoundStays ==
  \A p \in Goroutine :
    phase[p] = "store" /\ call[p].op = "SetDefault" => registry[call[p].name] # None

IInv == StoreType /\ PhaseFits /\ FoundStays /\ DefaultRegistered

LEMMA InitIInv == Init => IInv
<1> SUFFICES ASSUME Init PROVE IInv
  OBVIOUS
<1>1. StoreType
  <2>1. registry \in [Name -> Algo \cup {None}] /\ defaultAlgo \in Name
    BY RegistryAssumption DEF Init
  <2>2. [op |-> "GetDefault"] \in Calls
    BY DEF Calls
  <2>3. call \in [Goroutine -> Calls]
    BY <2>2 DEF Init
  <2>4. stage \in [Goroutine -> Stages] /\ phase \in [Goroutine -> Phases]
    BY DEF Init, Stages, Phases
  <2> QED BY <2>1, <2>3, <2>4 DEF StoreType
<1>2. PhaseFits /\ FoundStays
  BY DEF Init, PhaseFits, FoundStays
<1>3. DefaultRegistered
  BY RegistryAssumption DEF Init, DefaultRegistered
<1> QED BY <1>1, <1>2, <1>3 DEF IInv

\* The names of calls that look something up or store it.
LEMMA CallArguments ==
  ASSUME NEW c \in Calls
  PROVE  /\ c.op \in {"GetAlgo", "SetDefault", "Register"} => c.name \in Name
         /\ c.op = "Register" => c.algo \in Algo
BY DEF Calls

\* A step that leaves the map and the default alone, and moves no call of
\* SetDefault on to its second lock but one that found its name.
LEMMA QuietStep ==
  ASSUME IInv, StoreType', PhaseFits', UNCHANGED << registry, defaultAlgo >>,
         \A p \in Goroutine :
           phase'[p] = "store" /\ call'[p].op = "SetDefault" =>
             \/ call'[p] = call[p] /\ phase'[p] = phase[p]
             \/ registry[call'[p].name] # None
  PROVE  IInv'
<1>1. FoundStays'
  BY DEF IInv, FoundStays
<1>2. DefaultRegistered'
  BY DEF IInv, DefaultRegistered
<1> QED BY <1>1, <1>2 DEF IInv

LEMMA CallKeeps ==
  ASSUME IInv, NEW p \in Goroutine, NEW c \in Calls, Call(p, c)
  PROVE  IInv'
<1>1. /\ call' = [call EXCEPT ![p] = c]
      /\ phase' = [phase EXCEPT ![p] = FirstPhase(c)]
      /\ UNCHANGED << registry, defaultAlgo >>
  BY DEF Call
<1>2. /\ FirstPhase(c) \in Phases
      /\ FirstPhase(c) = "lookup" => c.op \in {"GetAlgo", "SetDefault"}
      /\ FirstPhase(c) = "store" => c.op = "Register"
  <2>1. c.op \in {"Register", "GetAlgo", "SetDefault", "ListAlgos", "GetDefault"}
    BY DEF Calls
  <2>2. CASE c.op = "Register"
    BY <2>2 DEF FirstPhase, Phases
  <2>3. CASE c.op \in {"GetAlgo", "SetDefault"}
    BY <2>3 DEF FirstPhase, Phases
  <2>4. CASE c.op = "ListAlgos"
    BY <2>4 DEF FirstPhase, Phases
  <2>5. CASE c.op = "GetDefault"
    BY <2>5 DEF FirstPhase, Phases
  <2> QED BY <2>1, <2>2, <2>3, <2>4, <2>5
<1>3. StoreType'
  BY <1>1, <1>2 DEF IInv, StoreType, Call, Stages
<1>4. PhaseFits'
  BY <1>1, <1>2 DEF IInv, StoreType, PhaseFits
<1>5. \A q \in Goroutine :
        phase'[q] = "store" /\ call'[q].op = "SetDefault" =>
          call'[q] = call[q] /\ phase'[q] = phase[q]
  BY <1>1, <1>2 DEF IInv, StoreType
<1> QED BY <1>1, <1>3, <1>4, <1>5, QuietStep

LEMMA LockKeeps ==
  ASSUME IInv, NEW p \in Goroutine, RLock(p) \/ Lock(p) \/ LockDone(p)
  PROVE  IInv'
<1>1. UNCHANGED << registry, defaultAlgo, call, phase >>
  BY DEF RLock, Lock, LockDone
<1>2. stage' \in [Goroutine -> Stages]
  BY DEF RLock, Lock, LockDone, IInv, StoreType, Stages
<1>3. StoreType' /\ PhaseFits'
  BY <1>1, <1>2 DEF IInv, StoreType, PhaseFits
<1> QED BY <1>1, <1>3, QuietStep

LEMMA ReadKeeps ==
  ASSUME IInv, NEW p \in Goroutine, Lookup(p) \/ List(p) \/ ReadDefault(p)
  PROVE  IInv'
<1>1. UNCHANGED << registry, defaultAlgo, call >>
  BY DEF Lookup, List, ReadDefault
<1>2. stage' \in [Goroutine -> Stages]
  BY DEF Lookup, Looked, Proceed, Return, List, ReadDefault, IInv, StoreType, Stages
<1>3. \/ phase' = phase
      \/ phase' = [phase EXCEPT ![p] = "list"]
      \/ /\ phase' = [phase EXCEPT ![p] = "store"]
         /\ call[p].op = "SetDefault" /\ registry[call[p].name] # None
  BY DEF Lookup, Looked, Proceed, Return, List, ReadDefault, Registered
<1>4. StoreType' /\ PhaseFits'
  BY <1>1, <1>2, <1>3 DEF IInv, StoreType, PhaseFits, Phases
<1>5. \A q \in Goroutine :
        phase'[q] = "store" /\ call'[q].op = "SetDefault" =>
          \/ call'[q] = call[q] /\ phase'[q] = phase[q]
          \/ registry[call'[q].name] # None
  BY <1>1, <1>3 DEF IInv, StoreType
<1> QED BY <1>1, <1>4, <1>5, QuietStep

LEMMA StoreKeeps ==
  ASSUME IInv, NEW p \in Goroutine, Store(p)
  PROVE  /\ IInv'
         /\ \A n \in Name : registry[n] # None => registry'[n] # None
<1>1. /\ call[p] \in Calls
      /\ phase[p] = "store"
      /\ call[p].op \in {"Register", "SetDefault"}
  BY DEF IInv, StoreType, PhaseFits, Store
<1>2. UNCHANGED << call, phase >>
  BY DEF Store
<1>3. stage' \in [Goroutine -> Stages]
  BY DEF Store, IInv, StoreType, Stages
<1>4. CASE call[p].op = "Register"
  <2>1. call[p].name \in Name /\ call[p].algo \in Algo
    BY <1>1, <1>4, CallArguments
  <2>2. /\ registry' = [registry EXCEPT ![call[p].name] = call[p].algo]
        /\ defaultAlgo' = defaultAlgo
    BY <1>4 DEF Store, WithEntry
  <2>3. \A n \in Name : registry[n] # None => registry'[n] # None
    BY <2>1, <2>2, RegistryAssumption DEF IInv, StoreType
  <2>4. StoreType' /\ PhaseFits'
    BY <1>2, <1>3, <2>1, <2>2 DEF IInv, StoreType, PhaseFits
  <2>5. FoundStays'
    <3> SUFFICES ASSUME NEW q \in Goroutine, phase[q] = "store", call[q].op = "SetDefault"
                 PROVE  registry'[call[q].name] # None
      BY <1>2 DEF FoundStays
    <3>1. call[q].name \in Name
      BY CallArguments DEF IInv, StoreType
    <3> QED BY <2>3, <3>1 DEF IInv, FoundStays
  <2>6. DefaultRegistered'
    BY <2>2, <2>3 DEF IInv, StoreType, DefaultRegistered
  <2> QED BY <2>3, <2>4, <2>5, <2>6 DEF IInv
<1>5. CASE call[p].op = "SetDefault"
  <2>1. call[p].name \in Name /\ registry[call[p].name] # None
    BY <1>1, <1>5, CallArguments DEF IInv, FoundStays
  <2>2. registry' = registry /\ defaultAlgo' = call[p].name
    BY <1>5 DEF Store
  <2>3. StoreType' /\ PhaseFits'
    BY <1>2, <1>3, <2>1, <2>2 DEF IInv, StoreType, PhaseFits
  <2>4. FoundStays' /\ DefaultRegistered'
    BY <1>2, <2>1, <2>2 DEF IInv, FoundStays, DefaultRegistered
  <2> QED BY <2>2, <2>3, <2>4 DEF IInv
<1> QED BY <1>1, <1>4, <1>5

LEMMA NextKeeps ==
  ASSUME IInv, [Next]_vars
  PROVE  /\ IInv'
         /\ \A n \in Name : registry[n] # None => registry'[n] # None
<1>1. ASSUME NEW p \in Goroutine, Step(p)
      PROVE  /\ IInv'
             /\ \A n \in Name : registry[n] # None => registry'[n] # None
  <2>1. CASE RLock(p) \/ Lock(p) \/ LockDone(p)
    BY <2>1, LockKeeps DEF RLock, Lock, LockDone
  <2>2. CASE Lookup(p) \/ List(p) \/ ReadDefault(p)
    BY <2>2, ReadKeeps DEF Lookup, List, ReadDefault
  <2>3. CASE Store(p)
    BY <2>3, StoreKeeps
  <2> QED BY <1>1, <2>1, <2>2, <2>3 DEF Step
<1>2. ASSUME NEW p \in Goroutine, NEW c \in Calls, Call(p, c)
      PROVE  IInv' /\ registry' = registry
  BY <1>2, CallKeeps DEF Call
<1>3. CASE Rest \/ UNCHANGED vars
  <2>1. UNCHANGED << registry, defaultAlgo, call, stage, phase >>
    BY <1>3 DEF Rest, vars, localVars
  <2> QED BY <2>1 DEF IInv, StoreType, PhaseFits, FoundStays, DefaultRegistered
<1> QED BY <1>1, <1>2, <1>3 DEF Next

\* The inductive invariant of the registry.
THEOREM RegistryInvariant == Spec => []IInv
<1>1. IInv /\ [Next]_vars => IInv'
  BY NextKeeps
<1> QED BY InitIInv, <1>1, PTL DEF Spec

\* The default names a registered algorithm at all times, although SetDefault
\* checks it under one lock and stores it under another (registry.go:152).
THEOREM DefaultStaysRegistered == Spec => []DefaultRegistered
<1>1. IInv => DefaultRegistered
  BY DEF IInv
<1> QED BY RegistryInvariant, <1>1, PTL

\* No name that was registered is ever forgotten (Register, registry.go:122).
THEOREM RegisteredForGood == Spec => NeverForgotten
<1>1. IInv /\ [Next]_vars => [\A n \in Name : Registered(n) => registry'[n] # None]_vars
  BY NextKeeps DEF Registered
<1> QED BY RegistryInvariant, <1>1, PTL DEF Spec, NeverForgotten

-----------------------------------------------------------------------------
(* A client's call *)

Tasks == {Task(op, pair, n) : op \in Ops, pair \in Pairs, n \in Name}

LEMMA TaskType ==
  ASSUME NEW t \in Tasks
  PROVE  /\ t.op \in Ops /\ t.name \in Name /\ t # None
         /\ t.old \in Seq(Byte) /\ t.new \in Seq(Byte)
         /\ \A a \in Algo : None # [k \in 1 .. NumBlocks(t.old) |-> a]
<1>1. PICK op \in Ops, pair \in Pairs, n \in Name : t = Task(op, pair, n)
  BY DEF Tasks
<1>2. t.op = op /\ t.old = pair.old /\ t.new = pair.new /\ t.name = n
  BY <1>1 DEF Task
<1>3. pair.old \in Seq(Byte) /\ pair.new \in Seq(Byte)
  BY ApiAssumption
<1>4. t # None /\ \A a \in Algo : None # [k \in 1 .. NumBlocks(t.old) |-> a]
  BY <1>1, <1>2, NoneAssumption
<1> QED BY <1>2, <1>3, <1>4

LEMMA ShortLists ==
  ASSUME NEW a, NEW b, NEW c
  PROVE  /\ Head(<< a >>) = a /\ Head(<< a, b >>) = a /\ Head(<< a, b, c >>) = a
         /\ Tail(<< a >>) = << >> /\ Tail(<< a, b >>) = << b >>
         /\ Tail(<< a, b, c >>) = << b, c >>
         /\ << b >> # << >> /\ << b, c >> # << >>
OBVIOUS

\* What can be left of a call.
Left(op) ==
  CASE op = "Delta" -> { << "sign", "search" >>, << "search" >> }
    [] op = "DeltaFromWire" -> { << "receive", "search" >>, << "search" >> }
    [] op = "ApplyDelta" -> { << "rebuild" >> }
    [] op = "RoundTrip" ->
         { << "sign", "search", "rebuild" >>, << "search", "rebuild" >>, << "rebuild" >> }
    [] op = "GenerateSignature" -> { << "sign" >> }
    [] op = "GenerateSignatureParallel" -> { << "sign" >>, << "share" >> }
    [] op = "Verify" -> { << "hash", "verify" >>, << "verify" >> }

\* What follows part in a call of op, and whether it has that part at all.
Follows(op, part, rest) ==
  CASE part = "sign" -> IF op = "Delta" THEN rest = << "search" >>
                        ELSE IF op = "RoundTrip" THEN rest = << "search", "rebuild" >>
                        ELSE op \notin Deltas \cup {"ApplyDelta", "Verify"} /\ rest = << >>
    [] part = "share" -> op = "GenerateSignatureParallel" /\ rest = << >>
    [] part = "receive" -> op = "DeltaFromWire" /\ rest = << "search" >>
    [] part = "search" -> op \in Deltas /\ rest = IF op = "RoundTrip" THEN << "rebuild" >>
                                                  ELSE << >>
    [] part = "rebuild" -> op \in {"ApplyDelta", "RoundTrip"} /\ rest = << >>
    [] part = "hash" -> op = "Verify" /\ rest = << "verify" >>
    [] part = "verify" -> op = "Verify" /\ rest = << >>

AllParts == {"sign", "share", "receive", "search", "rebuild", "hash", "verify"}

LEMMA LeftFollows ==
  ASSUME NEW op \in Ops, NEW list \in Left(op)
  PROVE  /\ Head(list) \in AllParts
         /\ Follows(op, Head(list), Tail(list))
         /\ Tail(list) = << >> \/ Tail(list) \in Left(op)
<1>1. CASE op = "Delta"
  <2>1. CASE list = << "sign", "search" >>
    BY <1>1, <2>1, ShortLists DEF Left, Follows, AllParts, Deltas
  <2>2. CASE list = << "search" >>
    BY <1>1, <2>2, ShortLists DEF Left, Follows, AllParts, Deltas
  <2> QED BY <1>1, <2>1, <2>2 DEF Left
<1>2. CASE op = "DeltaFromWire"
  <2>1. CASE list = << "receive", "search" >>
    BY <1>2, <2>1, ShortLists DEF Left, Follows, AllParts, Deltas
  <2>2. CASE list = << "search" >>
    BY <1>2, <2>2, ShortLists DEF Left, Follows, AllParts, Deltas
  <2> QED BY <1>2, <2>1, <2>2 DEF Left
<1>3. CASE op = "ApplyDelta"
  <2>1. list = << "rebuild" >>
    BY <1>3 DEF Left
  <2> QED BY <1>3, <2>1, ShortLists DEF Left, Follows, AllParts, Deltas
<1>4. CASE op = "RoundTrip"
  <2>1. CASE list = << "sign", "search", "rebuild" >>
    BY <1>4, <2>1, ShortLists DEF Left, Follows, AllParts, Deltas
  <2>2. CASE list = << "search", "rebuild" >>
    BY <1>4, <2>2, ShortLists DEF Left, Follows, AllParts, Deltas
  <2>3. CASE list = << "rebuild" >>
    BY <1>4, <2>3, ShortLists DEF Left, Follows, AllParts, Deltas
  <2> QED BY <1>4, <2>1, <2>2, <2>3 DEF Left
<1>5. CASE op = "GenerateSignature"
  <2>1. list = << "sign" >>
    BY <1>5 DEF Left
  <2> QED BY <1>5, <2>1, ShortLists DEF Left, Follows, AllParts, Deltas
<1>6. CASE op = "GenerateSignatureParallel"
  <2>1. CASE list = << "sign" >>
    BY <1>6, <2>1, ShortLists DEF Left, Follows, AllParts, Deltas
  <2>2. CASE list = << "share" >>
    BY <1>6, <2>2, ShortLists DEF Left, Follows, AllParts, Deltas
  <2> QED BY <1>6, <2>1, <2>2 DEF Left
<1>7. CASE op = "Verify"
  <2>1. CASE list = << "hash", "verify" >>
    BY <1>7, <2>1, ShortLists DEF Left, Follows, AllParts, Deltas
  <2>2. CASE list = << "verify" >>
    BY <1>7, <2>2, ShortLists DEF Left, Follows, AllParts, Deltas
  <2> QED BY <1>7, <2>1, <2>2 DEF Left
<1> QED BY <1>1, <1>2, <1>3, <1>4, <1>5, <1>6, <1>7 DEF Ops

\* The instructions of a delta that is true.
Truly(insts1) ==
  insts1 \in Seq(Instruction) /\ Rebuilds(task.old, task.new, insts1, Len(task.new))

\* What is left of a call, and that what Reconstruct gets is a true delta.
ClientInv ==
  /\ task # None => task \in Tasks
  /\ task = None => outcome = "none" /\ ~ asked
  /\ task # None /\ outcome = "none" =>
       /\ todo \in Left(task.op)
       /\ Head(todo) = "rebuild" => Truly(insts)
  /\ RoundTripHolds

\* A part of a call under way, and what follows it.
LEMMA PartFollows ==
  ASSUME ClientInv, NEW part, Due(part)
  PROVE  /\ task \in Tasks /\ outcome = "none" /\ Head(todo) = part /\ task.op \in Ops
         /\ Follows(task.op, part, Tail(todo))
         /\ Tail(todo) = << >> \/ Tail(todo) \in Left(task.op)
BY TaskType, LeftFollows DEF ClientInv, Due

LEMMA FailedKeeps ==
  ASSUME ClientInv, task \in Tasks, task' = task,
         NEW err, Finish(err), err \notin {"none", "ok", "mismatch"}
  PROVE  ClientInv'
BY TaskType DEF ClientInv, Finish, RoundTripHolds

LEMMA NextPartKeeps ==
  ASSUME ClientInv, task \in Tasks, task' = task, NextPart,
         Tail(todo) = << >> \/ Tail(todo) \in Left(task.op),
         Tail(todo) = << >> /\ task.op \in Deltas =>
           Rebuilds(task.old, task.new, insts', Len(task.new)),
         Tail(todo) = << >> /\ task.op \in {"ApplyDelta", "RoundTrip"} => result' = task.new,
         Tail(todo) # << >> /\ Head(Tail(todo)) = "rebuild" => Truly(insts')
  PROVE  ClientInv'
<1>1. task # None /\ todo' = Tail(todo)
  BY TaskType DEF NextPart
<1>2. CASE Tail(todo) = << >>
  <2>1. outcome' = "ok"
    BY <1>2 DEF NextPart
  <2>2. RoundTripHolds'
    BY <1>2, <2>1 DEF RoundTripHolds
  <2> QED BY <1>1, <2>1, <2>2 DEF ClientInv
<1>3. CASE Tail(todo) # << >>
  <2>1. outcome' = "none"
    BY <1>3 DEF NextPart
  <2>2. RoundTripHolds'
    BY <2>1 DEF RoundTripHolds
  <2>3. Truly(insts)' <=> Truly(insts')
    BY DEF Truly
  <2> QED BY <1>1, <1>3, <2>1, <2>2, <2>3 DEF ClientInv
<1> QED BY <1>2, <1>3

\* The parts that make no delta and rebuild nothing.
LEMMA OtherPartKeeps ==
  ASSUME ClientInv, NEW part \in {"sign", "share", "receive", "hash", "verify"}, Due(part),
         NextPart, task' = task
  PROVE  ClientInv'
<1>1. /\ task \in Tasks /\ task.op \in Ops
      /\ Follows(task.op, part, Tail(todo))
      /\ Tail(todo) = << >> \/ Tail(todo) \in Left(task.op)
  BY PartFollows
<1>2. Tail(todo) = << >> => task.op \notin Deltas \cup {"ApplyDelta", "RoundTrip"}
  BY <1>1, ShortLists DEF Follows, Deltas
<1>3. Tail(todo) # << >> => Head(Tail(todo)) # "rebuild"
  <2>1. Tail(todo) \in { << >>, << "search" >>, << "search", "rebuild" >>, << "verify" >> }
    BY <1>1 DEF Follows
  <2>2. /\ Head(<< "search" >>) = "search" /\ Head(<< "verify" >>) = "verify"
        /\ Head(<< "search", "rebuild" >>) = "search"
    BY ShortLists
  <2> QED BY <2>1, <2>2
<1> QED BY <1>1, <1>2, <1>3, NextPartKeeps

\* What an engine can recognise of a file is nothing but what is there.
LEMMA AsSeenShows ==
  ASSUME NEW f \in Seq(Byte), NEW a
  PROVE  Shows(AsSeen(a, f), f)
<1> DEFINE g == AsSeen(a, f)
           S == Byte \cup {Alien}
           n == Len(f)
<1>1. /\ n \in Nat /\ DOMAIN f = 1 .. n
      /\ DOMAIN g = 1 .. n
      /\ \A p \in 1 .. n : f[p] \in Byte /\ (g[p] = f[p] \/ g[p] = Alien) /\ g[p] \in S
  BY LenProperties, ElementOfSeq DEF AsSeen
<1>2. g \in Seq(S) /\ Len(g) = n
  <2>1. g = [p \in 1 .. n |-> g[p]]
    BY <1>1 DEF AsSeen
  <2> HIDE DEF g, n, S
  <2> QED BY <1>1, <2>1
<1> HIDE DEF g, n
<1>3. NumBlocks(g) = NumBlocks(f)
  BY <1>2 DEF NumBlocks, n
<1>4. ASSUME NEW i \in 0 .. NumBlocks(f) - 1, Block(g, i) \in Seq(Byte)
      PROVE  Block(f, i) = Block(g, i)
  <2> DEFINE lo == i * BlockSize
             hi == BlockEnd(f, i)
  <2>1. lo \in Nat /\ hi \in Nat /\ lo <= hi /\ hi <= n
    BY BlockBounds DEF n
  <2>2. BlockEnd(g, i) = hi
    BY <1>2 DEF BlockEnd, n
  <2> HIDE DEF lo, hi
  <2>3. /\ Slice(f, lo, hi) \in Seq(Byte) /\ Len(Slice(f, lo, hi)) = hi - lo
        /\ \A k \in 1 .. hi - lo : Slice(f, lo, hi)[k] = f[lo + k]
    BY <2>1, SliceType DEF n
  <2>4. /\ Slice(g, lo, hi) \in Seq(S) /\ Len(Slice(g, lo, hi)) = hi - lo
        /\ \A k \in 1 .. hi - lo : Slice(g, lo, hi)[k] = g[lo + k]
    <3>1. g \in Seq(S) /\ lo \in Nat /\ hi \in Nat /\ lo <= hi /\ hi <= Len(g)
      BY <1>2, <2>1
    <3> HIDE DEF g, S
    <3> QED BY ONLY <3>1, SliceType, ZenonT(60)
  <2>5. Block(g, i) = Slice(g, lo, hi) /\ Block(f, i) = Slice(f, lo, hi)
    BY <2>2 DEF Block, lo, hi
  <2>6. ASSUME NEW k \in 1 .. hi - lo
        PROVE  Slice(f, lo, hi)[k] = Slice(g, lo, hi)[k]
    <3>1. Slice(g, lo, hi)[k] \in Byte
      BY <1>4, <2>4, <2>5, ElementOfSeq
    <3>2. lo + k \in 1 .. n
      BY <2>1, <1>1
    <3> QED BY <1>1, <2>3, <2>4, <3>1, <3>2, ApiAssumption
  <2> QED BY <2>3, <2>4, <2>5, <2>6, SeqEqual
<1> QED BY <1>3, <1>4 DEF Shows, g

\* Whatever the signature, the search makes a true delta.
LEMMA SearchedTruly ==
  ASSUME task \in Tasks, NEW a
  PROVE  Truly(Searched(a, task.old, task.new))
<1> DEFINE f == task.old
           d == task.new
           seen == AsSeen(a, f)
           known == Known(f)
<1>1. f \in Seq(Byte) /\ d \in Seq(Byte)
  BY TaskType
<1>2. Searched(a, f, d) = IF sig = None THEN Chunks(d, 0) ELSE SearchResult(seen, known, d)
  BY DEF Searched
<1>3. AreBlocks(f, known) /\ Shows(seen, f)
  BY <1>1, AsSeenShows DEF AreBlocks, Known
<1> HIDE DEF f, d, seen, known
<1>4. /\ Chunks(d, 0) \in Seq(Instruction)
      /\ Rebuilds(f, d, Chunks(d, 0), Len(d))
  BY <1>1, ChunksRebuild DEF Rebuilds
<1>5. /\ SearchResult(seen, known, d) \in Seq(Instruction)
      /\ Rebuilds(f, d, SearchResult(seen, known, d), Len(d))
  BY <1>1, <1>3, SeenRebuilds
<1>6. /\ Searched(a, f, d) \in Seq(Instruction)
      /\ Rebuilds(f, d, Searched(a, f, d), Len(d))
  BY <1>2, <1>4, <1>5
<1> QED BY <1>6 DEF Truly, f, d

LEMMA SearchKeeps ==
  ASSUME ClientInv, SearchPart
  PROVE  ClientInv'
<1>1. Due("search") /\ task' = task
  BY DEF SearchPart, Answered, Advance
<1>2. /\ task \in Tasks /\ task.op \in Ops /\ outcome = "none"
      /\ Follows(task.op, "search", Tail(todo))
      /\ Tail(todo) = << >> \/ Tail(todo) \in Left(task.op)
  BY <1>1, PartFollows
<1>3. CASE Unknown
  <2>1. Finish("unknown")
    BY <1>3 DEF SearchPart
  <2> QED BY <1>1, <1>2, <2>1, FailedKeeps
<1>4. CASE ~ Unknown
  <2>1. insts' = Searched(Algorithm, task.old, task.new) /\ NextPart
    BY <1>4 DEF SearchPart
  <2>2. Truly(insts')
    BY <1>2, <2>1, SearchedTruly
  <2>3. Rebuilds(task.old, task.new, insts', Len(task.new))
    BY <2>2 DEF Truly
  <2>4. Tail(todo) = << >> => task.op \notin {"ApplyDelta", "RoundTrip"}
    BY <1>2, ShortLists DEF Follows, Deltas
  <2> QED BY <1>1, <1>2, <2>1, <2>2, <2>3, <2>4, NextPartKeeps
<1> QED BY <1>3, <1>4

\* A true delta rebuilds the file it was made for.
LEMMA TrueDelta ==
  ASSUME task \in Tasks, Truly(insts)
  PROVE  FlattenSeq([k \in DOMAIN insts |-> Apply(task.old, insts[k])]) = task.new
<1> DEFINE f == task.old
           d == task.new
           t == insts
           g == Applied(f)
<1>1. f \in Seq(Byte) /\ d \in Seq(Byte) /\ t \in Seq(Instruction)
  BY TaskType DEF Truly
<1>2. Covers(f, d, t, 0, Len(d))
  BY DEF Truly, Rebuilds
<1>3. \A k \in DOMAIN t : t[k] \in Instruction
  BY <1>1
<1>4. Mapped(g, t) = [k \in DOMAIN t |-> Apply(f, t[k])]
  BY <1>3 DEF Mapped, Applied
<1>5. RebuiltFrom(f, t) = FlattenSeq([k \in DOMAIN t |-> Apply(f, t[k])])
  BY <1>4, Zenon DEF RebuiltFrom, FlatMap
<1> HIDE DEF f, d, t, g
<1>6. RebuiltFrom(f, t) = d
  BY <1>1, <1>2, CoversRebuilds
<1> QED BY <1>5, <1>6, Zenon DEF f, d, t

LEMMA RebuildKeeps ==
  ASSUME ClientInv, RebuildPart
  PROVE  ClientInv'
<1>1. Due("rebuild") /\ task' = task /\ insts' = insts
  BY DEF RebuildPart, Answered, Advance
<1>2. /\ task \in Tasks /\ task.op \in Ops /\ outcome = "none" /\ Head(todo) = "rebuild"
      /\ task.op \in {"ApplyDelta", "RoundTrip"} /\ Tail(todo) = << >>
  <2>1. /\ task \in Tasks /\ task.op \in Ops /\ outcome = "none" /\ Head(todo) = "rebuild"
        /\ Follows(task.op, "rebuild", Tail(todo))
    BY <1>1, PartFollows
  <2> QED BY <2>1 DEF Follows
<1>3. Truly(insts)
  BY <1>2, TaskType DEF ClientInv
<1>4. CASE Unknown
  <2>1. Finish("unknown")
    BY <1>4 DEF RebuildPart
  <2> QED BY <1>1, <1>2, <2>1, FailedKeeps
<1>5. CASE ~ Unknown
  <2>1. result' = task.new
    BY <1>2, <1>3, <1>5, TrueDelta DEF RebuildPart
  <2>2. NextPart
    BY <1>5, <2>1 DEF RebuildPart
  <2>3. Rebuilds(task.old, task.new, insts', Len(task.new))
    BY <1>1, <1>3 DEF Truly
  <2> QED BY <1>1, <1>2, <2>1, <2>2, <2>3, NextPartKeeps
<1> QED BY <1>4, <1>5

LEMMA ClientStepKeeps ==
  ASSUME ClientInv, ClientStep
  PROVE  ClientInv'
<1>1. CASE Ask
  <2>1. UNCHANGED << task, todo, insts, result, outcome >> /\ task # None
    BY <1>1 DEF Ask, partVars
  <2> QED BY <2>1 DEF ClientInv, RoundTripHolds, Truly
<1>2. ASSUME NEW part \in {"sign", "share", "receive", "hash", "verify"}, Due(part),
             task' = task,
             NextPart \/ \E err \in {"unknown", "panic", "wire", "unverified"} : Finish(err)
      PROVE  ClientInv'
  <2>1. task \in Tasks
    BY <1>2, PartFollows
  <2>2. CASE NextPart
    BY <1>2, <2>2, OtherPartKeeps
  <2>3. CASE \E err \in {"unknown", "panic", "wire", "unverified"} : Finish(err)
    BY <1>2, <2>1, <2>3, FailedKeeps
  <2> QED BY <1>2, <2>2, <2>3
<1>3. CASE Sign
  <2>1. /\ Due("sign") /\ task' = task
        /\ NextPart \/ Finish("panic")
    BY <1>3, Zenon DEF Sign, Answered, Advance
  <2> QED BY <1>2, <2>1
<1>4. CASE ShareOut
  <2>1. /\ Due("share") /\ task' = task
        /\ NextPart \/ Finish("panic") \/ Finish("unknown")
    BY <1>4, Zenon DEF ShareOut, Answered, Advance
  <2> QED BY <1>2, <2>1
<1>5. CASE Receive
  <2>1. /\ Due("receive") /\ task' = task
        /\ NextPart \/ Finish("wire")
    BY <1>5, Zenon DEF Receive, Advance
  <2> QED BY <1>2, <2>1
<1>6. CASE SearchPart
  BY <1>6, SearchKeeps
<1>7. CASE RebuildPart
  BY <1>7, RebuildKeeps
<1>8. CASE HashPart
  <2>1. /\ Due("hash") /\ task' = task
        /\ NextPart \/ Finish("unknown")
    BY <1>8, Zenon DEF HashPart, Answered, Advance
  <2> QED BY <1>2, <2>1
<1>9. CASE VerifyPart
  <2>1. /\ Due("verify") /\ task' = task
        /\ NextPart \/ Finish("unknown") \/ Finish("unverified")
    BY <1>9, Zenon DEF VerifyPart, Answered, Advance
  <2> QED BY <1>2, <2>1
<1> QED BY <1>1, <1>3, <1>4, <1>5, <1>6, <1>7, <1>8, <1>9 DEF ClientStep

LEMMA ShowsItself == ASSUME NEW f PROVE Shows(f, f)
BY DEF Shows

LEMMA BeginKeeps ==
  ASSUME ClientInv, NEW op \in Ops, NEW pair \in Pairs, NEW n \in Name, Begin(op, pair, n)
  PROVE  ClientInv'
<1>1. /\ task = None /\ outcome' = "none" /\ asked' = FALSE
      /\ task' = Task(op, pair, n) /\ task' \in Tasks
      /\ todo' = Parts(op, pair.old)
  BY DEF Begin, Tasks, ClientInv
<1>2. task'.op = op /\ task'.old = pair.old /\ task'.new = pair.new
  BY <1>1 DEF Task
<1>3. todo' \in Left(op)
  <2>1. op \in Deltas \cup {"ApplyDelta"} => todo' \in Left(op)
    BY <1>1 DEF Parts, Left, Deltas
  <2>2. op \in {"GenerateSignature", "GenerateSignatureParallel", "Verify"} => todo' \in Left(op)
    BY <1>1 DEF Parts, Left
  <2> QED BY <2>1, <2>2 DEF Ops, Deltas
<1>4. Head(todo') = "rebuild" => op = "ApplyDelta"
  BY <1>1, ShortLists DEF Parts, Ops
<1>5. op = "ApplyDelta" => Truly(insts)'
  <2> SUFFICES ASSUME op = "ApplyDelta" PROVE Truly(insts)'
    OBVIOUS
  <2> DEFINE f == pair.old
             d == pair.new
             known == Known(f)
  <2>1. insts' = SearchResult(f, known, d)
    BY DEF Begin
  <2>2. f \in Seq(Byte) /\ d \in Seq(Byte) /\ AreBlocks(f, known) /\ Shows(f, f)
    BY ApiAssumption, ShowsItself DEF AreBlocks, Known
  <2> HIDE DEF f, d, known
  <2>3. insts' \in Seq(Instruction) /\ Rebuilds(f, d, insts', Len(d))
    BY <2>1, <2>2, SeenRebuilds
  <2> QED BY <1>2, <2>3 DEF Truly, f, d
<1> QED BY <1>1, <1>2, <1>3, <1>4, <1>5 DEF ClientInv, RoundTripHolds

LEMMA ClientKeeps ==
  ASSUME ClientInv, [ApiNext]_apiVars
  PROVE  ClientInv'
<1>1. CASE UNCHANGED clientVars
  BY <1>1 DEF ClientInv, RoundTripHolds, Truly, clientVars, partVars
<1>2. CASE ClientStep
  BY <1>2, ClientStepKeeps
<1>3. ASSUME NEW op \in Ops, NEW pair \in Pairs, NEW n \in Name, Begin(op, pair, n)
      PROVE  ClientInv'
  BY <1>3, BeginKeeps
<1> QED BY <1>1, <1>2, <1>3, Zenon DEF ApiNext, RegistryStep, ApiRest, apiVars

\* Whatever is registered, or registered anew, while a convenience function runs,
\* and whatever vector unit made the signature: its delta rebuilds the new file,
\* and RoundTrip reports no mismatch (api.go:21, :69).
THEOREM RoundTripAlwaysHolds == ApiSpec => []RoundTripHolds
<1>1. ApiInit => ClientInv
  BY DEF ApiInit, ClientInv, RoundTripHolds
<1>2. ClientInv /\ [ApiNext]_apiVars => ClientInv'
  BY ClientKeeps
<1>3. ClientInv => RoundTripHolds
  BY DEF ClientInv
<1> QED BY <1>1, <1>2, <1>3, PTL DEF ApiSpec

\* Every call a convenience function makes is one the registry takes.
LEMMA ApiStepOfRegistry ==
  ASSUME ClientInv, [ApiNext]_apiVars
  PROVE  [Next]_vars
<1>1. ASSUME NEW p \in Goroutine, RegistryStep(p)
      PROVE  Next
  BY <1>1 DEF RegistryStep, Next
<1>2. ASSUME NEW p \in Goroutine \ {Client}, NEW c \in MayCall[p], Call(p, c)
      PROVE  Next
  <2>1. c \in Calls
    BY <1>2, ApiAssumption
  <2> QED BY <1>2, <2>1 DEF Next
<1>3. CASE Ask
  <2>1. task # None /\ task \in Tasks
    BY <1>3 DEF Ask, ClientInv
  <2>2. [op |-> "GetAlgo", name |-> task.name] \in Calls
    BY <2>1, TaskType DEF Calls
  <2>3. Call(Client, [op |-> "GetAlgo", name |-> task.name]) /\ Client \in Goroutine
    BY <1>3, ApiAssumption DEF Ask
  <2> QED BY <2>2, <2>3 DEF Next
<1>4. CASE UNCHANGED vars
  BY <1>4
<1>5. ClientStep => Ask \/ UNCHANGED vars
  BY Zenon DEF ClientStep, Sign, ShareOut, Receive, SearchPart, RebuildPart, HashPart,
               VerifyPart, Advance
<1>6. ASSUME NEW op, NEW pair, NEW n, Begin(op, pair, n)
      PROVE  UNCHANGED vars
  BY <1>6 DEF Begin
<1>7. ApiRest \/ UNCHANGED apiVars => UNCHANGED vars
  BY DEF ApiRest, apiVars
<1> QED BY <1>1, <1>2, <1>3, <1>4, <1>5, <1>6, <1>7, Zenon DEF ApiNext

\* The registry, and convenience functions that use it, behave as the registry
\* is specified: all of its theorems hold of the composition (registry.go).
THEOREM ApiUsesRegistry == ApiSpec => Spec
<1>1. ApiInit => Init /\ ClientInv
  BY DEF ApiInit, ClientInv, RoundTripHolds
<1>2. ClientInv /\ [ApiNext]_apiVars => [Next]_vars
  BY ApiStepOfRegistry
<1>3. ClientInv /\ [ApiNext]_apiVars => ClientInv'
  BY ClientKeeps
<1> QED BY <1>1, <1>2, <1>3, PTL DEF ApiSpec, Spec

\* The invariant of the registry holds while convenience functions use it.
THEOREM ApiRegistryInvariant == ApiSpec => []IInv
BY ApiUsesRegistry, RegistryInvariant, PTL

-----------------------------------------------------------------------------
(* A call that nobody disturbs *)

\* What is registered under the name, and what GetAlgo says of it.
Current == registry[task.name]
Reply == IF Current = None THEN "unknown" ELSE Current

\* Where a lookup is, and what it finds.
AskFits ==
  asked =>
    /\ stage[Client] = "idle" => answer[Client] = Reply
    /\ stage[Client] # "idle" =>
         /\ call[Client] = [op |-> "GetAlgo", name |-> task.name]
         /\ phase[Client] \in {"lookup", "list"}
         /\ phase[Client] = "list" => Current = None

SignedBy(a) == sig = [k \in 1 .. NumBlocks(task.old) |-> a]

FindsAll ==
  SignedAlike =>
    References(insts) = References(SearchResult(task.old, Known(task.old), task.new))

\* What the parts so far have left for the next one.
Ready(part) ==
  /\ part = "search" /\ Current # None =>
       IF task.op = "DeltaFromWire" THEN \E a \in Algo : SignedBy(a) ELSE SignedBy(Current)
  /\ part = "rebuild" /\ task.op = "RoundTrip" => FindsAll
  /\ part = "verify" => sum = << Current, task.new >>

UndisturbedInv ==
  task # None /\ Undisturbed =>
    /\ AskFits
    /\ outcome = "none" => Ready(Head(todo))
    /\ UndisturbedFindsAll

FullInv == IInv /\ ClientInv /\ Client \in DOMAIN answer /\ UndisturbedInv

LEMMA CurrentType ==
  ASSUME IInv, task \in Tasks
  PROVE  Current \in Algo \cup {None}
BY TaskType DEF IInv, StoreType, Current

\* A step of the registry moves the client's lookup on, and finds what is there.
LEMMA LookupKeeps ==
  ASSUME FullInv, task \in Tasks, AskFits, NEW p \in Goroutine, Step(p), UNCHANGED clientVars,
         Current' = Current
  PROVE  AskFits'
<1> SUFFICES ASSUME asked PROVE AskFits'
  BY DEF clientVars, AskFits
<1>0. /\ Client \in Goroutine /\ StoreType /\ task' = task /\ Client \in DOMAIN answer
      /\ Reply' = Reply
  BY ApiAssumption DEF FullInv, IInv, clientVars, Reply
<1>1. CASE RLock(p) \/ Lock(p) \/ LockDone(p)
  <2>1. UNCHANGED << call, phase, answer >>
    BY <1>1 DEF RLock, Lock, LockDone
  <2>2. stage'[Client] = "idle" <=> stage[Client] = "idle"
    BY <1>0, <1>1 DEF RLock, Lock, LockDone, StoreType
  <2> QED BY <1>0, <2>1, <2>2 DEF AskFits
<1>2. CASE Store(p)
  <2>1. UNCHANGED << call, phase >> /\ phase[p] = "store" /\ stage[p] = "hold"
    BY <1>2 DEF Store
  <2>2. p # Client
    BY <2>1 DEF AskFits
  <2>3. stage'[Client] = "idle" <=> stage[Client] = "idle"
    BY <1>0, <1>2, <2>2 DEF Store, Waiting
  <2>4. answer'[Client] = answer[Client]
    BY <1>0, <1>2, <2>2 DEF Store
  <2> QED BY <1>0, <2>1, <2>3, <2>4 DEF AskFits
<1>3. CASE (Lookup(p) \/ List(p) \/ ReadDefault(p)) /\ p # Client
  <2>1. /\ call' = call /\ phase'[Client] = phase[Client]
        /\ stage'[Client] = stage[Client] /\ answer'[Client] = answer[Client]
    BY <1>0, <1>3 DEF Lookup, Looked, Proceed, Return, List, ReadDefault, StoreType
  <2> QED BY <1>0, <2>1 DEF AskFits
<1>4. CASE Lookup(Client)
  <2>1. /\ call[Client] = [op |-> "GetAlgo", name |-> task.name]
        /\ call' = call
    BY <1>4 DEF Lookup, AskFits
  <2>2. CASE Current # None
    <3>1. /\ stage' = [stage EXCEPT ![Client] = "idle"]
          /\ answer' = [answer EXCEPT ![Client] = Current]
      BY <1>4, <2>1, <2>2 DEF Lookup, Looked, Return, Registered, Current
    <3>2. stage'[Client] = "idle" /\ answer'[Client] = Current
      BY <1>0, <3>1 DEF StoreType
    <3> QED BY <1>0, <2>2, <3>2 DEF AskFits, Reply
  <2>3. CASE Current = None
    <3>1. /\ stage' = [stage EXCEPT ![Client] = "want"]
          /\ phase' = [phase EXCEPT ![Client] = "list"]
      BY <1>4, <2>1, <2>3 DEF Lookup, Looked, Proceed, Registered, Current
    <3>2. stage'[Client] = "want" /\ phase'[Client] = "list"
      BY <1>0, <3>1 DEF StoreType
    <3> QED BY <1>0, <2>1, <2>3, <3>2 DEF AskFits
  <2> QED BY <2>2, <2>3
<1>5. CASE List(Client)
  <2>1. Current = None /\ call[Client].op = "GetAlgo"
    BY <1>5 DEF List, AskFits
  <2>2. stage'[Client] = "idle" /\ answer'[Client] = "unknown"
    BY <1>0, <1>5, <2>1 DEF List, Return, StoreType
  <2> QED BY <1>0, <2>1, <2>2 DEF AskFits, Reply
<1>6. CASE ReadDefault(Client)
  BY <1>6 DEF ReadDefault, AskFits
<1> QED BY <1>1, <1>2, <1>3, <1>4, <1>5, <1>6 DEF Step

LEMMA UndisturbedBefore ==
  ASSUME task # None, UNCHANGED << width, task >>,
         stable' = (stable /\ (task # None => registry'[task.name] = registry[task.name])),
         Undisturbed'
  PROVE  Undisturbed /\ Current' = Current
BY DEF Undisturbed, Current, Vectors

LEMMA RegistryStepUndisturbed ==
  ASSUME FullInv, NEW p \in Goroutine, RegistryStep(p)
  PROVE  UndisturbedInv'
<1> SUFFICES ASSUME task # None, Undisturbed' PROVE UndisturbedInv'
  BY DEF UndisturbedInv, RegistryStep, clientVars
<1>1. /\ Step(p) /\ UNCHANGED << width, task, outcome, todo, sig, insts, sum, result >>
      /\ UNCHANGED clientVars /\ task \in Tasks
      /\ stable' = (stable /\ (task # None => registry'[task.name] = registry[task.name]))
  BY DEF RegistryStep, clientVars, partVars, FullInv, ClientInv
<1>2. Undisturbed /\ Current' = Current
  BY <1>1, UndisturbedBefore
<1>3. AskFits /\ (outcome = "none" => Ready(Head(todo))) /\ UndisturbedFindsAll
  BY <1>2 DEF FullInv, UndisturbedInv
<1>4. AskFits'
  BY <1>1, <1>2, <1>3, LookupKeeps
<1>5. SignedAlike' <=> SignedAlike
  BY <1>1, <1>2 DEF SignedAlike, Current
<1>6. (outcome = "none" => Ready(Head(todo)))'
  BY <1>1, <1>2, <1>3, <1>5 DEF Ready, SignedBy, FindsAll
<1>7. UndisturbedFindsAll'
  BY <1>1, <1>2, <1>3, <1>5 DEF UndisturbedFindsAll
<1> QED BY <1>4, <1>6, <1>7 DEF UndisturbedInv

\* Steps of others that leave the registry alone, and those that ask it.
LEMMA CallUndisturbed ==
  ASSUME FullInv, NEW p \in Goroutine, NEW c, Call(p, c),
         UNCHANGED << width, task, todo, partVars, outcome, stable >>,
         \/ p # Client /\ asked' = asked
         \/ p = Client /\ c = [op |-> "GetAlgo", name |-> task.name]
  PROVE  UndisturbedInv'
<1> SUFFICES ASSUME task # None, Undisturbed' PROVE UndisturbedInv'
  BY DEF UndisturbedInv
<1>1. /\ UNCHANGED << width, task, todo, sig, insts, sum, result, outcome, stable >>
      /\ registry' = registry
  BY DEF Call, partVars
<1>2. Undisturbed /\ Current' = Current
  BY <1>1 DEF Undisturbed, Current, Vectors
<1>3. AskFits /\ (outcome = "none" => Ready(Head(todo))) /\ UndisturbedFindsAll
  BY <1>2 DEF FullInv, UndisturbedInv
<1>4. AskFits'
  <2>1. /\ call' = [call EXCEPT ![p] = c] /\ stage' = [stage EXCEPT ![p] = "want"]
        /\ phase' = [phase EXCEPT ![p] = FirstPhase(c)]
        /\ answer' = [answer EXCEPT ![p] = "none"]
        /\ StoreType /\ Client \in Goroutine /\ Reply' = Reply
    BY <1>2, ApiAssumption DEF Call, FullInv, IInv, Reply
  <2>2. CASE p # Client /\ asked' = asked
    <3>1. /\ call'[Client] = call[Client] /\ stage'[Client] = stage[Client]
          /\ phase'[Client] = phase[Client] /\ answer'[Client] = answer[Client]
      BY <2>1, <2>2 DEF FullInv, StoreType
    <3> QED BY <1>1, <1>2, <1>3, <2>1, <2>2, <3>1 DEF AskFits
  <2>3. CASE p = Client /\ c = [op |-> "GetAlgo", name |-> task.name]
    <3>1. call'[Client] = c /\ stage'[Client] = "want" /\ phase'[Client] = "lookup"
      BY <2>1, <2>3 DEF StoreType, FirstPhase
    <3> QED BY <1>1, <2>3, <3>1 DEF AskFits
  <2> QED BY <2>2, <2>3
<1>5. SignedAlike' <=> SignedAlike
  BY <1>1 DEF SignedAlike
<1>6. (outcome = "none" => Ready(Head(todo)))'
  BY <1>1, <1>2, <1>3, <1>5 DEF Ready, SignedBy, FindsAll
<1>7. UndisturbedFindsAll'
  BY <1>1, <1>2, <1>3, <1>5 DEF UndisturbedFindsAll
<1> QED BY <1>4, <1>6, <1>7 DEF UndisturbedInv

LEMMA BeginUndisturbed ==
  ASSUME FullInv, NEW op \in Ops, NEW pair \in Pairs, NEW n \in Name, Begin(op, pair, n)
  PROVE  UndisturbedInv'
<1>1. /\ task = None /\ outcome' = "none" /\ asked' = FALSE
      /\ task' = Task(op, pair, n) /\ todo' = Parts(op, pair.old)
  BY DEF Begin, FullInv, ClientInv
<1>2. task'.op = op
  BY <1>1 DEF Task
<1>3. /\ Head(todo') \notin {"search", "verify"}
      /\ Head(todo') = "rebuild" => op = "ApplyDelta"
  BY <1>1, ShortLists DEF Parts, Ops
<1>4. Ready(Head(todo))'
  BY <1>2, <1>3 DEF Ready
<1> QED BY <1>1, <1>4 DEF UndisturbedInv, AskFits, UndisturbedFindsAll

-----------------------------------------------------------------------------
(* The parts of a call that nobody disturbs *)

\* What a part must have done, with todo still to come.
Achieved ==
  /\ todo # << >> => Ready(Head(todo))
  /\ todo = << >> /\ task.op \in Deltas => FindsAll
  /\ todo = << >> /\ task.op = "Verify" => result = task.new

LEMMA NextPartUndisturbed ==
  ASSUME Advance, NextPart, Achieved'
  PROVE  UndisturbedInv'
<1>1. ~ asked' /\ todo' = Tail(todo)
  BY DEF Advance, NextPart
<1>2. AskFits'
  BY <1>1 DEF AskFits
<1>3. CASE todo' = << >>
  <2>1. outcome' = "ok"
    BY <1>1, <1>3 DEF NextPart
  <2>2. UndisturbedFindsAll'
    BY <1>3, <2>1 DEF UndisturbedFindsAll, Achieved, FindsAll
  <2> QED BY <1>2, <2>1, <2>2 DEF UndisturbedInv
<1>4. CASE todo' # << >>
  <2>1. outcome' = "none" /\ Ready(Head(todo))'
    BY <1>1, <1>4 DEF NextPart, Achieved
  <2>2. UndisturbedFindsAll'
    BY <2>1 DEF UndisturbedFindsAll
  <2> QED BY <1>2, <2>1, <2>2 DEF UndisturbedInv
<1> QED BY <1>3, <1>4

LEMMA FailedUndisturbed ==
  ASSUME Advance, NEW err, Finish(err), err \notin {"ok", "none"},
         task.op = "Verify" => err = "unknown" \/ result' # task.new
  PROVE  UndisturbedInv'
<1>1. ~ asked' /\ task' = task /\ outcome' = err
  BY DEF Advance, Finish
<1>2. AskFits' /\ outcome' # "none" /\ outcome' # "ok"
  BY <1>1 DEF AskFits
<1>3. task.op = "Verify" /\ outcome' # "unknown" => result' # task.new
  BY <1>1
<1>4. UndisturbedFindsAll'
  BY <1>1, <1>2, <1>3 DEF UndisturbedFindsAll
<1> QED BY <1>2, <1>4 DEF UndisturbedInv

\* The answer that a part goes by.
LEMMA AnswerKnown ==
  ASSUME FullInv, Undisturbed, NEW part, Answered(part)
  PROVE  /\ Due(part) /\ task \in Tasks /\ task # None
         /\ Unknown <=> Current = None
         /\ ~ Unknown => Algorithm = Current /\ Current \in Algo
<1>1. Due(part) /\ task \in Tasks /\ task # None /\ IInv
  BY DEF Answered, Due, FullInv, ClientInv
<1>2. answer[Client] = Reply
  BY <1>1 DEF FullInv, UndisturbedInv, AskFits, Answered
<1>3. Current \in Algo \cup {None}
  BY <1>1, CurrentType
<1> QED BY <1>1, <1>2, <1>3, ApiAssumption DEF Reply, Unknown, Algorithm

\* An engine with the algorithm of the signature recognises every block.
LEMMA AllSeen ==
  ASSUME task \in Tasks, NEW a \in Algo, SignedBy(a)
  PROVE  Searched(a, task.old, task.new)
           = SearchResult(task.old, Known(task.old), task.new)
<1> DEFINE f == task.old
           n == Len(f)
           N == NumBlocks(f)
<1>1. f \in Seq(Byte) /\ n \in Nat /\ DOMAIN f = 1 .. n /\ N \in Nat /\ n <= N * BlockSize
  <2>1. f \in Seq(Byte)
    BY TaskType
  <2> HIDE DEF f
  <2>2. n \in Nat /\ DOMAIN f = 1 .. n
    BY <2>1, LenProperties
  <2> HIDE DEF n
  <2>3. N = (n + BlockSize - 1) \div BlockSize
    BY DEF NumBlocks, n
  <2> QED BY <2>1, <2>2, <2>3, RoundedDivision, BlockSizeAssumption
<1>2. sig # None
  BY TaskType DEF SignedBy
<1> HIDE DEF n, N
<1>3. ASSUME NEW p \in 1 .. n
      PROVE  (p - 1) \div BlockSize + 1 \in 1 .. N
  <2> DEFINE q == (p - 1) \div BlockSize
  <2>1. q \in Nat /\ q * BlockSize <= p - 1
    BY <1>1, BlockSizeAssumption
  <2> HIDE DEF q
  <2>2. ~ N <= q
    <3> SUFFICES ASSUME N <= q PROVE FALSE
      OBVIOUS
    <3>1. N * BlockSize <= q * BlockSize
      BY <1>1, <2>1, ScaleMonotone, BlockSizeAssumption
    <3>2. q * BlockSize \in Int /\ N * BlockSize \in Int
      BY <1>1, <2>1, BlockSizeAssumption
    <3> QED BY <1>1, <2>1, <3>1, <3>2
  <2> QED BY <1>1, <2>1, <2>2 DEF q
<1>4. sig = [k \in 1 .. N |-> a]
  BY DEF SignedBy, N
<1>5. AsSeen(a, f) = f
  <2> HIDE DEF f
  <2>1. \A p \in DOMAIN f : sig[(p - 1) \div BlockSize + 1] = a
    BY <1>1, <1>3, <1>4
  <2>2. AsSeen(a, f) = [p \in DOMAIN f |-> f[p]]
    BY <2>1 DEF AsSeen
  <2> QED BY <1>1, <2>2
<1> QED BY <1>2, <1>5 DEF Searched

\* Where the vector unit computes what is registered, all blocks are signed by it.
LEMMA HashedCurrent ==
  ASSUME Undisturbed, NEW f, NEW k, NEW lo, NEW hi
  PROVE  HashedWith(f, Current, k, lo, hi) = Current
BY DEF Undisturbed, HashedWith, Current

LEMMA Heads ==
  /\ Head(<< "search" >>) = "search" /\ Head(<< "search", "rebuild" >>) = "search"
  /\ Head(<< "rebuild" >>) = "rebuild" /\ Head(<< "verify" >>) = "verify"
BY ShortLists

LEMMA SignUndisturbed ==
  ASSUME FullInv, Undisturbed, Sign
  PROVE  UndisturbedInv'
<1>1. Answered("sign") /\ Advance /\ UNCHANGED << registry, task, insts, result, sum >>
  BY Zenon DEF Sign, Advance, vars
<1>2. /\ Due("sign") /\ task \in Tasks
      /\ Unknown <=> Current = None
      /\ ~ Unknown => Algorithm = Current
  BY <1>1, AnswerKnown
<1>3. Follows(task.op, "sign", Tail(todo))
  BY <1>2, PartFollows DEF FullInv
<1>4. Current' = Current
  BY <1>1 DEF Current
<1>5. CASE Finish("panic")
  <2>1. task.op # "Verify"
    BY <1>3 DEF Follows
  <2> QED BY <1>1, <1>5, <2>1, FailedUndisturbed
<1>6. CASE NextPart /\ (~ Unknown => sig' = [k \in 1 .. NumBlocks(task.old) |->
                          HashedWith(task.old, Algorithm, k - 1, 0, NumBlocks(task.old))])
  <2>1. todo' = Tail(todo) /\ task' = task
    BY <1>1, <1>6 DEF NextPart
  <2>2. ~ Unknown => SignedBy(Current)'
    <3> SUFFICES ASSUME ~ Unknown PROVE SignedBy(Current)'
      OBVIOUS
    <3>1. \A k \in 1 .. NumBlocks(task.old) :
            HashedWith(task.old, Current, k - 1, 0, NumBlocks(task.old)) = Current
      BY HashedCurrent
    <3>2. sig' = [k \in 1 .. NumBlocks(task.old) |-> Current]
      BY <1>2, <1>6, <3>1
    <3> QED BY <1>4, <2>1, <3>2 DEF SignedBy
  <2>3. \/ todo' \in { << "search" >>, << "search", "rebuild" >> } /\ task.op # "DeltaFromWire"
        \/ todo' = << >> /\ task.op \notin Deltas \cup {"Verify"}
    BY <1>3, <2>1 DEF Follows, Deltas
  <2>4. todo' # << >> => Head(todo') = "search" /\ task'.op # "DeltaFromWire"
    BY <2>1, <2>3, Heads
  <2>5. todo' # << >> => Ready(Head(todo))'
    BY <1>2, <1>4, <2>2, <2>4 DEF Ready
  <2>6. Achieved'
    BY <2>1, <2>3, <2>4, <2>5 DEF Achieved
  <2> QED BY <1>1, <1>6, <2>6, NextPartUndisturbed
<1> QED BY <1>5, <1>6, Zenon DEF Sign

LEMMA ShareUndisturbed ==
  ASSUME FullInv, Undisturbed, ShareOut
  PROVE  UndisturbedInv'
<1>1. Answered("share") /\ Advance
  BY Zenon DEF ShareOut
<1>2. Follows(task.op, "share", Tail(todo))
  BY <1>1, PartFollows DEF FullInv, Answered
<1>3. task.op = "GenerateSignatureParallel" /\ Tail(todo) = << >>
  BY <1>2 DEF Follows
<1>4. CASE \E err \in {"unknown", "panic"} : Finish(err)
  BY <1>1, <1>3, <1>4, FailedUndisturbed
<1>5. CASE NextPart
  <2>1. todo' = << >> /\ task' = task
    BY <1>1, <1>3, <1>5 DEF NextPart, Advance
  <2>2. Achieved'
    BY <1>3, <2>1 DEF Achieved, Deltas
  <2> QED BY <1>1, <1>5, <2>2, NextPartUndisturbed
<1>6. NextPart \/ Finish("unknown") \/ Finish("panic")
  BY Zenon DEF ShareOut
<1> QED BY <1>4, <1>5, <1>6

LEMMA ReceiveUndisturbed ==
  ASSUME FullInv, Undisturbed, Receive
  PROVE  UndisturbedInv'
<1>1. Due("receive") /\ Advance
  BY Zenon DEF Receive
<1>2. Follows(task.op, "receive", Tail(todo))
  BY <1>1, PartFollows DEF FullInv
<1>3. task.op = "DeltaFromWire" /\ Tail(todo) = << "search" >>
  BY <1>2 DEF Follows
<1>4. CASE Finish("wire")
  BY <1>1, <1>3, <1>4, FailedUndisturbed
<1>5. ASSUME NEW a \in Algo, sig' = [k \in 1 .. NumBlocks(task.old) |-> a], NextPart
      PROVE  UndisturbedInv'
  <2>1. todo' = << "search" >> /\ task' = task
    BY <1>1, <1>3, <1>5 DEF NextPart, Advance
  <2>2. SignedBy(a)'
    BY <1>5, <2>1 DEF SignedBy
  <2>3. (\E b \in Algo : SignedBy(b))'
    BY <2>2
  <2>4. Ready("search")'
    BY <1>3, <2>1, <2>3 DEF Ready
  <2>5. Achieved'
    BY <2>1, <2>4, Heads DEF Achieved
  <2> QED BY <1>1, <1>5, <2>5, NextPartUndisturbed
<1> QED BY <1>4, <1>5, Zenon DEF Receive

LEMMA SearchUndisturbed ==
  ASSUME FullInv, Undisturbed, SearchPart
  PROVE  UndisturbedInv'
<1>1. Answered("search") /\ Advance /\ sig' = sig /\ task' = task /\ registry' = registry
  BY Zenon DEF SearchPart, Advance, vars
<1>2. /\ Due("search") /\ task \in Tasks /\ task # None /\ outcome = "none"
      /\ ~ Unknown => Algorithm = Current /\ Current \in Algo
  BY <1>1, AnswerKnown DEF Due
<1>3. Follows(task.op, "search", Tail(todo))
  BY <1>2, PartFollows DEF FullInv
<1>4. task.op \in Deltas /\ (Tail(todo) = << "rebuild" >> \/ Tail(todo) = << >>)
  BY <1>3 DEF Follows
<1>5. CASE Unknown
  <2>1. Finish("unknown")
    BY <1>5 DEF SearchPart
  <2> QED BY <1>1, <1>4, <2>1, FailedUndisturbed
<1>6. CASE ~ Unknown
  <2>1. insts' = Searched(Current, task.old, task.new) /\ NextPart
    BY <1>2, <1>6 DEF SearchPart
  <2>2. Ready("search") /\ Current # None
    BY <1>2, <1>6, RegistryAssumption DEF FullInv, UndisturbedInv, Due
  <2>3. SignedAlike => SignedBy(Current)
    <3> SUFFICES ASSUME SignedAlike, task.op = "DeltaFromWire" PROVE SignedBy(Current)
      BY <2>2 DEF Ready
    <3>1. PICK a \in Algo : SignedBy(a)
      BY <2>2 DEF Ready
    <3>2. DOMAIN sig = 1 .. NumBlocks(task.old) /\ \A k \in DOMAIN sig : sig[k] = a
      BY <3>1 DEF SignedBy
    <3>3. \A k \in 1 .. NumBlocks(task.old) : Current = a
      BY <3>2 DEF SignedAlike, Current
    <3> QED BY <3>1, <3>3 DEF SignedBy
  <2>4. SignedAlike =>
          insts' = SearchResult(task.old, Known(task.old), task.new)
    BY <1>2, <1>6, <2>1, <2>3, AllSeen
  <2>5. SignedAlike' <=> SignedAlike
    BY <1>1 DEF SignedAlike
  <2>6. FindsAll'
    BY <1>1, <2>4, <2>5 DEF FindsAll
  <2>7. todo' = Tail(todo)
    BY <2>1 DEF NextPart
  <2>8. Ready("rebuild")'
    BY <2>6 DEF Ready
  <2>9. Achieved'
    <3>1. todo' # << >> => Ready(Head(todo))'
      BY <1>4, <2>7, <2>8, Heads
    <3>2. task'.op # "Verify"
      BY <1>1, <1>4 DEF Deltas
    <3> QED BY <2>6, <3>1, <3>2 DEF Achieved
  <2> QED BY <1>1, <2>1, <2>9, NextPartUndisturbed
<1> QED BY <1>5, <1>6

LEMMA RebuildUndisturbed ==
  ASSUME FullInv, Undisturbed, RebuildPart
  PROVE  UndisturbedInv'
<1>1. Answered("rebuild") /\ Advance /\ UNCHANGED << registry, task, sig, insts >>
  BY Zenon DEF RebuildPart, Advance, vars
<1>2. Due("rebuild") /\ outcome = "none" /\ task # None /\ task \in Tasks
  BY <1>1, AnswerKnown DEF Due
<1>3. Follows(task.op, "rebuild", Tail(todo))
  BY <1>2, PartFollows DEF FullInv
<1>4. task.op \in {"ApplyDelta", "RoundTrip"} /\ Tail(todo) = << >>
  BY <1>3 DEF Follows
<1>5. CASE \E err \in {"unknown", "mismatch"} : Finish(err)
  BY <1>1, <1>4, <1>5, FailedUndisturbed
<1>6. CASE NextPart
  <2>1. todo' = << >>
    BY <1>4, <1>6 DEF NextPart
  <2>2. task.op = "RoundTrip" => FindsAll
    BY <1>2 DEF FullInv, UndisturbedInv, Ready, Due
  <2>3. SignedAlike' <=> SignedAlike
    BY <1>1 DEF SignedAlike
  <2>4. task'.op \in Deltas => FindsAll'
    BY <1>1, <1>4, <2>2, <2>3 DEF FindsAll, Deltas
  <2>5. Achieved'
    BY <1>1, <1>4, <2>1, <2>4 DEF Achieved
  <2> QED BY <1>1, <1>6, <2>5, NextPartUndisturbed
<1>7. NextPart \/ Finish("unknown") \/ Finish("mismatch")
  BY Zenon DEF RebuildPart
<1> QED BY <1>5, <1>6, <1>7

LEMMA HashUndisturbed ==
  ASSUME FullInv, Undisturbed, HashPart
  PROVE  UndisturbedInv'
<1>1. Answered("hash") /\ Advance /\ UNCHANGED << registry, task >>
  BY Zenon DEF HashPart, Advance, vars
<1>2. /\ Due("hash") /\ task # None /\ task \in Tasks
      /\ ~ Unknown => Algorithm = Current
  BY <1>1, AnswerKnown
<1>3. Follows(task.op, "hash", Tail(todo))
  BY <1>2, PartFollows DEF FullInv
<1>4. Tail(todo) = << "verify" >>
  BY <1>3 DEF Follows
<1>5. CASE Unknown
  <2>1. Finish("unknown")
    BY <1>5 DEF HashPart
  <2> QED BY <1>1, <2>1, FailedUndisturbed
<1>6. CASE ~ Unknown
  <2>1. sum' = << Current, task.new >> /\ NextPart
    BY <1>2, <1>6 DEF HashPart
  <2>2. todo' = << "verify" >>
    BY <1>4, <2>1 DEF NextPart
  <2>3. Current' = Current
    BY <1>1 DEF Current
  <2>4. Ready("verify")'
    BY <1>1, <2>1, <2>3 DEF Ready
  <2>5. Achieved'
    BY <2>2, <2>4, Heads DEF Achieved
  <2> QED BY <1>1, <2>1, <2>5, NextPartUndisturbed
<1> QED BY <1>5, <1>6

LEMMA VerifyUndisturbed ==
  ASSUME FullInv, Undisturbed, VerifyPart
  PROVE  UndisturbedInv'
<1>1. Answered("verify") /\ Advance /\ UNCHANGED << task, result >>
  BY Zenon DEF VerifyPart, Advance, partVars
<1>2. /\ Due("verify") /\ outcome = "none" /\ task # None /\ task \in Tasks
      /\ ~ Unknown => Algorithm = Current
  BY <1>1, AnswerKnown DEF Due
<1>3. Follows(task.op, "verify", Tail(todo))
  BY <1>2, PartFollows DEF FullInv
<1>4. task.op = "Verify" /\ Tail(todo) = << >>
  BY <1>3 DEF Follows
<1>5. sum = << Current, task.new >>
  BY <1>2 DEF FullInv, UndisturbedInv, Ready, Due
<1>6. CASE Unknown
  <2>1. Finish("unknown")
    BY <1>6 DEF VerifyPart
  <2> QED BY <1>1, <2>1, FailedUndisturbed
<1>7. CASE ~ Unknown
  <2>1. << Algorithm, result >> = sum <=> result = task.new
    BY <1>2, <1>5, <1>7
  <2>2. CASE result = task.new
    <3>1. NextPart
      BY <1>7, <2>1, <2>2 DEF VerifyPart
    <3>2. todo' = << >>
      BY <1>4, <3>1 DEF NextPart
    <3>3. Achieved'
      BY <1>1, <1>4, <2>2, <3>2 DEF Achieved, Deltas
    <3> QED BY <1>1, <3>1, <3>3, NextPartUndisturbed
  <2>3. CASE result # task.new
    <3>1. Finish("unverified") /\ result' # task.new
      BY <1>1, <1>7, <2>1, <2>3 DEF VerifyPart
    <3> QED BY <1>1, <3>1, FailedUndisturbed
  <2> QED BY <2>2, <2>3
<1> QED BY <1>6, <1>7

LEMMA ApiInitFull == ApiInit => FullInv
<1> SUFFICES ASSUME ApiInit PROVE FullInv
  OBVIOUS
<1>1. IInv /\ ClientInv
  BY InitIInv DEF ApiInit, ClientInv, RoundTripHolds
<1>2. Client \in DOMAIN answer
  BY ApiAssumption DEF ApiInit, Init
<1>3. UndisturbedInv
  BY DEF ApiInit, UndisturbedInv
<1> QED BY <1>1, <1>2, <1>3 DEF FullInv

LEMMA AnswerDomain ==
  ASSUME [Next]_vars
  PROVE  DOMAIN answer' = DOMAIN answer
<1>1. ASSUME NEW p \in Goroutine, Step(p)
      PROVE  DOMAIN answer' = DOMAIN answer
  BY <1>1 DEF Step, RLock, Lock, LockDone, Lookup, Looked, Proceed, Return, List, ReadDefault,
              Store
<1>2. ASSUME NEW p \in Goroutine, NEW c \in Calls, Call(p, c)
      PROVE  DOMAIN answer' = DOMAIN answer
  BY <1>2 DEF Call
<1>3. CASE Rest \/ UNCHANGED vars
  BY <1>3 DEF Rest, vars, localVars
<1> QED BY <1>1, <1>2, <1>3 DEF Next

LEMMA ClientStepUndisturbed ==
  ASSUME FullInv, ClientStep
  PROVE  UndisturbedInv'
<1>1. CASE Ask
  <2>1. Call(Client, [op |-> "GetAlgo", name |-> task.name]) /\ Client \in Goroutine
    BY <1>1, ApiAssumption DEF Ask
  <2>2. UNCHANGED << width, task, todo, partVars, outcome, stable >>
    BY <1>1 DEF Ask
  <2> QED BY <2>1, <2>2, CallUndisturbed
<1>2. ASSUME Advance, ~ Ask PROVE UndisturbedInv'
  <2>1. Undisturbed' <=> Undisturbed
    BY <1>2 DEF Advance, Undisturbed, Vectors, vars
  <2>2. CASE ~ Undisturbed'
    BY <2>2 DEF UndisturbedInv
  <2>3. CASE Undisturbed
    BY <1>2, <2>3, SignUndisturbed, ShareUndisturbed, ReceiveUndisturbed, SearchUndisturbed,
       RebuildUndisturbed, HashUndisturbed, VerifyUndisturbed DEF ClientStep
  <2> QED BY <2>1, <2>2, <2>3
<1>3. Ask \/ Advance
  BY Zenon DEF ClientStep, Sign, ShareOut, Receive, SearchPart, RebuildPart, HashPart,
               VerifyPart
<1> QED BY <1>1, <1>2, <1>3

LEMMA FullKeeps ==
  ASSUME FullInv, [ApiNext]_apiVars
  PROVE  FullInv'
<1>1. [Next]_vars
  BY ApiStepOfRegistry DEF FullInv
<1>2. IInv' /\ ClientInv' /\ Client \in DOMAIN answer'
  BY <1>1, NextKeeps, ClientKeeps, AnswerDomain DEF FullInv
<1>3. UndisturbedInv'
  <2>1. ASSUME NEW p \in Goroutine, RegistryStep(p) PROVE UndisturbedInv'
    BY <2>1, RegistryStepUndisturbed
  <2>2. ASSUME NEW p \in Goroutine \ {Client}, NEW c \in MayCall[p], Call(p, c),
               UNCHANGED << clientVars, stable >>
        PROVE  UndisturbedInv'
    <3>1. UNCHANGED << width, task, todo, partVars, outcome, stable >> /\ asked' = asked
      BY <2>2 DEF clientVars
    <3> QED BY <2>2, <3>1, CallUndisturbed
  <2>3. ASSUME NEW op \in Ops, NEW pair \in Pairs, NEW n \in Name, Begin(op, pair, n)
        PROVE  UndisturbedInv'
    BY <2>3, BeginUndisturbed
  <2>4. CASE ClientStep
    BY <2>4, ClientStepUndisturbed
  <2>5. CASE UNCHANGED apiVars
    BY <2>5 DEF FullInv, UndisturbedInv, AskFits, Reply, Current, Ready, SignedBy, FindsAll,
                SignedAlike, Undisturbed, Vectors, UndisturbedFindsAll, apiVars, vars,
                localVars, clientVars, partVars
  <2> QED BY <2>1, <2>2, <2>3, <2>4, <2>5, Zenon DEF ApiNext, ApiRest
<1> QED BY <1>2, <1>3 DEF FullInv

\* The inductive invariant of the registry and a convenience function's call.
THEOREM ApiInvariant == ApiSpec => []FullInv
<1>1. FullInv /\ [ApiNext]_apiVars => FullInv'
  BY FullKeeps
<1> QED BY ApiInitFull, <1>1, PTL DEF ApiSpec

\* A call whose name keeps its algorithm, though it looks it up for each part
\* anew, finds all the matches there are, and Verify accepts the right file and
\* no other (api.go:21, reconstruct.go:113).
THEOREM UndisturbedCallsFindAll == ApiSpec => []UndisturbedFindsAll
<1>1. FullInv => UndisturbedFindsAll
  BY DEF FullInv, ClientInv, UndisturbedInv, UndisturbedFindsAll
<1> QED BY ApiInvariant, <1>1, PTL
=============================================================================
