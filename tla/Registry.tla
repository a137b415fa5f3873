------------------------------- MODULE Registry -------------------------------
(***************************************************************************)
(* The registry of checksum algorithms (registry.go): a map and a default  *)
(* name behind one sync.RWMutex, used by goroutines that call Register,    *)
(* GetAlgo, ListAlgos, SetDefault and GetDefault.  MustGet and NewHash are *)
(* GetAlgo and a step of the caller's own; module Api has such callers.    *)
(*                                                                         *)
(* A step takes a lock, or does what is done under it and gives it back.   *)
(* The mutex is modelled as Go's: a writer that waits keeps new readers    *)
(* out, and lets the readers that wait go first when it unlocks.           *)
(***************************************************************************)
EXTENDS Naturals, FiniteSets

CONSTANTS
  Goroutine,   \* the callers
  Name,        \* names of algorithms
  Algo,        \* algorithms, as far as they differ under one name
  Stdlib,      \* what init registers, by name
  Default,     \* the default algorithm, md5 in the code
  MaxCalls,    \* bound: the calls of each goroutine
  None

ASSUME RegistryAssumption ==
  /\ DOMAIN Stdlib \subseteq Name /\ Default \in DOMAIN Stdlib
  /\ \A n \in DOMAIN Stdlib : Stdlib[n] \in Algo
  /\ None \notin Goroutine \cup Algo
  /\ MaxCalls \in [Goroutine -> Nat]

VARIABLES
  registry,     \* registry: what is registered under each name, or None
  defaultAlgo,  \* defaultAlgo
  call,         \* what each goroutine has called
  stage,        \* "idle", or "want", "wait" or "hold" a lock
  phase,        \* what it is locked for
  answer,       \* what the last call returned
  calls,        \* calls each goroutine has made
  readers,      \* holders of a read lock
  writer,       \* the holder of the write lock, or the one next to have it
  draining      \* the readers that it waits for

lockVars == << readers, writer, draining >>
localVars == << call, stage, phase, answer, calls >>
vars == << registry, defaultAlgo, localVars, lockVars >>

Calls == [op : {"Register"}, name : Name, algo : Algo]
         \cup [op : {"GetAlgo", "SetDefault"}, name : Name]
         \cup [op : {"ListAlgos", "GetDefault"}]

\* What each call locks the mutex for first.
FirstPhase(c) ==
  CASE c.op = "Register" -> "store"
    [] c.op \in {"GetAlgo", "SetDefault"} -> "lookup"
    [] c.op = "ListAlgos" -> "list"
    [] c.op = "GetDefault" -> "default"

Init ==
  /\ registry = [n \in Name |-> IF n \in DOMAIN Stdlib THEN Stdlib[n] ELSE None]
  /\ defaultAlgo = Default
  /\ call = [p \in Goroutine |-> [op |-> "GetDefault"]]
  /\ stage = [p \in Goroutine |-> "idle"]
  /\ phase = [p \in Goroutine |-> "default"]
  /\ answer = [p \in Goroutine |-> "none"]
  /\ calls = [p \in Goroutine |-> 0]
  /\ readers = {} /\ writer = None /\ draining = {}

Call(p, c) ==
  /\ stage[p] = "idle" /\ calls[p] < MaxCalls[p]
  /\ calls' = [calls EXCEPT ![p] = @ + 1]
  /\ call' = [call EXCEPT ![p] = c]
  /\ stage' = [stage EXCEPT ![p] = "want"]
  /\ phase' = [phase EXCEPT ![p] = FirstPhase(c)]
  /\ answer' = [answer EXCEPT ![p] = "none"]
  /\ UNCHANGED << registry, defaultAlgo, lockVars >>

-----------------------------------------------------------------------------
(* The mutex *)

Reads(p) == phase[p] \in {"lookup", "list", "default"}

\* RLock: at once unless a writer has or awaits the lock.
RLock(p) ==
  /\ stage[p] = "want" /\ Reads(p)
  /\ stage' = [stage EXCEPT ![p] = IF writer = None THEN "hold" ELSE "wait"]
  /\ readers' = IF writer = None THEN readers \cup {p} ELSE readers
  /\ UNCHANGED << registry, defaultAlgo, call, phase, answer, calls, writer, draining >>

RUnlock(p) ==
  /\ readers' = readers \ {p}
  /\ draining' = draining \ {p}
  /\ UNCHANGED writer

\* Lock: one writer at a time, and it waits for the readers there are.
Lock(p) ==
  /\ stage[p] = "want" /\ ~ Reads(p) /\ writer = None
  /\ stage' = [stage EXCEPT ![p] = "wait"]
  /\ writer' = p /\ draining' = readers
  /\ UNCHANGED << registry, defaultAlgo, call, phase, answer, calls, readers >>

LockDone(p) ==
  /\ writer = p /\ stage[p] = "wait" /\ draining = {}
  /\ stage' = [stage EXCEPT ![p] = "hold"]
  /\ UNCHANGED << registry, defaultAlgo, call, phase, answer, calls, lockVars >>

\* The readers that wait when p unlocks.
Waiting == {q \in Goroutine : stage[q] = "wait" /\ Reads(q)}

-----------------------------------------------------------------------------
(* The operations *)

Return(p, a) ==
  /\ answer' = [answer EXCEPT ![p] = a]
  /\ stage' = [stage EXCEPT ![p] = "idle"]
  /\ UNCHANGED phase

Proceed(p, ph) ==
  /\ phase' = [phase EXCEPT ![p] = ph]
  /\ stage' = [stage EXCEPT ![p] = "want"]
  /\ UNCHANGED answer

Registered(n) == registry[n] # None

\* Mutants: the read lock is kept for ListAlgos; a failed lookup is ignored.
LookupLocked(p) ==
  IF Registered(call[p].name)
  THEN /\ RUnlock(p)
       /\ IF call[p].op = "SetDefault" THEN Proceed(p, "store")
          ELSE Return(p, registry[call[p].name])
  ELSE Proceed(p, "list") /\ UNCHANGED lockVars
LookupIgnored(p) ==
  /\ RUnlock(p)
  /\ IF call[p].op = "SetDefault" THEN Proceed(p, "store")
     ELSE IF Registered(call[p].name) THEN Return(p, registry[call[p].name])
     ELSE Proceed(p, "list")

\* GetAlgo gives the lock back before ListAlgos takes it for the error text.
Looked(p) ==
  /\ RUnlock(p)
  /\ IF ~ Registered(call[p].name) THEN Proceed(p, "list")
     ELSE IF call[p].op = "SetDefault" THEN Proceed(p, "store")
     ELSE Return(p, registry[call[p].name])

Lookup(p) ==
  /\ stage[p] = "hold" /\ phase[p] = "lookup"
  /\ Looked(p)
  /\ UNCHANGED << registry, defaultAlgo, call, calls >>

\* ListAlgos, for its caller or for the error of a failed lookup.
List(p) ==
  /\ stage[p] = "hold" /\ phase[p] = "list"
  /\ RUnlock(p)
  /\ Return(p, IF call[p].op = "ListAlgos" THEN "ok" ELSE "unknown")
  /\ UNCHANGED << registry, defaultAlgo, call, calls >>

ReadDefault(p) ==
  /\ stage[p] = "hold" /\ phase[p] = "default"
  /\ RUnlock(p)
  /\ Return(p, "ok")
  /\ UNCHANGED << registry, defaultAlgo, call, calls >>

WithEntry(c) == [registry EXCEPT ![c.name] = c.algo]

\* Register and the end of SetDefault, both under the write lock.
Store(p) ==
  /\ stage[p] = "hold" /\ phase[p] = "store"
  /\ IF call[p].op = "Register"
     THEN registry' = WithEntry(call[p]) /\ UNCHANGED defaultAlgo
     ELSE defaultAlgo' = call[p].name /\ UNCHANGED registry
  /\ writer' = None /\ draining' = {}
  /\ readers' = readers \cup Waiting
  /\ answer' = [answer EXCEPT ![p] = "ok"]
  /\ stage' = [q \in Goroutine |-> IF q = p THEN "idle"
                                   ELSE IF q \in Waiting THEN "hold" ELSE stage[q]]
  /\ UNCHANGED << call, phase, calls >>

Step(p) ==
  \/ RLock(p) \/ Lock(p) \/ LockDone(p)
  \/ Lookup(p) \/ List(p) \/ ReadDefault(p) \/ Store(p)

\* Every goroutine has made all the calls the bound allows.
Rest ==
  /\ \A p \in Goroutine : stage[p] = "idle" /\ calls[p] = MaxCalls[p]
  /\ UNCHANGED vars

Next ==
  \/ \E p \in Goroutine : Step(p)
  \/ \E p \in Goroutine, c \in Calls : Call(p, c)
  \/ Rest

Spec == Init /\ [][Next]_vars

-----------------------------------------------------------------------------
(* Properties *)

\* Whoever looks up the default finds an algorithm, although SetDefault looks
\* the name up under one lock and stores it under another.
DefaultRegistered == registry[defaultAlgo] # None

\* A name once registered stays so: a lookup that succeeded, which SetDefault
\* and every engine under construction go by, is never undone.
NeverForgotten ==
  [][\A n \in Name : Registered(n) => registry'[n] # None]_vars

\* registry.go:133, "release before ListAlgos() to avoid deadlock": every call
\* returns, writers and readers in any mix.
CallsReturn == \A p \in Goroutine : stage[p] # "idle" ~> stage[p] = "idle"
=============================================================================
