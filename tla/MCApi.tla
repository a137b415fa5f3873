--------------------------------- MODULE MCApi ---------------------------------
(***************************************************************************)
(* An instance of Api for TLC: two names, one of them registered, and      *)
(* two algorithms, of which one has no FastSum.  The old file has two full *)
(* blocks, a batch of a vector unit of two, and a shorter third.           *)
(***************************************************************************)
EXTENDS Api

CONSTANTS md5, custom, g1

MCStrong(w) == FoldLeft(LAMBDA acc, b : 3 * acc + b + 1, 0, w)
MCDigest == 0 .. 3 ^ 4

SomeStdlib == [n \in {md5} |-> BuiltinMD5]
SomePairs ==
  { [old |-> <<0, 1, 1, 0, 1>>, new |-> <<0, 1, 1, 0, 1>>],
    [old |-> <<1, 1>>, new |-> <<0, 1, 1, 0>>] }

\* A call of the client makes up to three lookups.  Of the others one makes any
\* call, one registers the name that is not registered.
CallBounds == [p \in Goroutine |-> IF p = Client THEN 3 ELSE 1]
SomeCalls ==
  [p \in Goroutine \ {Client} |->
     IF p = g1 THEN Calls
     ELSE {[op |-> "Register", name |-> custom, algo |-> BuiltinMD5]}]
================================================================================
