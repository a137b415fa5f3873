----------------------------- MODULE DeltaSender -----------------------------
(***************************************************************************)
(* What a sender of deltas promises, whichever way it looks for matches:   *)
(* Search hands over a list, SearchReader streams to a callback.           *)
(*                                                                         *)
(* The instructions handed over so far always rebuild a prefix of the      *)
(* source; instructions are only ever added; a call that reports success   *)
(* has handed over instructions for the whole source.                      *)
(***************************************************************************)
EXTENDS Blocks

CONSTANTS
  Bases,     \* the receiver's files, whose signatures the sender works with
  Inputs     \* the source files

VARIABLES
  basis,     \* the file whose signature is in use; << >> when there is none
  source,    \* the file of the current call
  sent,      \* the instructions handed over so far
  verdict    \* "idle", "open" while a call runs, then "ok" or "failed"

senderVars == << basis, source, sent, verdict >>

SenderInit ==
  /\ basis = << >>
  /\ source = << >>
  /\ sent = << >>
  /\ verdict = "idle"

UseSignature ==
  /\ verdict # "open"
  /\ basis' \in Bases \cup {<< >>}
  /\ sent' = << >>
  /\ source' = << >>
  /\ verdict' = "idle"

Begin ==
  /\ verdict # "open"
  /\ source' \in Inputs
  /\ sent' = << >>
  /\ verdict' = "open"
  /\ UNCHANGED basis

\* sent grows by zero or more instructions and covers the source up to hi.
ExtendTo(hi) ==
  /\ Len(sent) <= Len(sent')
  /\ sent = SubSeq(sent', 1, Len(sent))
  /\ Rebuilds(basis, source, sent', hi)
  /\ UNCHANGED << basis, source >>

Deliver ==
  /\ verdict = "open"
  /\ \E hi \in 0 .. Len(source) : ExtendTo(hi)
  /\ UNCHANGED verdict

Complete ==
  /\ verdict = "open"
  /\ ExtendTo(Len(source))
  /\ verdict' = "ok"

Fail ==
  /\ verdict = "open"
  /\ \E hi \in 0 .. Len(source) : ExtendTo(hi)
  /\ verdict' = "failed"

SenderNext == UseSignature \/ Begin \/ Deliver \/ Complete \/ Fail

SenderSpec == SenderInit /\ [][SenderNext]_senderVars
=============================================================================
