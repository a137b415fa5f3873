------------------------------- MODULE MD5Rounds -------------------------------
(***************************************************************************)
(* MD5 of the chunks of one block, as the Go code has it for the tails     *)
(* (md5FinalLane, md5FinalizeScalar): four variables that change places at *)
(* each of 64 steps.  It is what the vector cores, MD5Core, implement in   *)
(* each of their lanes.                                                    *)
(***************************************************************************)
EXTENDS MD5Words

VARIABLES
  x,      \* x: the words of the chunk
  a, b, c, d,
  start,  \* sa, sb, sc, sd
  step    \* step, or Between

roundsVars == << x, a, b, c, d, start, step >>

\* No chunk is being folded in.
Between == 65

RoundsInit ==
  /\ x = NoMessage /\ start = NoState
  /\ a = {} /\ b = {} /\ c = {} /\ d = {}
  /\ step = Between

\* A block begins, with the state there is of it.
NewBlock ==
  /\ step = Between
  /\ {a', b', c', d'} \subseteq MD5Word
  /\ UNCHANGED << x, start, step >>

NewChunk ==
  /\ step = Between
  /\ x' \in Message
  /\ start' = [NoState EXCEPT ![0] = a, ![1] = b, ![2] = c, ![3] = d]
  /\ step' = 0
  /\ UNCHANGED << a, b, c, d >>

\* f of step i
F(i, v, w, u) ==
  IF i < 16 THEN (v \cap w) \cup (Not(v) \cap u)
  ELSE IF i < 32 THEN (v \cap u) \cup (w \cap Not(u))
  ELSE IF i < 48 THEN Xor(Xor(v, w), u)
  ELSE Xor(w, v \cup Not(u))

Step ==
  /\ step < 64
  /\ LET f == Plus(Plus(Plus(F(step, b, c, d), a), x[WordOf(step)]), T[step])
     IN  b' = Plus(b, RotateLeft(f, Shift(step)))
  /\ a' = d /\ c' = b /\ d' = c
  /\ step' = step + 1
  /\ UNCHANGED << x, start >>

Fold ==
  /\ step = 64
  /\ a' = Plus(a, start[0]) /\ b' = Plus(b, start[1])
  /\ c' = Plus(c, start[2]) /\ d' = Plus(d, start[3])
  /\ step' = Between
  /\ UNCHANGED << x, start >>

RoundsNext ==
  \/ NewBlock \/ NewChunk
  \/ Step \/ Fold

RoundsSpec == RoundsInit /\ [][RoundsNext]_roundsVars
=============================================================================
