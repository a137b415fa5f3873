---------------------------- MODULE SearchResults ----------------------------
(***************************************************************************)
(* What Search and SearchParallel return, as functions of the basis, the   *)
(* source and the blocks the hash table leads to.  MatchEngine is checked  *)
(* to compute SearchResult and ParallelSearch to compute ParallelResult,   *)
(* however its workers interleave; the modules above them use the two as   *)
(* functions.                                                              *)
(*                                                                         *)
(* known is the set of blocks of the basis that a probe reaches: all of    *)
(* them unless the table is so crowded that the probe limits cut it short. *)
(***************************************************************************)
EXTENDS Blocks, FiniteSetsExt, SequencesExt

\* The blocks that a window may be sent as.
Candidates(f, known, w) == {i \in known : Block(f, i) = w}

\* The block after the last match if it will do, else the first candidate.
Chosen(f, known, w, want) ==
  IF want < NumBlocks(f) /\ Block(f, want) = w
  THEN want ELSE Min(Candidates(f, known, w))

\* d[lm:] after the scan: the block at the same place if it is equal.
TailResult(f, d, lm) ==
  LET i == lm \div BlockSize
  IN  IF /\ lm % BlockSize = 0 /\ i < NumBlocks(f) /\ lm < Len(d)
         /\ Block(f, i) = Slice(d, lm, Len(d))
      THEN << Match(i, lm) >>
      ELSE Chunks(Slice(d, lm, Len(d)), lm)

\* Where a scan can be: at offset o, with everything before lm emitted.
ScanStates(f, d) == [o : 0 .. Len(d), lm : 0 .. Len(d), want : 0 .. NumBlocks(f)]

\* What the scan emits from s on, if from tells what it emits later.
ScanResult(f, known, d, from, s) ==
  LET end == s.o + BlockSize
      w   == Slice(d, s.o, end)
      i   == Chosen(f, known, w, s.want)
  IN  IF end > Len(d) THEN TailResult(f, d, s.lm)
      ELSE IF Candidates(f, known, w) = {} THEN from[[s EXCEPT !.o = @ + 1]]
      ELSE Append(Chunks(Slice(d, s.lm, s.o), s.lm), Match(i, s.o))
           \o from[[o |-> end, lm |-> end, want |-> i + 1]]

\* Search: all the scan emits, or literals when there is nothing to match.
SearchResult(f, known, d) ==
  LET from[s \in ScanStates(f, d)] == ScanResult(f, known, d, from, s)
  IN  IF NumBlocks(f) = 0 \/ Len(d) < BlockSize THEN Chunks(d, 0)
      ELSE from[[o |-> 0, lm |-> 0, want |-> 0]]

-----------------------------------------------------------------------------
(* SearchParallel *)

\* Bytes per segment: an n-th of the data, rounded up to whole blocks.
SegmentSize(d, n) ==
  ((((Len(d) + n - 1) \div n) + BlockSize - 1) \div BlockSize) * BlockSize

Serial(f, d, n) ==
  \/ NumBlocks(f) = 0 \/ Len(d) < BlockSize
  \/ n > 1 => SegmentSize(d, n) <= BlockSize

\* No worker for a segment that would start past the end of the data.
WorkerCount(d, n) ==
  LET c == SegmentSize(d, n) IN Least(n, (Len(d) + c - 1) \div c)

SegmentEnd(d, n, i) == Least((i + 1) * SegmentSize(d, n), Len(d))

\* Mutant: the fork is not given the table.
BareFork(known) == {}

\* What a worker's fork of the engine shares with it.
Forked(known) == known

\* What worker i finds: in its segment and a block of overlap.
Found(f, known, d, n, i) ==
  LET start == i * SegmentSize(d, n)
      insts == SearchResult(f, Forked(known),
                 Slice(d, start, Least(SegmentEnd(d, n, i) + BlockSize, Len(d))))
  IN  [k \in DOMAIN insts |-> [insts[k] EXCEPT !.offset = @ + start]]

\* Mutant: references that reach into the next segment are kept.
KeptMatch(f, d, end, r) ==
  IF r.isLiteral THEN [r EXCEPT !.data = Slice(@, 0, Least(Len(@), end - r.offset))]
  ELSE r

\* A result cut off at the end of its segment: a literal is trimmed, and a
\* reference that reaches beyond becomes a literal.
Trimmed(f, d, end, r) ==
  IF r.isLiteral THEN [r EXCEPT !.data = Slice(@, 0, Least(Len(@), end - r.offset))]
  ELSE IF EndOf(f, r) > end THEN Literal(Slice(d, r.offset, end), r.offset)
  ELSE r

\* What a worker keeps of a result: nothing from the end of its segment on.
Kept(f, d, end, r) == IF r.offset < end THEN << Trimmed(f, d, end, r) >> ELSE << >>

\* The results of worker i that belong to its segment.
SegmentResult(f, known, d, n, i) ==
  LET found == Found(f, known, d, n, i)
  IN  FlattenSeq([k \in DOMAIN found |-> Kept(f, d, SegmentEnd(d, n, i), found[k])])

ParallelResult(f, known, d, n) ==
  IF Serial(f, d, n) THEN SearchResult(f, known, d)
  ELSE FlattenSeq([s \in 1 .. WorkerCount(d, n) |-> SegmentResult(f, known, d, n, s - 1)])

-----------------------------------------------------------------------------
(* Measures of a list of instructions *)

LiteralCount(insts) ==
  MapThenSumSet(LAMBDA k : Len(insts[k].data),
                {k \in DOMAIN insts : insts[k].isLiteral})

References(insts) ==
  FlattenSeq([k \in DOMAIN insts |-> IF insts[k].isLiteral THEN << >> ELSE << insts[k] >>])

MatchCount(insts) == Len(References(insts))
=============================================================================
