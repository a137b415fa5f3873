------------------------------- MODULE LaneHash -------------------------------
(***************************************************************************)
(* MD5 of several blocks at once, one to a lane (hashsimd): md5Hash8way,   *)
(* md5Hash16way and md5Hash4way.  All lanes take the chunks they have in   *)
(* common in step; what is left of each block is padded and finished lane  *)
(* by lane, or in step too where there is code for it and all tails are    *)
(* equally long.                                                           *)
(*                                                                         *)
(* The 64 rounds that fold one chunk into a state of a lane are those of   *)
(* MD5Core; here a state is the sequence of the chunks folded into it, so  *)
(* that two digests are equal only if MD5 makes them so.  The data are the *)
(* bytes of all blocks; a chunk is a sequence of bytes, of which the last  *)
(* two stand for the halves of the 64-bit length.  BlockSums makes the     *)
(* calls.                                                                  *)
(***************************************************************************)
EXTENDS Integers, Sequences, SequencesExt, FiniteSetsExt

CONSTANTS
  Lanes,     \* 1 .. 8, 16 or 4
  Chunk,     \* bytes in a chunk, 64 in the code
  Half,      \* 2^32: what each half of the length holds
  BitsOf,    \* bits in a byte, 8
  NoCall     \* no call

\* data, offsets, lengths, and whether there is md5Finalize8way.
HashArguments ==
  [data : Seq(Nat), offsets : [Lanes -> Nat], lengths : [Lanes -> Nat], inStep : BOOLEAN]

ASSUME LanesAssumption == IsFiniteSet(Lanes) /\ Lanes = 1 .. Cardinality(Lanes) /\ Lanes # {}
ASSUME ChunkAssumption == Chunk \in Nat /\ Chunk > 2 /\ Half \in Nat \ {0} /\ BitsOf \in Nat \ {0}

VARIABLES
  phase,      \* "idle", "common", "lanes" or "hashed"
  call,       \* the arguments
  chunks,     \* chunk: common chunks folded
  lane,       \* b of the loop over the lanes: lanes finished
  processed,  \* processed, of the lane being finished
  state,      \* state: of each lane, the chunks folded into it
  out         \* out: of each lane, the digest, or << >> while there is none

hashVars == << phase, call, chunks, lane, processed, state, out >>

NoDigests == [b \in Lanes |-> << >>]

HashInit ==
  /\ phase = "idle" /\ call = NoCall
  /\ chunks = 0 /\ lane = 0 /\ processed = 0
  /\ state = NoDigests /\ out = NoDigests

\* md5Hash8way(data, offsets, lengths, &out) and its like
CallHash(c) ==
  /\ phase = "idle" /\ c \in HashArguments
  /\ phase' = "common" /\ call' = c
  /\ UNCHANGED << chunks, lane, processed, state, out >>

-----------------------------------------------------------------------------
(* Chunks in common *)

\* minFullChunks
Common == Min({call.lengths[b] \div Chunk : b \in Lanes})

\* n bytes of the block of lane b, from its byte p.
BytesOf(b, p, n) == SubSeq(call.data, call.offsets[b] + p + 1, call.offsets[b] + p + n)

\* The next chunk of every lane.
Gathered == [b \in Lanes |-> BytesOf(b, chunks * Chunk, Chunk)]

FoldCommon ==
  /\ phase = "common" /\ chunks < Common
  /\ state' = [b \in Lanes |-> Append(state[b], Gathered[b])]
  /\ chunks' = chunks + 1
  /\ UNCHANGED << phase, call, lane, processed, out >>

-----------------------------------------------------------------------------
(* Padding *)

\* 0x80, and the zeros after it.
Mark == -1
ZeroBytes(n) == [k \in 1 .. n |-> 0]

\* The 64-bit length in bits, as its low half and its high half.
LengthWords(n) ==
  << (n * BitsOf) % Half, ((n * BitsOf) \div Half) % Half >>

\* The place of the length in a chunk, 56 in the code.
LengthAt == Chunk - 2

\* Mutant: a tail that leaves no room for 0x80 and the length gets one chunk.
FitsOne(n) == n <= LengthAt

Fits(n) == n < LengthAt

\* md5FinalLane's buffer, cut into chunks: the tail, 0x80, zeros and the length.
Padded(tail, n) ==
  LET zeros == (IF Fits(Len(tail)) THEN LengthAt ELSE Chunk + LengthAt) - Len(tail) - 1
      buf == tail \o << Mark >> \o ZeroBytes(zeros) \o LengthWords(n)
  IN  [c \in 1 .. Len(buf) \div Chunk |-> SubSeq(buf, (c - 1) * Chunk + 1, c * Chunk)]

-----------------------------------------------------------------------------
(* Tails in step *)

Left(b) == call.lengths[b] - Common * Chunk

\* allSameTail && tailLen > 0
SameTail == \A b \in Lanes : Left(b) = Left(1) /\ Left(b) \in 1 .. Chunk - 1

\* One chunk, with the whole length; or two, of which the second is made of
\* words in place and has the length's low half alone.
InStep(b) ==
  LET tail == BytesOf(b, Common * Chunk, Left(b))
  IN  IF Fits(Left(b))
      THEN Padded(tail, call.lengths[b])
      ELSE << tail \o << Mark >> \o ZeroBytes(Chunk - Left(b) - 1),
              ZeroBytes(LengthAt) \o << LengthWords(call.lengths[b])[1], 0 >> >>

\* md5Finalize8way
FinishInStep ==
  /\ phase = "common" /\ chunks = Common
  /\ call.inStep /\ SameTail
  /\ state' = [b \in Lanes |-> state[b] \o InStep(b)]
  /\ out' = state'
  /\ phase' = "hashed"
  /\ UNCHANGED << call, chunks, lane, processed >>

-----------------------------------------------------------------------------
(* Tails lane by lane *)

FinishLanes ==
  /\ phase = "common" /\ chunks = Common
  /\ ~ (call.inStep /\ SameTail)
  /\ phase' = "lanes"
  /\ processed' = Common * Chunk
  /\ UNCHANGED << call, chunks, lane, state, out >>

FoldOwn ==
  /\ phase = "lanes" /\ lane < Cardinality(Lanes)
  /\ processed + Chunk <= call.lengths[lane + 1]
  /\ state' = [state EXCEPT ![lane + 1] = Append(@, BytesOf(lane + 1, processed, Chunk))]
  /\ processed' = processed + Chunk
  /\ UNCHANGED << phase, call, chunks, lane, out >>

\* md5FinalLane
FinishLane ==
  LET b == lane + 1
      n == call.lengths[b]
  IN  /\ phase = "lanes" /\ lane < Cardinality(Lanes)
      /\ processed + Chunk > n
      /\ out' = [out EXCEPT ![b] = state[b] \o Padded(BytesOf(b, processed, n - processed), n)]
      /\ lane' = b
      /\ processed' = Common * Chunk
      /\ UNCHANGED << phase, call, chunks, state >>

LanesFinished ==
  /\ phase = "lanes" /\ lane = Cardinality(Lanes)
  /\ phase' = "hashed"
  /\ UNCHANGED << call, chunks, lane, processed, state, out >>

\* The loops of a call.
Hash == FoldCommon \/ FinishInStep \/ FinishLanes \/ FoldOwn \/ FinishLane \/ LanesFinished

-----------------------------------------------------------------------------
(* What a digest should be *)

\* MD5 of m, as the sequence of its chunks: m, 0x80, as few zeros as leave room
\* for the length at the end of a chunk, and the length in bits.
MD5(m) ==
  LET zeros == CHOOSE z \in 0 .. Chunk - 1 : (Len(m) + 1 + z + 2) % Chunk = 0
      text == m \o << Mark >> \o ZeroBytes(zeros) \o LengthWords(Len(m))
  IN  [c \in 1 .. Len(text) \div Chunk |-> SubSeq(text, (c - 1) * Chunk + 1, c * Chunk)]

\* A block whose length in bits needs both halves, and whose tail is finished in
\* step with two chunks, loses the high half.
LengthCut(b) ==
  call.inStep /\ SameTail /\ ~ Fits(Left(b)) /\ call.lengths[b] * BitsOf >= Half
=============================================================================
