-------------------------------- MODULE Receiver --------------------------------
(***************************************************************************)
(* The receiving side (wire.go, reconstruct.go): instructions arrive on a  *)
(* connection, are decoded one io.ReadFull at a time and rebuild the file  *)
(* from the basis, in one of three ways:                                   *)
(*   "stream"  DecodeInstructionsStream with WriteInstruction, which is    *)
(*             ApplyDeltaStream: each instruction is written out at once;  *)
(*   "all"     DecodeInstructionsStreamAll with WriteInstruction: the same *)
(*             over batches, up to one with a count of 0;                  *)
(*   "list"    WireDecodeInstructions, then Reconstruct of the list.       *)
(*                                                                         *)
(* The sender writes while the receiver reads.  The connection may break   *)
(* at any cell, the receiver's own output may fail, and the next message   *)
(* follows on the same connection.  Session has what is sent, and why.     *)
(***************************************************************************)
EXTENDS Wire

VARIABLES
  transfer, \* mode: "stream", "all" or "list"; batches: the instructions sent;
            \* source: the new file; basis: what the signature was made of;
            \* held: what the receiver has now; blockLens: the lengths it gives
            \* to NewReconstructor, << >> for nil
  writes,   \* the calls of w.Write the sender still has to make
  writer,   \* "writing", "done" or "failed"
  wire,     \* what it has written
  pos,      \* cells the receiver has read
  pc,       \* "signature" before (see Session), "header", "next", "len", "data", "idx", "call",
            \* "rebuild" or "returned"
  count,    \* count
  i,        \* i
  dataLen,  \* dataLen: what is left to read of the literal
  capBuf,   \* cap(buf)
  inst,     \* the instruction given to fn
  insts,    \* insts of WireDecodeInstructions
  output,   \* what w has been given, or the result of Reconstruct
  outcome   \* "none", "nil", "read", "range" or "write"; "signature" if no answer came

senderVars == << transfer, writes, writer, wire >>
decoderVars == << pos, count, i, dataLen, capBuf, inst, insts >>
receiverVars == << senderVars, decoderVars, pc, output, outcome >>

Streaming == transfer.mode # "list"

MessageWrites(t) ==
  IF t.mode = "all" THEN BatchesWrites(t.batches) ELSE InstructionsWrites(t.batches[1])

\* The sender has something to send, and the receiver waits for it.
Begin(t) ==
  /\ transfer' = t
  /\ writes' = MessageWrites(t) \o << Following >>
  /\ pc' = "header"
  /\ UNCHANGED << writer, wire, decoderVars, output, outcome >>

ReceiverInit ==
  /\ transfer = [mode |-> "list", batches |-> << >>, source |-> << >>,
                 basis |-> << >>, held |-> << >>, blockLens |-> << >>]
  /\ writes = << >> /\ writer = "writing" /\ wire = << >>
  /\ pos = 0 /\ pc = "signature"
  /\ count = 0 /\ i = 0 /\ dataLen = 0 /\ capBuf = 0
  /\ inst = Match(0, 0) /\ insts = << >>
  /\ output = << >> /\ outcome = "none"

-----------------------------------------------------------------------------
(* The sender *)

Write ==
  /\ writer = "writing" /\ writes # << >>
  /\ wire' = wire \o Head(writes)
  /\ writes' = Tail(writes)
  /\ writer' = IF Len(writes) = 1 THEN "done" ELSE "writing"
  /\ UNCHANGED << transfer, decoderVars, pc, output, outcome >>

WriteFails ==
  /\ writer = "writing" /\ writes # << >>
  /\ \E n \in 0 .. Len(Head(writes)) - 1 : wire' = wire \o Slice(Head(writes), 0, n)
  /\ writer' = "failed"
  /\ UNCHANGED << transfer, writes, decoderVars, pc, output, outcome >>

-----------------------------------------------------------------------------
(* Decoding *)

Arrived(n) == pos + n <= Len(wire)
CutOff(n) == ~ Arrived(n) /\ writer # "writing"
Cell == wire[pos + 1]

Return(err) == pc' = "returned" /\ outcome' = err
Goto(where) == pc' = where /\ UNCHANGED outcome

\* How much of a literal is read at once: CHUNK_SIZE, or all of it.
Portion == IF Streaming THEN Least(dataLen, ChunkSize) ELSE dataLen

\* Mutant: the end of the connection between two batches ends the stream.
EndOfInput == IF pc = "header" /\ transfer.mode = "all" THEN "nil" ELSE "read"

ReadError == "read"

ReadFails ==
  /\ \/ pc \in {"header", "len", "idx"} /\ CutOff(1)
     \/ pc = "next" /\ i < count /\ CutOff(1)
     \/ pc = "data" /\ CutOff(Portion)
  /\ Return(ReadError)
  /\ UNCHANGED << senderVars, decoderVars, output >>

ReadHeader ==
  /\ pc = "header" /\ Arrived(1)
  /\ pos' = pos + 1 /\ count' = Cell /\ i' = 0 /\ capBuf' = 0
  /\ IF transfer.mode = "all" /\ Cell = 0 THEN Return("nil") ELSE Goto("next")
  /\ UNCHANGED << senderVars, dataLen, inst, insts, output >>

ReadFlag ==
  /\ pc = "next" /\ i < count /\ Arrived(1)
  /\ pos' = pos + 1
  /\ Goto(IF Cell = 0 THEN "len" ELSE "idx")
  /\ UNCHANGED << senderVars, count, i, dataLen, capBuf, inst, insts, output >>

AllDecoded ==
  /\ pc = "next" /\ i = count
  /\ CASE transfer.mode = "stream" -> Return("nil")
       [] transfer.mode = "all" -> Goto("header")
       [] transfer.mode = "list" -> Goto("rebuild")
  /\ UNCHANGED << senderVars, decoderVars, output >>

\* Mutant: the buffer of the first literal is kept.
MadeOnce(len) == IF capBuf = 0 THEN Least(len, ChunkSize) ELSE capBuf

\* The buffer grows with the literals, to CHUNK_SIZE at most.
Grown(len) == Most(capBuf, Least(len, ChunkSize))

ReadLen ==
  /\ pc = "len" /\ Arrived(1)
  /\ pos' = pos + 1 /\ dataLen' = Cell
  /\ capBuf' = IF Streaming THEN Grown(Cell) ELSE capBuf
  /\ Goto("data")
  /\ UNCHANGED << senderVars, count, i, inst, insts, output >>

\* The list has its instruction whole; fn gets it in portions, and is not
\* called when there is nothing left.
ReadData ==
  /\ pc = "data" /\ Arrived(Portion)
  /\ pos' = pos + Portion
  /\ LET data == Slice(wire, pos, pos + Portion)
     IN  IF ~ Streaming
         THEN /\ insts' = Append(insts, Literal(data, 0)) /\ i' = i + 1
              /\ Goto("next") /\ UNCHANGED inst
         ELSE IF dataLen > 0
         THEN inst' = Literal(data, i) /\ Goto("call") /\ UNCHANGED << i, insts >>
         ELSE i' = i + 1 /\ Goto("next") /\ UNCHANGED << inst, insts >>
  /\ UNCHANGED << senderVars, count, dataLen, capBuf, output >>

ReadIdx ==
  /\ pc = "idx" /\ Arrived(1)
  /\ pos' = pos + 1
  /\ IF Streaming
     THEN inst' = Match(Cell, i) /\ Goto("call") /\ UNCHANGED << i, insts >>
     ELSE /\ insts' = Append(insts, Match(Cell, 0)) /\ i' = i + 1
          /\ Goto("next") /\ UNCHANGED inst
  /\ UNCHANGED << senderVars, count, dataLen, capBuf, output >>

-----------------------------------------------------------------------------
(* Rebuilding *)

Start(idx) == idx * BlockSize

\* Mutant: a block is as long as the basis allows.
FullLen(idx) == BlockSize

BlockLen(idx) ==
  IF idx < Len(transfer.blockLens) THEN transfer.blockLens[idx + 1] ELSE BlockSize

OutOfRange(in) == ~ in.isLiteral /\ Start(in.blockIdx) > Len(transfer.held)

Restored(in) ==
  IF in.isLiteral THEN in.data
  ELSE Slice(transfer.held, Start(in.blockIdx),
             Least(Start(in.blockIdx) + BlockLen(in.blockIdx), Len(transfer.held)))

\* What is left of a literal after the portion fn has been given.
LeftAfterCall == dataLen - Len(inst.data)

AfterCall ==
  IF inst.isLiteral
  THEN dataLen' = LeftAfterCall /\ Goto("data") /\ UNCHANGED i
  ELSE i' = i + 1 /\ Goto("next") /\ UNCHANGED dataLen

WriteInstruction ==
  /\ pc = "call"
  /\ \/ /\ OutOfRange(inst)
        /\ Return("range") /\ UNCHANGED << output, i, dataLen >>
     \/ /\ ~ OutOfRange(inst)
        /\ output' = output \o Restored(inst) /\ AfterCall
     \/ /\ ~ OutOfRange(inst) \* w.Write fails, perhaps after a part
        /\ \E n \in 0 .. Len(Restored(inst)) - 1 :
              output' = output \o Slice(Restored(inst), 0, n)
        /\ Return("write") /\ UNCHANGED << i, dataLen >>
  /\ UNCHANGED << senderVars, pos, count, capBuf, inst, insts >>

\* All of the list or nothing.
Reconstruct ==
  /\ pc = "rebuild"
  /\ IF \E k \in DOMAIN insts : OutOfRange(insts[k])
     THEN Return("range") /\ UNCHANGED output
     ELSE /\ output' = FlattenSeq([k \in DOMAIN insts |-> Restored(insts[k])])
          /\ Return("nil")
  /\ UNCHANGED << senderVars, decoderVars >>

Decoding ==
  ReadFails \/ ReadHeader \/ ReadFlag \/ ReadLen \/ ReadData \/ ReadIdx \/ AllDecoded
Rebuilding == WriteInstruction \/ Reconstruct

-----------------------------------------------------------------------------
(* Properties *)

Sent == FlattenSeq(transfer.batches)

MessageLength == Len(FlattenSeq(MessageWrites(transfer)))

\* What has been written out is at every moment a prefix of the new file, also
\* after an error on either side, and although the basis may have grown since
\* it was signed where the block lengths are given.
OutputIsPrefix == IsPrefix(output, transfer.source)

\* A receiver that returns no error has rebuilt the new file, has read the
\* message to its end and has left the next one on the connection.
WholeOnSuccess ==
  pc = "returned" /\ outcome = "nil" => output = transfer.source /\ pos = MessageLength

\* types.go:32 promises a receiver that never allocates more than CHUNK_SIZE at
\* once, however long the literals: the one buffer of a stream stays below
\* that, and each portion fits in it.
BufferHolds ==
  pc = "data" /\ Streaming => Portion <= capBuf /\ capBuf <= ChunkSize

\* delta_extra_test.go:836: for references to "blocks beyond basis" the
\* reconstruction fails.
MissingBlockReported ==
  pc = "returned" /\ outcome = "nil" =>
    \A k \in DOMAIN Sent :
      ~ Sent[k].isLiteral => Sent[k].blockIdx < (Len(transfer.held) + BlockSize - 1) \div BlockSize
=============================================================================
