------------------------------ MODULE BatchedSum ------------------------------
(***************************************************************************)
(* checksum1 as it is computed on amd64 and arm64                          *)
(* (rolling_fast_amd64.go, rolling_fast_arm64.go, rolling_*.s): by the     *)
(* lanes of a vector unit where the machine has one, else in batches of    *)
(* groups of bytes, and byte by byte at the end.  RollingSum has its       *)
(* meaning, the byte-by-byte loop.                                         *)
(*                                                                         *)
(* All sums wrap, those of lanes at the width of a lane, the others as     *)
(* uint32.  One step is one turn of a loop of the assembly, the 128-byte   *)
(* loop's body, one batch of 32 bytes, or one byte.  BlockSums makes the    *)
(* calls.                                                                  *)
(***************************************************************************)
EXTENDS RollingSum

CONSTANTS
  Word,     \* 2^32 in the code
  Group,    \* bytes in a group, 4 in the code
  Groups,   \* groups in a batch, 8 in the code
  Unroll,   \* batches in the body of the large loop, 4 in the code
  MaxByte,  \* the largest byte, 255 in the code
  None,     \* no kernel
  Kernels   \* the assembly there is, see Kernel

\* An accumulator has lanes; each takes groups of adjacent bytes, every lane one
\* of each register's length.
Shape == [lanes : Nat \ {0}, group : Nat \ {0}]

\* The assembly of one file: it wants at least so many bytes, takes whole units
\* of them, a block to a turn, and adds plain and weighted bytes in lanes of a
\* width, which wrap; what a group gives is cut at a limit first (VPMADDUBSW).
\* It takes the bytes after the last unit itself, one by one, or leaves them.
Kernel ==
  [least : Nat \ {0}, unit : Nat \ {0}, block : Nat \ {0}, plain : Shape, weighted : Shape,
   width : Nat \ {0}, limit : Nat, takesRest : BOOLEAN]

\* f[1] + ... + f[n]
Total(n, f) ==
  LET total[k \in 0 .. n] == IF k = 0 THEN 0 ELSE total[k - 1] + f[k]
  IN  total[n]

\* The most that a group can give, plain and weighted: bytes weigh most at the
\* start of a block.
MostPlain(k) == k.plain.group * MaxByte
MostWeighed(k) ==
  LET size == k.weighted.group
  IN  Total(size, [n \in 1 .. size |-> (k.block - n + 1) * MaxByte])

ASSUME WordAssumption == Word \in Nat \ {0} /\ Word % (2 * Mod) = 0
ASSUME BatchAssumption == {Group, Groups, Unroll} \subseteq Nat \ {0}
ASSUME KernelAssumption ==
  /\ MaxByte \in Nat /\ Kernels \subseteq Kernel
  /\ \A k \in Kernels :
       /\ k.unit % k.block = 0 /\ k.least >= k.unit /\ k.width % Mod = 0
       /\ \A shape \in {k.plain, k.weighted} : k.block % (shape.group * shape.lanes) = 0
       /\ MostPlain(k) <= k.limit /\ MostWeighed(k) <= k.limit

VARIABLES
  pc,      \* "idle", "called", "lanes", "rest", "batches", "bytes" or "returned"
  data,    \* data
  kernel,  \* the assembly called
  acc,     \* its accumulators: running sums, sums before each block, weighted sums
  i,       \* i: bytes summed
  s1,      \* s1
  s2       \* s2

vars == << pc, data, kernel, acc, i, s1, s2 >>

Batch == Group * Groups

Init ==
  /\ pc = "idle" /\ data = << >>
  /\ kernel = None /\ acc = None
  /\ i = 0 /\ s1 = 0 /\ s2 = 0

\* checksum1(d)
Call(d) ==
  /\ pc = "idle" /\ data' = d
  /\ kernel' = None /\ acc' = None
  /\ i' = 0 /\ s1' = 0 /\ s2' = 0
  /\ pc' = "called"

-----------------------------------------------------------------------------
(* Assembly *)

Zeros(shape) == [l \in 1 .. shape.lanes |-> 0]

CallKernel(k) ==
  /\ pc = "called" /\ Len(data) >= k.least
  /\ kernel' = k
  /\ acc' = [plain |-> Zeros(k.plain), before |-> Zeros(k.plain), weighted |-> Zeros(k.weighted)]
  /\ pc' = "lanes"
  /\ UNCHANGED << data, i, s1, s2 >>

Cut(x) == IF x > kernel.limit THEN kernel.limit ELSE x

\* What the bytes of a block, counted as f, give to each lane.
Registers(shape) == kernel.block \div (shape.group * shape.lanes)

GroupOf(shape, f, n) ==
  Cut(Total(shape.group, [k \in 1 .. shape.group |-> f[(n - 1) * shape.group + k]]))

InLanes(shape, f) ==
  [l \in 1 .. shape.lanes |->
     Total(Registers(shape),
         [r \in 1 .. Registers(shape) |-> GroupOf(shape, f, (r - 1) * shape.lanes + l)])]

\* The block at i; its byte k weighs block - k + 1.
Unweighed == [k \in 1 .. kernel.block |-> data[i + k]]
Weighed == [k \in 1 .. kernel.block |-> (kernel.block - k + 1) * data[i + k]]

Added(a, b) == [l \in DOMAIN a |-> (a[l] + b[l]) % kernel.width]

Whole == Len(data) - (Len(data) % kernel.unit)

\* Mutant: the sums before the block are taken after it.
TurnLate ==
  LET plain == Added(acc.plain, InLanes(kernel.plain, Unweighed))
  IN  [plain |-> plain, before |-> Added(acc.before, plain),
       weighted |-> Added(acc.weighted, InLanes(kernel.weighted, Weighed))]

\* The accumulators after the block at i.
Turn ==
  [plain |-> Added(acc.plain, InLanes(kernel.plain, Unweighed)),
   before |-> Added(acc.before, acc.plain),
   weighted |-> Added(acc.weighted, InLanes(kernel.weighted, Weighed))]

TakeBlock ==
  /\ pc = "lanes" /\ i + kernel.block <= Whole
  /\ acc' = Turn
  /\ i' = i + kernel.block
  /\ UNCHANGED << pc, data, kernel, s1, s2 >>

\* The lanes of a, added at their width.
Reduced(shape, a) == Total(shape.lanes, a) % kernel.width

\* s2 = 64 * sums before + weighted sums
Joined ==
  << Reduced(kernel.plain, acc.plain),
     (kernel.block * Reduced(kernel.plain, acc.before)
        + Reduced(kernel.weighted, acc.weighted)) % Word >>

LanesEnd ==
  /\ pc = "lanes" /\ i = Whole
  /\ s1' = Joined[1] /\ s2' = Joined[2]
  /\ pc' = "rest"
  /\ UNCHANGED << data, kernel, acc, i >>

TakeRest ==
  /\ pc = "rest" /\ kernel.takesRest /\ i < Len(data)
  /\ s1' = (s1 + data[i + 1]) % Word
  /\ s2' = (s2 + s1') % Word
  /\ i' = i + 1
  /\ UNCHANGED << pc, data, kernel, acc >>

\* uint32(p) * uint32(p+1) / 2 * CHAR_OFFSET, of which the product wraps first.
Correction(p) == ((((p * (p + 1)) % Word) \div 2) * CharOffset) % Word

\* The sums of p plain bytes, with CHAR_OFFSET for each.
Corrected(sums, p) ==
  << (sums[1] + p * CharOffset) % Word, (sums[2] + Correction(p)) % Word >>

\* The assembly stores its sums at the width of its lanes.
KernelReturns ==
  /\ pc = "rest" /\ (kernel.takesRest => i = Len(data))
  /\ LET sums == Corrected(<< s1 % kernel.width, s2 % kernel.width >>, i)
     IN  s1' = sums[1] /\ s2' = sums[2]
  /\ pc' = "bytes"
  /\ UNCHANGED << data, kernel, acc, i >>

-----------------------------------------------------------------------------
(* Batches *)

CallBatches ==
  /\ pc = "called"
  /\ pc' = "batches"
  /\ UNCHANGED << data, kernel, acc, i, s1, s2 >>

\* The bytes of group g of the batch at lo, all counted from 1.
ByteOf(lo, g, k) == data[lo + (g - 1) * Group + k]
GroupSum(lo, g) == Total(Group, [k \in 1 .. Group |-> ByteOf(lo, g, k)])

\* 4*b0 + 3*b1 + 2*b2 + b3
Weight(k) == Group - k + 1

Weighted(lo, g) == Total(Group, [k \in 1 .. Group |-> Weight(k) * ByteOf(lo, g, k)])

\* 28*g0 + 24*g1 + ... + 4*g6: a group counts once for every byte behind it.
Behind(lo, g) == (Batch - Group * g) * GroupSum(lo, g)

\* The sums after the batch at lo, from those before it.
AfterBatch(sums, lo) ==
  << (sums[1] + Total(Groups, [g \in 1 .. Groups |-> GroupSum(lo, g)]) + Batch * CharOffset) % Word,
     (sums[2] + Batch * sums[1]
        + Total(Groups, [g \in 1 .. Groups |-> Weighted(lo, g) + Behind(lo, g)])
        + ((Batch * (Batch + 1)) \div 2) * CharOffset) % Word >>

TakeBatches(n) ==
  /\ LET after[k \in 0 .. n] ==
           IF k = 0 THEN << s1, s2 >> ELSE AfterBatch(after[k - 1], i + (k - 1) * Batch)
     IN  s1' = after[n][1] /\ s2' = after[n][2]
  /\ i' = i + n * Batch
  /\ UNCHANGED << pc, data, kernel, acc >>

LargeLoop ==
  /\ pc = "batches" /\ i + Unroll * Batch <= Len(data)
  /\ TakeBatches(Unroll)

SmallLoop ==
  /\ pc = "batches" /\ i + Unroll * Batch > Len(data) /\ i + Batch <= Len(data)
  /\ TakeBatches(1)

BatchesEnd ==
  /\ pc = "batches" /\ i + Batch > Len(data)
  /\ pc' = "bytes"
  /\ UNCHANGED << data, kernel, acc, i, s1, s2 >>

-----------------------------------------------------------------------------
(* The rest *)

TakeByte ==
  /\ pc = "bytes" /\ i < Len(data)
  /\ s1' = (s1 + data[i + 1] + CharOffset) % Word
  /\ s2' = (s2 + s1') % Word
  /\ i' = i + 1
  /\ UNCHANGED << pc, data, kernel, acc >>

Return ==
  /\ pc = "bytes" /\ i >= Len(data)
  /\ pc' = "returned"
  /\ UNCHANGED << data, kernel, acc, i, s1, s2 >>

\* The loops of a call.
Sums ==
  \/ \E k \in Kernels : CallKernel(k)
  \/ TakeBlock \/ LanesEnd \/ TakeRest \/ KernelReturns
  \/ CallBatches \/ LargeLoop \/ SmallLoop \/ BatchesEnd
  \/ TakeByte \/ Return

-----------------------------------------------------------------------------
(* Properties *)

\* The sums of the bytes taken so far; assembly has yet to add CHAR_OFFSET.
SoFar ==
  CASE pc = "lanes" -> Corrected(Joined, i)
    [] pc = "rest" -> Corrected(<< s1, s2 >>, i)
    [] OTHER -> << s1, s2 >>

\* (s1 & 0xFFFF) | ((s2 & 0xFFFF) << 16)
Packed == Value([s1 |-> SoFar[1] % Mod, s2 |-> SoFar[2] % Mod])

\* Between any two steps the sums are those of the bytes taken so far, in the
\* 16 bits that count, and in the end all are taken: however a machine cuts its
\* data into lanes, batches and bytes, sender and receiver agree on the checksum
\* although their sums wrap at different places and halve a product that may
\* have wrapped.
ChecksumAgrees ==
  /\ pc \notin {"idle", "called"} => Packed = Checksum1(SubSeq(data, 1, i))
  /\ pc = "returned" => i = Len(data)
=============================================================================
