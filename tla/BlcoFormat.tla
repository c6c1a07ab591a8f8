----------------------------- MODULE BlcoFormat -----------------------------
(***************************************************************************)
(* gen_alto and gen_blcotensor_host: the coordinates of each nonzero are   *)
(* interleaved to one index of up to twice the width of an integer, the    *)
(* nonzeros sorted by it, and cut into blocks that share the upper half.   *)
(* A block keeps that half as block_coords, and each nonzero the lower one *)
(* with its bits put together mode by mode, so that a kernel finds a       *)
(* coordinate with a shift and a mask.                                     *)
(*                                                                         *)
(* A word is the set of its bits that are one.                             *)
(***************************************************************************)
EXTENDS Integers, FiniteSets, Sequences, FiniteSetsExt, Functions

CONSTANTS
  Width,         \* bits of IType: 64
  DimSets,       \* the dims of the tensors that are tried
  MaxNonzeros,   \* bound: nonzeros of a tensor
  MaxBlockSizes  \* values of max_block_size

VARIABLES
  dims,
  order,     \* order[k]: the mode that std::sort puts at place k
  tensor,    \* the coordinates of the nonzeros
  max,       \* max_block_size
  pc,
  idx,       \* the sorted indices
  total,     \* total_blocks_split, the length of the array of blocks
  prefix,    \* block_prefix_sum
  coords,    \* X->coords
  block, stride,
  blocks     \* X->blocks, as far as they are made

formatVars == <<dims, order, tensor, max, pc, idx, total, prefix, coords, block, stride, blocks>>

-----------------------------------------------------------------------------
(* Words (bitops.hpp).                                                       *)

Bit == 0 .. 2 * Width - 1

\* The highest bit in which the words differ is one in y.
Below(x, y) == \E b \in y \ x : \A a \in x \ y : a < b

\* The number that a word stands for: so many words are below it.
Value == [x \in SUBSET Bit |-> Cardinality({y \in SUBSET Bit : Below(y, x)})]
Word == [v \in 0 .. 2 ^ (2 * Width) - 1 |-> CHOOSE x \in SUBSET Bit : Value[x] = v]

Rank(b, y) == Cardinality({a \in y : a < b})
pdep(x, y) == {b \in y : Rank(b, y) \in x}
pext(x, y) == {Rank(b, y) : b \in x \cap y}
lhalf(x) == {b \in x : b < Width}
uhalf(x) == {b - Width : b \in x \ lhalf(x)}
LeftShift(x, k) == lhalf({b + k : b \in x})
RightShift(x, k) == {b - k : b \in {a \in x : a >= k}}

-----------------------------------------------------------------------------
(* The linearisation (setup_packed_alto, LSB_FIRST and SHORT_FIRST).         *)

Mode == 1 .. Len(dims)
NumBits(d) == CHOOSE k \in 1 .. Width : 2 ^ (k - 1) < d /\ d <= 2 ^ k

\* sum[k] = f[1] + ... + f[k]
Sums(f, N) == LET sum[k \in 0 .. N] == IF k = 0 THEN 0 ELSE sum[k - 1] + f[k] IN sum

AllBits(ds) == Sums([n \in DOMAIN ds |-> NumBits(ds[n])], Len(ds))[Len(ds)]

\* Coordinates are integers, and the index has two (alto_bits_min in an assertion).
ASSUME FormatAssumption ==
  /\ Width \in Nat \ {0} /\ MaxNonzeros \in Nat \ {0} /\ MaxBlockSizes \subseteq Nat
  /\ \A ds \in DimSets : ds \in Seq(2 .. 2 ^ Width) /\ AllBits(ds) <= 2 * Width

ModeOrders(ds) ==
  {o \in [1 .. Len(ds) -> 1 .. Len(ds)] :
     /\ IsInjective(o)
     /\ \A j, k \in 1 .. Len(ds) : j < k => NumBits(ds[o[j]]) <= NumBits(ds[o[k]])}

\* ALTO_MASKS: the modes take turns, bit by bit, as long as they have bits.
Turn == {t \in (0 .. Width - 1) \X Mode : t[1] < NumBits(dims[order[t[2]]])}
shift(t) == Cardinality({s \in Turn : s[1] < t[1] \/ (s[1] = t[1] /\ s[2] < t[2])})
MaskOf(k) == {shift(t) : t \in {s \in Turn : s[2] = k}}

mode_masks == [n \in Mode |-> MaskOf(CHOOSE k \in Mode : order[k] = n)]

Linear(c) == UNION {pdep(Word[c[n]], mode_masks[n]) : n \in Mode}

-----------------------------------------------------------------------------
(* The blocked format.                                                       *)

truncated_bitcounts == [n \in Mode |-> Cardinality(lhalf(mode_masks[n]))]
mode_pos == LET sums == Sums(truncated_bitcounts, Len(dims)) IN [n \in Mode |-> sums[n - 1]]

\* (mutant) The masks of the whole index.
WholeMasks == [n \in Mode |-> 0 .. NumBits(dims[n]) - 1]

X_mode_masks == [n \in Mode |-> 0 .. truncated_bitcounts[n] - 1]

\* The length of the histogram.
block_count == 2 ^ (IF AllBits(dims) > Width THEN AllBits(dims) - Width ELSE 0)

Relinearised(i) ==
  UNION {LeftShift(pext(i, mode_masks[n]) \cap X_mode_masks[n], mode_pos[n]) : n \in Mode}

block_coords(b) ==
  [n \in Mode |-> LeftShift(pext(Word[b], uhalf(mode_masks[n])), truncated_bitcounts[n])]

\* alt_pext in the kernels.
alt_pext(x, n, b) ==
  (RightShift(x, mode_pos[n]) \cap X_mode_masks[n]) \cup b.block_coords[n]

Tensors(ds) ==
  LET Coordinates == {c \in [1 .. Len(ds) -> 0 .. 2 ^ Width - 1] : \A n \in 1 .. Len(ds) : c[n] < ds[n]}
  IN UNION {kSubset(k, Coordinates) : k \in 1 .. MaxNonzeros}

Init ==
  /\ dims \in DimSets
  /\ order \in ModeOrders(dims)
  /\ tensor \in Tensors(dims)
  /\ max \in MaxBlockSizes
  /\ pc = "alto"
  /\ idx = <<>> /\ total = 0 /\ prefix = <<>> /\ coords = <<>>
  /\ block = 0 /\ stride = 0 /\ blocks = <<>>

Sorted(S) ==
  CHOOSE s \in [1 .. Cardinality(S) -> S] :
    \A i, j \in DOMAIN s : i < j => Value[s[i]] < Value[s[j]]

\* gen_alto
Alto ==
  /\ pc = "alto"
  /\ idx' = Sorted({Linear(c) : c \in tensor})
  /\ pc' = "count"
  /\ UNCHANGED <<dims, order, tensor, max, total, prefix, coords, block, stride, blocks>>

\* (mutant) Rounded down.
PartsRoundedDown(nnz, largest) == nnz \div largest

PartsOf(nnz, largest) == (nnz + largest - 1) \div largest

\* The histogram, its prefix sums and the number of blocks.
Count ==
  /\ pc = "count"
  /\ LET histogram == [b \in 1 .. block_count |->
                         Cardinality({i \in DOMAIN idx : Value[uhalf(idx[i])] = b - 1})]
         largest == IF max = 0 THEN Len(idx) ELSE max
         parts == [b \in 1 .. block_count |-> PartsOf(histogram[b], largest)]
     IN /\ max' = largest
        /\ total' = Sums(parts, block_count)[block_count]
        /\ prefix' = Sums(histogram, block_count)
  /\ pc' = "relinearise"
  /\ UNCHANGED <<dims, order, tensor, idx, coords, block, stride, blocks>>

Relinearise ==
  /\ pc = "relinearise"
  /\ coords' = [i \in DOMAIN idx |-> Relinearised(idx[i])]
  /\ pc' = "split"
  /\ UNCHANGED <<dims, order, tensor, max, idx, total, prefix, block, stride, blocks>>

\* (mutant) One stride too many.
SplitOnceMore ==
  /\ pc = "split" /\ block < block_count
  /\ LET nnz == prefix[block + 1] - prefix[block]
         blk == [offset |-> prefix[block] + stride, nnz |-> Min({max, nnz - stride}),
                 block_coords |-> block_coords(block)]
     IN IF stride <= nnz
        THEN /\ blocks' = Append(blocks, blk)
             /\ stride' = stride + max
             /\ UNCHANGED block
        ELSE /\ block' = block + 1 /\ stride' = 0
             /\ UNCHANGED blocks
  /\ UNCHANGED <<dims, order, tensor, max, pc, idx, total, prefix, coords>>

\* The next block of at most max nonzeros, or the next place of the histogram.
Split ==
  /\ pc = "split" /\ block < block_count
  /\ LET nnz == prefix[block + 1] - prefix[block]
         blk == [offset |-> prefix[block] + stride, nnz |-> Min({max, nnz - stride}),
                 block_coords |-> block_coords(block)]
     IN IF stride < nnz
        THEN /\ blocks' = Append(blocks, blk)
             /\ stride' = stride + max
             /\ UNCHANGED block
        ELSE /\ block' = block + 1 /\ stride' = 0
             /\ UNCHANGED blocks
  /\ UNCHANGED <<dims, order, tensor, max, pc, idx, total, prefix, coords>>

Finish ==
  /\ pc = "split" /\ block = block_count
  /\ pc' = "done"
  /\ UNCHANGED <<dims, order, tensor, max, idx, total, prefix, coords, block, stride, blocks>>

Next == Alto \/ Count \/ Relinearise \/ Split \/ Finish

Spec == Init /\ [][Next]_formatVars

-----------------------------------------------------------------------------

TypeOK ==
  /\ dims \in DimSets /\ order \in ModeOrders(dims) /\ max \in Nat
  /\ pc \in {"alto", "count", "relinearise", "split", "done"}
  /\ {idx, coords} \subseteq Seq(SUBSET (0 .. 2 * Width - 1))
  /\ \A i \in DOMAIN coords : coords[i] \subseteq 0 .. Width - 1
  /\ total \in Nat /\ block \in 0 .. block_count /\ stride \in Nat
  /\ blocks \in Seq([offset : Nat, nnz : Nat \ {0}, block_coords : [Mode -> SUBSET (0 .. Width - 1)]])

\* What a kernel that is given block b makes of the coordinates of its i-th nonzero.
Decoded(b, i) == [n \in Mode |-> Value[alt_pext(coords[b.offset + i], n, b)]]

\* Each nonzero of the tensor is in one block, and the kernels find its coordinates
\* again from its shortened index and the coordinates of that block.
FormatIsLossless ==
  pc = "done" =>
    /\ UNION {{Decoded(b, i) : i \in 1 .. b.nnz} : b \in Range(blocks)} = tensor
    /\ Sums([k \in DOMAIN blocks |-> blocks[k].nnz], Len(blocks))[Len(blocks)] = Cardinality(tensor)

\* The array of blocks is as long as was counted: no block is written behind it, and
\* none of its entries, which the device takes for blocks, is left unwritten.
BlocksAreCounted ==
  /\ pc = "split" => Len(blocks) <= total
  /\ pc = "done" => Len(blocks) = total /\ \A k \in DOMAIN blocks : blocks[k].nnz <= max
=============================================================================
