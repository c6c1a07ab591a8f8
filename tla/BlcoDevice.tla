------------------------------ MODULE BlcoDevice ------------------------------
(***************************************************************************)
(* The device-side BLCO tensor of exp/blocked-linearized-coordinate: what  *)
(* gen_blcotensor_device allocates for each of the two callers, and which  *)
(* elements each thread block of each MTTKRP kernel is given.              *)
(*                                                                         *)
(* Only constant operators; BlcoMttkrp runs them.                          *)
(***************************************************************************)
EXTENDS Naturals, FiniteSets, Sequences

CONSTANTS
  Nonzero,       \* the nonzeros of the tensor
  BlockCount,    \* at_host->block_count
  HostBlock,     \* HostBlock[b]: the nonzeros of at_host->blocks[b], in order
  MaxBlockSize,  \* at_host->max_block_size
  NUM_STREAMS,   \* utils.hpp: 8
  TILE_SIZE,     \* utils.hpp: 32
  ThreadCf,      \* thread_cf, the coarsening of level 2 and 3
  Nprtn,         \* nprtn, the partial matrices of a block in level 3
  AtomicThreads, \* element_stride of kernel 13: 32768
  Kernel,        \* 1, 2, 3, 10 (auto), 11, 12 (batched), 13 (atomic)
  CallSite,      \* who calls gen_blcotensor_device
  StreamData,    \* stream_data
  DoBatching     \* do_batching

HostBlocks == 0 .. BlockCount - 1

\* What gen_blcotensor_host produces: no empty block, none above the maximum.
ASSUME HostAssumption ==
  /\ BlockCount \in Nat \ {0}
  /\ MaxBlockSize \in Nat \ {0}
  /\ HostBlock \in [HostBlocks -> Seq(Nonzero)]
  /\ \A b \in HostBlocks : Len(HostBlock[b]) \in 1 .. MaxBlockSize

ASSUME LaunchAssumption ==
  /\ {NUM_STREAMS, TILE_SIZE, ThreadCf, Nprtn, AtomicThreads} \subseteq Nat \ {0}
  /\ Kernel \in {1, 2, 3, 10, 11, 12, 13}
  /\ CallSite \in {"mttkrp_alto_dev", "cpals_blco_dev"}
  /\ {StreamData, DoBatching} \subseteq BOOLEAN

Ceil(n, d) == (n + d - 1) \div d

-------------------------------------------------------------------------------
(* The allocation. *)

\* One stream and one device block per host block, or NUM_STREAMS of each.
StreamCount == IF StreamData THEN NUM_STREAMS ELSE BlockCount
Stream == 0 .. StreamCount - 1

\* The MB and do_batching that gen_blcotensor_device receives.  The benchmark
\* passes them in the declared order; CP-ALS passes (do_batching,
\* max_block_size), each converted to the type of the other.
RequestedSize == IF StreamData THEN MaxBlockSize ELSE 0
GenSwapped ==  \* (mutant) both callers swap the last two arguments
  [MB |-> IF DoBatching THEN 1 ELSE 0, batching |-> RequestedSize # 0]
Gen ==
  IF CallSite = "mttkrp_alto_dev"
    THEN [MB |-> RequestedSize, batching |-> DoBatching]
    ELSE [MB |-> IF DoBatching THEN 1 ELSE 0, batching |-> RequestedSize # 0]

\* The elements device block s can hold.  With MB = 0 it is the nnz of host
\* block s, which is read past the end of the host's array when s is not one.
CapacityOf(s) ==
  IF Gen.MB # 0 THEN {Gen.MB}
  ELSE IF s \in HostBlocks THEN {Len(HostBlock[s])}
  ELSE 0 .. MaxBlockSize

\* The host's block array is read for each device block, for its nnz when MB
\* is 0 and for its share of warp_info when batching.
GenReadsPastBlocks ==
  /\ ~(Stream \subseteq HostBlocks)
  /\ Gen.MB = 0 \/ Gen.batching

\* warp_info, for batching: an entry for each tile that the device blocks can hold, the
\* offset and the block in one number.
WarpInfoWholeTiles(cap) ==  \* (mutant) the last, partly filled tile is forgotten
  UNION {{j * TILE_SIZE * StreamCount + s : j \in 0 .. (cap[s] \div TILE_SIZE) - 1}
           : s \in Stream}
WarpInfo(cap) ==
  UNION {{j * TILE_SIZE * StreamCount + s : j \in 0 .. Ceil(cap[s], TILE_SIZE) - 1}
           : s \in Stream}

\* Its length is counted from the host blocks.
HostLengths == [s \in Stream |-> Len(HostBlock[s])]
WarpInfoOverflows(cap) ==
  /\ Gen.batching
  /\ Stream \subseteq HostBlocks
  /\ Cardinality(WarpInfo(cap)) > Cardinality(WarpInfo(HostLengths))

-------------------------------------------------------------------------------
(* The work of a launch: one record per thread block, with the device      *)
(* block it reads, the elements lo .. hi of it (counted from 1) and the    *)
(* partial matrix it adds to.                                              *)

Smaller(a, b) == IF a <= b THEN a ELSE b
ThreadBlockUnclipped(g, s, start, size, nnz, p) ==  \* (mutant) no min with nnz
  [id |-> g, block |-> s, lo |-> start + 1, hi |-> start + size, part |-> p]
ThreadBlock(g, s, start, size, nnz, p) ==
  [id |-> g, block |-> s, lo |-> start + 1, hi |-> Smaller(nnz, start + size), part |-> p]

\* Level 1 (and 2, coarsened): thread block g takes the g-th chunk.
ChunkGrid(s, nnz, chunk) ==
  {ThreadBlock(g, s, g * chunk, chunk, nnz, 0) : g \in 0 .. Ceil(nnz, chunk) - 1}

\* Level 3: Nprtn runs of consecutive chunks, one run per partial matrix;
\* thread block g works for partial matrix g % Nprtn.
PartitionGridRoundedDown(s, nnz) ==  \* (mutant) the share of a partition rounded down
  LET chunk == TILE_SIZE * ThreadCf
      blocks == Ceil(nnz \div Nprtn, chunk)
  IN {ThreadBlock(g, s, ((g % Nprtn) * blocks + g \div Nprtn) * chunk, chunk, nnz,
                  g % Nprtn) : g \in 0 .. Nprtn * blocks - 1}
PartitionGrid(s, nnz) ==
  LET chunk == TILE_SIZE * ThreadCf
      blocks == Ceil(Ceil(nnz, Nprtn), chunk)
  IN {ThreadBlock(g, s, ((g % Nprtn) * blocks + g \div Nprtn) * chunk, chunk, nnz,
                  g % Nprtn) : g \in 0 .. Nprtn * blocks - 1}

\* Atomic: thread t takes t, t + AtomicThreads, ...
AtomicGrid(s, nnz) ==
  {ThreadBlock(e % AtomicThreads, s, e, 1, nnz, 0) : e \in 0 .. nnz - 1}

\* Batched, version 1: the same number of thread blocks for every device block.
BatchedGrid(devNnz, maxNnz) ==
  LET warps == Ceil(maxNnz, TILE_SIZE)
  IN {ThreadBlock(g, g \div warps, (g % warps) * TILE_SIZE, TILE_SIZE,
                  devNnz[g \div warps], 0) : g \in 0 .. warps * StreamCount - 1}

\* Batched, version 2: one thread block for each entry of warp_info.
WarpInfoGrid(devNnz, cap) ==
  {ThreadBlock(wi, wi % StreamCount, wi \div StreamCount, TILE_SIZE,
               devNnz[wi % StreamCount], 0) : wi \in WarpInfo(cap)}

-------------------------------------------------------------------------------
(* Which kernel a mode gets; short: tmode_length <= LVL3_MAX_MODE_LENGTH.  *)

UsesPartials(short) == Kernel = 3 \/ (Kernel = 10 /\ short)
UsesWarpInfo(short) == Kernel = 12 \/ (Kernel = 10 /\ ~short /\ Gen.batching)
Batched(short) == Kernel = 11 \/ UsesWarpInfo(short)

\* mttkrp_atomic gives its kernel the masks of the device block.  Those are null:
\* gen_block_device leaves them to the parent.
FollowsBlockMasks == Kernel = 13

\* The thread blocks of one launch on device block s holding nnz elements.
Grid(short, s, nnz) ==
  IF Kernel = 2 THEN ChunkGrid(s, nnz, TILE_SIZE * ThreadCf)
  ELSE IF Kernel = 13 THEN AtomicGrid(s, nnz)
  ELSE IF UsesPartials(short) THEN PartitionGrid(s, nnz)
  ELSE ChunkGrid(s, nnz, TILE_SIZE)
===============================================================================
