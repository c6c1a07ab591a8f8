------------------------------ MODULE BlcoMttkrp ------------------------------
(***************************************************************************)
(* mttkrp_alto_dev_onemode of the BLCO solver on a GPU with its streams:   *)
(* the host issues asynchronous work to StreamCount streams, each a FIFO   *)
(* the device runs in its own time, and to the default stream, which runs  *)
(* only when every other stream has drained.                               *)
(*                                                                         *)
(* The numbers are abstracted to which nonzeros a buffer is the sum of; a  *)
(* ghost, exact, is lost when something is added that is not a nonzero or  *)
(* is already in the buffer, and another, fault, records an access outside *)
(* an allocation (undefined behaviour of which the model keeps the flag).  *)
(* The matrix that the caller passes for the result is added to, not set:  *)
(* its content is kept as what it held when the call began and what the    *)
(* call has added.                                                         *)
(***************************************************************************)
EXTENDS BlcoDevice

CONSTANTS
  ModeKinds,  \* the modes of the tensor: is one short, is one long
  MaxCalls,   \* bound: the calls that are explored
  Garbage     \* the content of device memory that was never written

ASSUME CallAssumption ==
  /\ ModeKinds \subseteq BOOLEAN
  /\ MaxCalls \in Nat
  /\ Garbage \notin Nonzero

VARIABLES
  pc,        \* where the host thread is
  calls,     \* finished calls
  short,     \* the mode of this call is at most LVL3_MAX_MODE_LENGTH long
  b,         \* the next host block to launch
  cap,       \* elements allocated in each device block
  blockNnz,  \* blk->nnz, the host's field of each device block
  staged,    \* blocks_dev_ptr and the block structs behind it were sent
  slot,      \* idx/vals of each device block
  queue,     \* the work of each stream that is not finished
  default,   \* the work of the default stream: "none", "zero" or "reduce"
  finished,  \* thread blocks of the kernel at the head of each stream that ran
  partial,   \* pmatrices of each device block
  merged,    \* partial_matrices: one per stream
  held,      \* what the result matrix held when the call began
  output,    \* what the call has added to it
  fault,
  exact

host == <<pc, calls, short, b>>
memory == <<slot, partial, merged, held, output, fault, exact>>
blcoVars == <<host, cap, blockNnz, staged, queue, default, finished, memory>>

Partition == 0 .. Nprtn - 1
Value == Nonzero \union {Garbage}
Work == [kind : {"zero", "copy", "kernel", "batch", "reduce"}, src : HostBlocks, nnz : Nat]
ZeroPartials == [kind |-> "zero", src |-> 0, nnz |-> 0]
ReducePartials == [kind |-> "reduce", src |-> 0, nnz |-> 0]
LaunchBatch == [kind |-> "batch", src |-> 0, nnz |-> 0]
CopyBlock(blk) == [kind |-> "copy", src |-> blk, nnz |-> 0]
LaunchKernel(blk, nnz) == [kind |-> "kernel", src |-> blk, nnz |-> nnz]

\* cudaMemcpy of block blk over a device block: what does not fit is lost (and
\* is a fault), what the copy does not reach keeps its old content.
Overwrite(mem, blk) ==
  [i \in DOMAIN mem |-> IF i <= Len(HostBlock[blk]) THEN HostBlock[blk][i] ELSE mem[i]]
Fits(blk, s) == Len(HostBlock[blk]) <= cap[s]

\* Content of the result matrix: n times the sum over the nonzeros, with or
\* without what was in it before the first call (in the benchmark the factor
\* of the target mode).
WholeSums(initial, n) == [initial |-> initial, times |-> [x \in Nonzero |-> n]]
Content ==
  [held EXCEPT !.times = [x \in Nonzero |-> held.times[x] + (IF x \in output THEN 1 ELSE 0)]]

\* CP-ALS clears the matrix before each call; the benchmark goes on adding to
\* the same one, as the sequential mttkrp does that --check compares it with.
ClearsResult == CallSite = "cpals_blco_dev"

-------------------------------------------------------------------------------
(* The host. *)

Init ==
  /\ pc = "start" /\ calls = 0 /\ short \in ModeKinds /\ b = 0
  /\ cap = [s \in Stream |-> 0]
  /\ blockNnz = [s \in Stream |-> 0]
  /\ staged = FALSE
  /\ slot = [s \in Stream |-> <<>>]
  /\ queue = [s \in Stream |-> <<>>]
  /\ default = "none"
  /\ finished = [s \in Stream |-> {}]
  /\ partial = [s \in Stream |-> [p \in Partition |-> {}]]
  /\ merged = [s \in Stream |-> {}]
  /\ held = WholeSums(TRUE, 0) /\ output = {}
  /\ fault = FALSE /\ exact = TRUE

\* gen_blcotensor_device and, when the tensor stays on the device,
\* send_blcotensor_over, which waits for its copies.
Prepare ==
  /\ pc = "start"
  /\ \E c \in [Stream -> UNION {CapacityOf(s) : s \in Stream}] :
       LET empty(s) == [i \in 1 .. c[s] |-> Garbage]
           lost == GenReadsPastBlocks \/ WarpInfoOverflows(c)
       IN /\ \A s \in Stream : c[s] \in CapacityOf(s)
          /\ cap' = c
          /\ IF StreamData
               THEN /\ slot' = [s \in Stream |-> empty(s)]
                    /\ blockNnz' = c
                    /\ fault' = lost
               ELSE /\ slot' = [s \in Stream |-> Overwrite(empty(s), s)]
                    /\ blockNnz' = [s \in Stream |-> Len(HostBlock[s])]
                    /\ fault' = (lost \/ \E s \in Stream : c[s] < Len(HostBlock[s]))
  /\ staged' = ~StreamData
  /\ pc' = "idle"
  /\ UNCHANGED <<calls, short, b, queue, default, finished, partial, merged, held, output, exact>>

\* The benchmark calls for one mode, its target_mode, again and again.
MayAsk(k) == CallSite = "mttkrp_alto_dev" /\ calls > 0 => k = short

\* (mutant) Partial matrices keep what the last call left in them.
BeginCallWithoutZeroing(k) ==
  /\ pc = "idle" /\ calls < MaxCalls /\ MayAsk(k)
  /\ short' = k /\ b' = 0
  /\ held' = (IF ClearsResult THEN WholeSums(FALSE, 0) ELSE Content) /\ output' = {}
  /\ pc' = "launching"
  /\ UNCHANGED <<calls, cap, blockNnz, staged, slot, queue, default, finished,
                 partial, merged, fault, exact>>

\* The caller calls for a mode, CP-ALS with a cleared result; partial matrices
\* are cleared, those of a block on its own stream.
BeginCall(k) ==
  /\ pc = "idle" /\ calls < MaxCalls /\ MayAsk(k)
  /\ short' = k /\ b' = 0
  /\ held' = (IF ClearsResult THEN WholeSums(FALSE, 0) ELSE Content) /\ output' = {}
  /\ IF UsesPartials(k)
       THEN /\ queue' = [s \in Stream |-> Append(queue[s], ZeroPartials)]
            /\ default' = IF StreamCount > 1 THEN "zero" ELSE "none"
            /\ pc' = "zeroing"
       ELSE pc' = "launching" /\ UNCHANGED <<queue, default>>
  /\ UNCHANGED <<calls, cap, blockNnz, staged, slot, finished, partial, merged, fault, exact>>

DeviceIdle == default = "none" /\ \A s \in Stream : queue[s] = <<>>

\* cudaDeviceSynchronize after the partial matrices were cleared.
SyncZero ==
  /\ pc = "zeroing" /\ DeviceIdle
  /\ pc' = "launching"
  /\ UNCHANGED <<calls, short, b, cap, blockNnz, staged, queue, default, finished, memory>>

\* The round robin starts at block_count % streams, so that without streaming
\* host block i meets device block i.
StreamOf(blk) == (BlockCount + blk) % StreamCount

\* (mutant) send_block_over leaves blk->nnz as the last block set it.
LaunchBlockStaleNnz ==
  /\ pc = "launching" /\ ~Batched(short)
  /\ LET s == StreamOf(b)
         copy == IF StreamData THEN <<CopyBlock(b)>> ELSE <<>>
     IN queue' = [queue EXCEPT ![s] = @ \o copy \o <<LaunchKernel(b, blockNnz[s])>>]
  /\ b' = b + 1
  /\ pc' = IF b + 1 = BlockCount THEN "merging" ELSE "launching"
  /\ UNCHANGED <<calls, short, cap, blockNnz, staged, default, finished, memory>>

\* (mutant) The loop runs once too often.
LaunchOneBlockMore ==
  /\ pc = "launching" /\ ~Batched(short)
  /\ LET s == StreamOf(b)
     IN queue' = [queue EXCEPT ![s] = Append(@, LaunchKernel(b, blockNnz[s]))]
  /\ b' = b + 1
  /\ pc' = IF b = BlockCount THEN "merging" ELSE "launching"
  /\ UNCHANGED <<calls, short, cap, blockNnz, staged, default, finished, memory>>

\* One pass of the launch loop: copy (when streaming) and kernel on one stream.
\* send_block_over sets blk->nnz at once, the copies take place later.
LaunchBlock ==
  /\ pc = "launching" /\ ~Batched(short)
  /\ LET s == StreamOf(b)
         nnz == IF StreamData THEN Len(HostBlock[b]) ELSE blockNnz[s]
         copy == IF StreamData THEN <<CopyBlock(b)>> ELSE <<>>
     IN /\ queue' = [queue EXCEPT ![s] = @ \o copy \o <<LaunchKernel(b, nnz)>>]
        /\ blockNnz' = [blockNnz EXCEPT ![s] = nnz]
  /\ b' = b + 1
  /\ pc' = IF b + 1 = BlockCount THEN "merging" ELSE "launching"
  /\ UNCHANGED <<calls, short, cap, staged, default, finished, memory>>

\* Batched kernels: one launch, on stream 0, for every device block.  Without
\* warp_info it has no thread block, which CUDA refuses, and the program ends.
LaunchAll ==
  /\ pc = "launching" /\ Batched(short)
  /\ UsesWarpInfo(short) => Gen.batching
  /\ queue' = [queue EXCEPT ![0] = Append(@, LaunchBatch)]
  /\ pc' = "merging"
  /\ UNCHANGED <<calls, short, b, cap, blockNnz, staged, default, finished, memory>>

\* (mutant) Only the final reduction is issued.
MergeFinalOnly ==
  /\ pc = "merging"
  /\ default' = IF UsesPartials(short) THEN "reduce" ELSE default
  /\ pc' = "syncing"
  /\ UNCHANGED <<calls, short, b, cap, blockNnz, staged, queue, finished, memory>>

\* The reduction of each block's partial matrices is queued on its stream, the
\* final one on the default stream.
Merge ==
  /\ pc = "merging"
  /\ IF UsesPartials(short)
       THEN /\ queue' = IF StreamCount > 1
                          THEN [s \in Stream |-> Append(queue[s], ReducePartials)]
                          ELSE queue
            /\ default' = "reduce"
       ELSE UNCHANGED <<queue, default>>
  /\ pc' = "syncing"
  /\ UNCHANGED <<calls, short, b, cap, blockNnz, staged, finished, memory>>

\* The caller synchronises with the device and uses the result.
EndCall ==
  /\ pc = "syncing" /\ DeviceIdle
  /\ pc' = "idle" /\ calls' = calls + 1
  /\ UNCHANGED <<short, b, cap, blockNnz, staged, queue, default, finished, memory>>

\* The bound on calls is reached.
Stop ==
  /\ pc = "idle" /\ calls = MaxCalls
  /\ UNCHANGED blcoVars

-------------------------------------------------------------------------------
(* The device. *)

AtHead(s, kind) == queue[s] # <<>> /\ Head(queue[s]).kind = kind
Pop(s) == queue' = [queue EXCEPT ![s] = Tail(@)]

Zero(s) ==
  /\ AtHead(s, "zero") /\ Pop(s)
  /\ partial' = [partial EXCEPT ![s] = [p \in Partition |-> {}]]
  /\ UNCHANGED <<host, cap, blockNnz, staged, default, finished,
                 slot, merged, held, output, fault, exact>>

Copy(s) ==
  /\ AtHead(s, "copy") /\ Pop(s)
  /\ LET blk == Head(queue[s]).src
     IN /\ slot' = [slot EXCEPT ![s] = Overwrite(@, blk)]
        /\ fault' = (fault \/ ~Fits(blk, s))
  /\ UNCHANGED <<host, cap, blockNnz, staged, default, finished,
                 partial, merged, held, output, exact>>

\* The thread blocks of the kernel at the head of stream s.  A batched kernel
\* finds the device blocks through blocks_dev_ptr, which holds nothing until
\* the block structs were sent.
Largest(sizes) == {m \in sizes : \A n \in sizes : n <= m}
StagedNnz == [s \in Stream |-> IF staged THEN Len(HostBlock[s]) ELSE 0]
ThreadBlocks(s) ==
  LET op == Head(queue[s])
  IN IF op.kind = "kernel" THEN Grid(short, s, op.nnz)
     ELSE IF Kernel = 11
       THEN UNION {BatchedGrid(StagedNnz, max_nnz) : max_nnz \in Largest({cap[r] : r \in Stream})}
     ELSE WarpInfoGrid(StagedNnz, cap)
RunningKernel(s) == AtHead(s, "kernel") \/ AtHead(s, "batch")

\* The sum in a buffer goes from `into` to `into' by adding the values vals.
AddsOnce(vals, into) == vals \subseteq Nonzero /\ vals \intersect into = {}

\* A thread block adds its elements to the result with atomicAdd, or, in
\* level 3, to the partial matrix of its partition.  One that follows a null
\* pointer to its masks gets no further.
RunThreadBlock(s) ==
  /\ RunningKernel(s)
  /\ \E t \in ThreadBlocks(s) \ finished[s] :
       LET mem == slot[t.block]
           read == IF FollowsBlockMasks THEN {} ELSE (t.lo .. t.hi) \intersect DOMAIN mem
           vals == {mem[i] : i \in read}
           into == IF UsesPartials(short) THEN partial[s][t.part] ELSE output
           distinct == \A i, j \in read : mem[i] = mem[j] => i = j
       IN /\ finished' = [finished EXCEPT ![s] = @ \union {t}]
          /\ exact' = (exact /\ AddsOnce(vals, into) /\ distinct)
          /\ fault' = (fault \/ FollowsBlockMasks \/ ~(t.lo .. t.hi \subseteq DOMAIN mem)
                             \/ (AtHead(s, "batch") /\ ~staged))
          /\ IF UsesPartials(short)
               THEN /\ partial' = [partial EXCEPT ![s][t.part] = @ \union vals]
                    /\ UNCHANGED output
               ELSE /\ output' = output \union vals
                    /\ UNCHANGED partial
  /\ UNCHANGED <<host, cap, blockNnz, staged, queue, default, slot, merged, held>>

\* A kernel ends, and the next work of its stream may begin, when all its
\* thread blocks ran.
Retire(s) ==
  /\ RunningKernel(s) /\ ThreadBlocks(s) = finished[s]
  /\ Pop(s)
  /\ finished' = [finished EXCEPT ![s] = {}]
  /\ UNCHANGED <<host, cap, blockNnz, staged, default, memory>>

\* partial_matrix_reduction adds a set of matrices, one after the other.
Reduced(matrices) == UNION {matrices[i] : i \in DOMAIN matrices}
ReducesOnce(matrices, into) ==
  /\ \A i \in DOMAIN matrices : AddsOnce(matrices[i], into)
  /\ \A i, j \in DOMAIN matrices : i # j => matrices[i] \intersect matrices[j] = {}

Reduce(s) ==
  /\ AtHead(s, "reduce") /\ Pop(s)
  /\ merged' = [merged EXCEPT ![s] = @ \union Reduced(partial[s])]
  /\ exact' = (exact /\ ReducesOnce(partial[s], merged[s]))
  /\ UNCHANGED <<host, cap, blockNnz, staged, default, finished,
                 slot, partial, held, output, fault>>

\* The (legacy) default stream waits for the work of all others.
Drained == \A s \in Stream : queue[s] = <<>>

DefaultZero ==
  /\ default = "zero" /\ Drained
  /\ merged' = [s \in Stream |-> {}]
  /\ default' = "none"
  /\ UNCHANGED <<host, cap, blockNnz, staged, queue, finished,
                 slot, partial, held, output, fault, exact>>

DefaultReduce ==
  /\ default = "reduce" /\ Drained
  /\ LET matrices == IF StreamCount > 1 THEN merged ELSE partial[0]
     IN /\ output' = output \union Reduced(matrices)
        /\ exact' = (exact /\ ReducesOnce(matrices, output))
  /\ default' = "none"
  /\ UNCHANGED <<host, cap, blockNnz, staged, queue, finished,
                 slot, partial, merged, held, fault>>

-------------------------------------------------------------------------------

Host ==
  \/ Prepare \/ SyncZero \/ LaunchBlock \/ LaunchAll \/ Merge \/ EndCall
Device ==
  \/ DefaultZero \/ DefaultReduce
  \/ \E s \in Stream : Zero(s) \/ Copy(s) \/ RunThreadBlock(s) \/ Retire(s) \/ Reduce(s)

Next == Host \/ Device \/ (\E k \in ModeKinds : BeginCall(k)) \/ Stop

\* The host runs on; every work that was issued is executed in the end.
Fairness == WF_blcoVars(Host) /\ WF_blcoVars(Device)

Spec == Init /\ [][Next]_blcoVars /\ Fairness

-------------------------------------------------------------------------------

TypeOK ==
  /\ pc \in {"start", "idle", "zeroing", "launching", "merging", "syncing"}
  /\ calls \in 0 .. MaxCalls
  /\ short \in BOOLEAN
  /\ b \in 0 .. BlockCount
  /\ cap \in [Stream -> Nat]
  /\ blockNnz \in [Stream -> Nat]
  /\ staged \in BOOLEAN
  /\ slot \in [Stream -> Seq(Value)]
  /\ queue \in [Stream -> Seq(Work)]
  /\ default \in {"none", "zero", "reduce"}
  /\ DOMAIN finished = Stream
  /\ partial \in [Stream -> [Partition -> SUBSET Value]]
  /\ merged \in [Stream -> SUBSET Value]
  /\ held \in [initial : BOOLEAN, times : [Nonzero -> Nat]]
  /\ output \subseteq Value
  /\ {fault, exact} \subseteq BOOLEAN

\* No copy and no kernel touches memory outside the allocation of its device
\* block, and no kernel follows a block pointer that was never sent: what
\* send_block_over (blco.hpp: "assumes the GPU block has sufficient space")
\* and mttkrp_lvl1_batched ("assume no streaming") take for granted.
NoFault == ~fault

\* When the caller goes on, the result matrix holds the sum over all nonzeros
\* with none left out and none added twice, whatever the streams did in
\* between: once where CP-ALS cleared it before, and once for each call on top
\* of the factor where the benchmark calls again and again.
ResultIsWholeSum ==
  pc = "idle" /\ calls > 0 =>
    exact /\ Content = IF ClearsResult THEN WholeSums(FALSE, 1) ELSE WholeSums(TRUE, calls)

\* A kernel that runs on stream s finds in device block s the host block it
\* was launched for, although the host ran ahead and has set blk->nnz and
\* queued copies for later blocks already.
KernelReadsItsBlock ==
  \A s \in Stream : AtHead(s, "kernel") =>
    LET op == Head(queue[s])
    IN /\ op.nnz = Len(HostBlock[op.src])
       /\ op.nnz <= Len(slot[s])
       /\ \A i \in 1 .. op.nnz : slot[s][i] = HostBlock[op.src][i]

\* The streams implement the single sum of module Mttkrp.  A sum that is not
\* exact is none.
Abstract == INSTANCE Mttkrp WITH
  Clears <- ClearsResult,
  busy <- pc \in {"zeroing", "launching", "merging", "syncing"},
  result <- IF pc \in {"start", "idle"} /\ exact THEN Content ELSE held
ImplementsMttkrp == Abstract!Spec
===============================================================================
