# TLA+ verification of the tensor completion experiments

The repository compares four programs for the completion of sparse tensors
(cuTC, BLCO, GenTen and CoSTCo) on common data splits, and holds the scripts
that run the comparison on a shared GPU and take it up again after every
interruption. What the comparison is worth depends on three things: each program
computes what it says (no nonzero is left out or taken twice by a format, a stream
or a block of a GPU kernel, and ranks that share a model agree on it), each stops
training by the same rule, and no result file is mistaken for complete. The modules
here model those three: the format and the streamed MTTKRP of BLCO, the federated
epochs of GenTen, the stopping rules of the four programs, and the scripts with the
locks they take and the files they leave behind.

1. [The system](#1-the-system)
2. [Modules](#2-modules)
3. [Runs](#3-runs)
4. [Fairness](#4-fairness)
5. [Proofs](#5-proofs)
6. [Disagreements between code and its own words](#6-disagreements)
7. [Not modelled](#7-not-modelled)
8. [Plan](#8-plan)

## 1. The system

### Scripts (`src/*.sh`, `src/export_common_splits_to_tns.py`)

| part | state it keeps | operations | hard behaviours |
|---|---|---|---|
| Resume waiter, `resume_newlog2_when_gpu_free.sh` | a lock directory, a pid file | take the lock or find it stale (16-26), poll `nvidia-smi` (29-38), call the runner and wait (40-48), exit trap (27) | two waiters at once; SIGKILL at any line; a pid that belongs to another program later |
| Split runner, `run_newlog2_common_splits.sh` (and `run_newlog1_common_splits.sh`, the same with other paths) | result files `<result>`, unfinished `<result>.tmp`, the exported `.tns` files and their `manifest.json` | export once, then for every experiment: skip if there are rows, `rm -f` the tmp, run the program, convert its log, `mv` | killed anywhere; a program that fails halfway in a pipeline; two runners that use the same names |
| Export, `export_common_splits_to_tns.py` | `.tns` files, manifest | write each data set, then the manifest | killed halfway: files that can be read without an error and are not whole |
| Sync, `sync_newlog2_resume_artifacts.sh`; restore, `restore_newlog2_csv_snapshot.sh` | the same directories, from outside | copy the manifest, then one data set (resume mode); copy a snapshot of the results | a manifest that stands for more data than was copied |
| GPU lock, `lock_gpu_for_newlog2_until_done.sh` | group and mode of `/dev/nvidia*`, a backup of them, the pid it watches | find the waiter by its pid file, back up, `chgrp`, `chmod`; a monitor restores when the pid is gone | a later call backs up what an earlier one left; reused pid; a call that dies halfway |

The waiter calls the runner in a pipeline and waits for its end; the runner calls
the export and the four programs, one at a time, and shares with later runners
nothing but the files. Correct means: at most one waiter is active and only dead
ones lose their lock; a result that will be skipped is the whole output of one
program on whole input, and is never touched again; whoever starts a waiter and is
not interrupted gets all results; the devices are restricted while the waiter lives
and have their own permissions afterwards.

### BLCO (`src/exp/blocked-linearized-coordinate`)

The host interleaves the bits of the coordinates to one index (`alto.hpp`), sorts the
nonzeros by it and cuts them into blocks that share the upper half of the index
(`blco.hpp`). `blco.cu` allocates
device blocks, `alto_dev.cu` computes the MTTKRP: it clears partial matrices,
sends blocks to streams in round robin (copy, then kernel), and merges. `cpd_gpu.cu`
calls it once per mode and epoch in CP-ALS, and sums vectors on the device for the
fit (`vecsum`). State: device blocks and the host's
view of them (`blk->nnz`), the streams' queues, partial matrices, `warp_info`.
Hard: everything is asynchronous; a device block is refilled while the host has
already changed its metadata; buffers are reused by all modes and epochs; the
grids of seven kernels divide nonzeros with different roundings; allocation
sizes depend on which of two call sites made them; masks and shifts around bit 64;
a reduction in place by thread blocks in any order. Correct means: no access outside
an allocation, each kernel sees the block it was launched for and decodes the
coordinates that went into it, and a call adds to the result the sum over all nonzeros,
each of them once. Whether the result starts from zero is the caller's affair: CP-ALS
clears it before each call (`cpd_gpu.cu:254`), the benchmark calls `iters` times for one
mode and goes on adding to that factor (`alto_dev.cu:1914`), as the sequential `mttkrp`
of `cpd.hpp:539` does, with which `--check` compares it (after one call).

### Training loops

`sgd.cu`/`completion.c` (cuTC), `cpd_gpu.cu` (BLCO),
`run_genten_sparse_tns_epoch_metrics.py` (GenTen) and `run_costco.py` each keep the
best monitored RMSE and a count of bad epochs; cuTC also keeps the best model.
Hard: NaN, the first epoch, improvements smaller than the tolerance. Correct
means: a program stops exactly when it has stalled, all four agree on that, and
cuTC reports its best model.

### GenTen core (`src/GenTen/src`)

GenTen is a library of CP decompositions on Kokkos with MPI. In GCP-FedOpt and
GCP-FedAvg (`Genten_GCP_FedOpt.hpp`) every rank takes gradient steps on its own
samples; every `downpour_iters` steps the ranks that hold the same block of a factor
matrix average it (or take a meta step with the averaged difference), and after
`epoch_iters` steps all ranks estimate the objective together and keep or undo the
epoch. State: model, meta model, best model, the moments and powers of two steppers,
`fest_prev`, `nfails`, on every rank. Hard: ranks are at different points between
collectives; each decides by its own variables; an epoch to undo is spread over all
this state; NaN. Correct means: all decide alike and end, copies of a block agree, a
failed epoch leaves no trace, and the returned model holds the steps of the epochs
that passed: what the loop of one process (`GCPSGD::solve`) does.

The other distributed updates (`Genten_DistKtensorUpdate.*`, the asynchronous
iteration), CP-ALS and the MTTKRP of GenTen are not modelled.

### cuTC's other kernels, multi-GPU and autotuning

cuTC has ALS and CCD kernels, versions for several GPUs, and a genetic search for
kernel parameters. Section 7 says why they are not modelled, section 8 which of them
come next.

## 2. Modules

| module | models | extends / instantiates |
|---|---|---|
| `Mttkrp` | what the caller of the MTTKRP relies on: call, then the whole sum has been added to the result | |
| `BlcoDevice` | constant operators: allocation (`Gen`, `CapacityOf`, `WarpInfo`), the thread blocks of each kernel (`ChunkGrid`, `PartitionGrid`, `AtomicGrid`, `BatchedGrid`, `WarpInfoGrid`), kernel choice | |
| `BlcoMttkrp` | host thread, streams, default stream, memory | `BlcoDevice`; `Abstract == INSTANCE Mttkrp` |
| `BlcoFormat` | the ALTO index, the cut into blocks, the decoding in the kernels | |
| `VecSum` | the in-place sum of a vector over several thread blocks | |
| `MttkrpTile` | one thread block: the sort of a tile by output row, the runs, the stash | |
| `ResumeWaiter` | the waiter's lock | |
| `SplitRunner` | export, experiments and files | |
| `ResumeSystem` | waiters with their runners | `W == INSTANCE ResumeWaiter`, `R` and `Solo == INSTANCE SplitRunner` |
| `GpuLock` | calls of the GPU lock and their monitors, beside the waiters | extends `ResumeWaiter` |
| `EarlyStop` | the four stopping rules on one curve | |
| `GcpSgd` | the epoch loop of `GCPSGD::solve` as one process runs it | |
| `FedOpt` | the ranks of GCP-FedOpt and GCP-FedAvg | `Solo == INSTANCE GcpSgd` |
| `MC*` | values for TLC | the module of that name |
| `*Proofs` | theorems | the module of that name, `TLAPS`; `ResumeSystemProofs` also instantiates `GpuLockProofs`, which begins with the theorems on the waiters' lock, and `SplitRunnerProofs`, whose lemmas it uses |

**BlcoMttkrp.** One action per host statement that acts on the device:
`Prepare` (`gen_blcotensor_device`, `send_blcotensor_over`), `BeginCall` (the call, with
the clearing of the result in CP-ALS and the zeroing of the partial matrices), `SyncZero`, `LaunchBlock` (one pass of the launch loop, in
which `send_block_over` sets `nnz` at once and queues the copies) or `LaunchAll`
(one batched launch; kernel 12 without `warp_info` has no thread block, CUDA refuses it and
the program ends, so there is no such step), `Merge`, `EndCall`. Each stream is a queue of `Work`;
`Copy`, `Zero`, `RunThreadBlock`, `Retire` and `Reduce` take from its head
whenever they like, and `DefaultZero` and `DefaultReduce` only when all queues are
empty, as the legacy default stream does. Numbers are abstracted to *sets of
nonzeros*: a buffer is the set it is the sum of, and the ghost `exact` is lost
as soon as something is added twice or is garbage. The ghost `fault` records an
access outside an allocation. The result matrix is kept as `held`, what it held when the
call began, and `output`, what the call has added; `Content` is the two together: how
often each nonzero has been added, and whether the first content (in the benchmark the
factor of the mode) is still there. `ClearsResult` tells the two callers apart. The
benchmark asks for one mode throughout (`MayAsk`); CP-ALS may ask for its modes in any
order, which covers the order of its epochs. Kernel 13 is given the masks of the device
block, which are null (`FollowsBlockMasks`): its first thread block is a fault. `RunThreadBlock` adds the elements of a thread block
in one step; how the lanes of its warp do that is `MttkrpTile`.

**BlcoFormat.** `Alto` is `gen_alto` (interleave and sort), `Count`, `Relinearise`, `Split`
and `Finish` the passes of `gen_blcotensor_host` in their order; `Split` is one pass
of its inner loop. A word is the set of its bits that are one, so that `pdep`, `pext`,
shifts and masks are what they do to bits; `Width` is the width of an integer, and the
index has two; that the index fits is an assumption (`FormatAssumption`), as it is an
assertion of the code (`alto.hpp:637`). The number of a word is how many words are below it
(`Value`; `Word` is its inverse), and a running total is a function (`Sums`). The length of
the histogram is a number here and an `int` in the code (`1 << block_count`): an index of
95 bits and more is outside of what is said. `std::sort` may leave modes of equal length in any order
(`ModeOrders`). `Decoded` is what a kernel computes with shift, mask and
`block_coords`.

**VecSum.** `Load` is one thread, `Write` thread 0 of a block behind the barrier of that
block, `NextLaunch` the loop of `vecsum`. Entries are bags of the entries summed in
them, so an entry that is lost and one that is counted twice are told apart.

**MttkrpTile.** One thread block with its shared memory. `Sort` is the code from the
top of the `while (curr_elem < end_elem)` loop to the segment mask: the partition by
output row and the scan give each lane its `Place`, and what earlier tiles left in
`nnz_val` stays where no lane writes. Then, per row, `Claim` (the stash line) and `Add`
(the `do ... while` over the run), `NextTile`, and `Flush` at the end. `stashed` tells
levels 2 and 3 from level 1. The lanes do the same for different columns and are taken
to pass the branch on a tag together, so a row is one sum and an action is a step of
the warp; groups are numbered by their first lanes, as `meta_group_rank` does, which
is what puts idle lanes last.

**ResumeWaiter.** One action per line of the script that changes the lock, the pid
file or the flow. `Alive(p)` is `kill -0`. A killed waiter leaves everything as it
is; its pid may go to another program (`OtherProgram`) when `Reuse`. Each waiter
has a pid of its own, so that a pid in the file can outlive its waiter. `Spaced`
keeps starts and stops apart: the few lines that take or give back the lock of one
waiter are over when another begins them. The script has races in
these lines (section 6), and what it promises holds without them.

**GpuLock.** The waiters of `ResumeWaiter`, and one action per line of the lock script and
of its monitor. Group and mode of the devices are separate, as `chgrp` and `chmod` are.
The watched pid is an argument or the content of the pid file when the call reads it;
it may be dead, and probed, at any later moment. `CallDies` is a kill or a failing
command under `set -e`; no trap cleans up. `InTurn` says that a call is made only when
the monitor of the last one is done.

**SplitRunner.** A *name* (`tmp[e]`, `out[e]`) refers to a *file*, and a program
with an open file keeps writing to it whatever happens to the name; only so can
two overlapping runners be told apart from one. A file records its rows, who wrote
to it, whether its program ended well, and whether the input was whole. `Finish`
is the end of the pipeline under `set -euo pipefail`; `Crash` kills the runner with
its program. `Serial` says that a runner starts only when no other runs; it is an
assumption here and a consequence in `ResumeSystem`. `SyncManifest` and `SyncData`
are the resume mode of the sync script.

**ResumeSystem.** `Resume` is the joint step in which the waiter sees a free GPU and
its runner starts, `RunnerEnds` the return from the pipeline. `together` says whether
a signal that ends a waiter ends its runner, as Ctrl-C and a stop of the machine do, or
the waiter alone, as `kill` does; it is chosen at the start from `Signals`. The property
`RunnersInTurn` is refinement: a system in which signals
reach both implements `SplitRunner` with `Serial = TRUE`, so all that is checked and
proved of runners in turn holds here.

**EarlyStop.** All four programs judge the *same* curve, one epoch per step, each
until it stops. `Judge` is the comparison with the best value (NaN is never
smaller; GenTen skips it), `Verdict` the end of an epoch, `Keep` the checkpoint of
`tc_converge`. RMSEs are natural numbers, since the rule only compares and adds.
`StopMeansStalled` and `StallMeansStopped` say by quantifiers over the whole curve
what the code computes with two running variables.

**FedOpt.** One action per step of a rank between two collectives: `LocalStep`
(`do_epoch_iter`, and the difference sent in FedOpt), `Averaged` or `MetaStep` after
the all-reduces, `Evaluate`, then `Start`, `Pass` or `Fail`. `SubGridAllReduce(n, G)` is
a joint step of the ranks of one sub-communicator, in each rank's own loop over the
modes; `GridAllReduce` one of all ranks. A block of a factor matrix, a moment or a
difference is the *set of gradient steps* in it, and averaging is union: what is lost,
kept from a failed epoch, or different between copies shows in the sets; how large a
step is does not. The exponent `t` of `beta1t` and `beta2t` is kept, because `adam_step` of
`t <= 0` is not a number. The estimates are free, as far as the model has no NaN.
`ImplementsGcpSgd` maps the ranks to one process: the state of the rank that is last
to decide.

## 3. Runs

| run | configuration | question | bounds, and why they are enough |
|---|---|---|---|
| `blco_stream` | benchmark, `--stream`, kernel auto | do the streams implement one sum, with copies and kernels of later blocks queued behind earlier ones? | 4 blocks of 2,1,2,1 nonzeros on 3 device blocks: one is refilled, by a short and by a long block; 2 calls for one mode, short or long: buffers are reused, and the second sum comes on top of the first |
| `blco_resident` | benchmark, resident, batching, kernel auto | are the two rounded divisions of level 3, the launch with `warp_info` and the reuse of partial matrices right? | blocks of a tile and a rest, less than a tile, one tile; 2 partitions; 2 calls, both with level 3 kernels (short mode) or both with one batched launch (long mode) |
| `blco_cpals_stream` | CP-ALS, `--stream` | *violation*: section 6 | the smallest tensor with an uneven round robin |
| `blco_format` | all tensors | is the format lossless, and are as many blocks made as counted? | integers of 3 bits; tensors whose index fits, whose upper half has bits of one mode and of two, and with modes of equal length in either order; up to 3 nonzeros; block sizes 1, 2 and no limit |
| `vector_sum` | vectors of one thread block and of two | *violation*: section 6 | blocks of 2 threads |
| `blco_tile` | one thread block, with and without a stash | is every element added once, whatever the rows are? | tiles of 4 lanes, 3 rows of which 2 share a line of the stash, all sequences of up to 6 rows: a full and a partly filled tile, a row that is evicted and comes back |
| `gpu_lock` | 2 waiters, kills, reused pids, spaced; 2 calls of the GPU lock in turn, fair | lock discipline, stale locks; do the devices follow the waiter, and come back? | a lock left by one waiter and met by the other; a call that saves what an earlier one restored, that watches a pid dead before, or one that goes to another program |
| `runner_restarts` | 3 runners in turn, kills anywhere, sync | are skipped results complete and final, also where a runner takes over from one that took over? | 2 data sets, 3 experiments (two on the same data, with and without the export), 2 rows (a partial result with a row, and one to go) |
| `resume_system` | 2 waiters and their runners, fair, signals to both or to one | do runners in turn never overlap, does a start lead to all results, is a refusal true, and does every runner end? | one waiter leaves any remains, the other meets them; two runners at once empty, move and continue each other's files |
| `early_stop` | all curves | stopping, agreement, checkpoint | 5 RMSE values and NaN, tolerance 1, patience 2, up to 6 epochs: bad epochs before and after an improvement, small decreases that add up, NaN at every place |
| `fed_epochs` | FedAvg with ADAM; FedOpt with momentum and ADAM, and with AdaGrad twice | do ranks agree, decide alike, forget failed epochs and end, and together run the loop of one process? | a 2 x 2 grid: each block has two holders, and each rank two groups; 3 steps with a synchronisation after 2: a whole and a short round; 2 epochs and 1 allowed failure: pass and fail in either order, and the end by each of the three conditions |
| `fed_restart` | FedOpt, ADAM as meta step | *violation*: section 6 | 2 ranks, as above |

Properties of the passing runs, and what each says:

* `NoFault`, `ResultIsWholeSum`, `KernelReadsItsBlock`, `ImplementsMttkrp`: no
  access outside an allocation; each call adds the sum of all nonzeros, each once, to
  the result, which after n calls of the benchmark is its first content and n sums, and
  one sum after a call of CP-ALS; the block under a running kernel is the one it was launched for; the
  whole is a refinement of `Mttkrp`.
* `FormatIsLossless`: each nonzero is in one block, and what a kernel decodes there are its
  coordinates. `BlocksAreCounted`: the array of blocks is neither overrun nor left
  partly unwritten.
* `LockDiscipline`: the inductive invariant of the lock. `AtMostOneActive`,
  `OnlyStaleLocksRemoved`: at most one waits or runs; a lock removed as stale has no
  live holder. `LockedWhileWatched`: unless a call died halfway, the devices are
  restricted while a monitor watches, and have their own permissions when no call is
  under way. `DevicesComeBack`: restricted devices are given back, unless a call died
  or the watched pid belongs to another program.
* `RunnerInv`: the inductive invariant of the runners. `AcceptedIsComplete`: a result
  that will be skipped has one writer, which ended well and read whole data.
  `AcceptedIsFinal`: nothing touches it again. `DoneMeansAllDone`: the final message
  is printed only with all results there.
* `RunnersInTurn`, `RefusalsAreTrue`, `StartGetsResults`, `RunnersFinish`: as above.
* `TileIsGrouped`: after the sort each row of a tile is one run that begins at a head,
  and idle lanes are behind a head of their own. `NothingIsLost`: every element added
  so far is once in the output or in the stash line of its row. `Ends`: no run is empty.
* `StopMeansStalled`, `StallMeansStopped`, `BestIsReturned`, `SameStop`: there were
  `Patience` epochs without improvement if and (for a curve that never decreases)
  only if the program has stopped; cuTC's model is the best, the earliest if several
  are; the four agree on curves without NaN that begin with a clear improvement.
* `RanksDecideAlike`: ranks that decided the same number of epochs have the same best
  estimate, failures and verdict, and none is more than one decision ahead.
  `ReplicasAgree`: copies of a block agree after each synchronisation that ends an
  epoch and at the start of the next. `FailedEpochsAreForgotten`: no step of a failed
  epoch is left in the model, the meta model or a moment. `LocalStepperIsRestored`: the
  exponent of the bias correction counts the steps of passed epochs. `ModelIsWhole`: the
  returned model holds every step of every rank in every passed epoch, and no other.
  `AllFinish`: no rank waits for ever in a collective. Which epochs passed is said of
  the curve of estimates alone (`Passed`), not of the variables of the loop.
* `TypeOK`: types; in `EarlyStop` with the bound `bad <= Patience`.

Bounds: `MaxCalls` (calls of the MTTKRP), `MaxRows` (rows of a result), `MaxElements`
(elements of a thread block), `MaxNonzeros` and `DimSets` (tensors), `MaxEpochs`
and `MaxRmse`, `LocalValues` (estimates of a rank), and the number of pids, runners and
calls of the GPU lock, each of which starts once.
`NUM_STREAMS`, `TILE_SIZE`, `Nprtn`, `Width`, `EpochIters` and the others are options or
constants of the code (8, 32, ...) that the cfgs make small; the proofs are for all
values.

## 4. Fairness

* `BlcoMttkrp`: weak fairness of the host thread and of the device. The host waits only
  for the device, and CUDA executes all work that is issued. The caller need not
  call again (`BeginCall` has no fairness). `Mttkrp` demands that a call returns.
* `SplitRunner`: weak fairness of each runner's own steps, which a shell script has
  until it is killed; `StartRunner` and `Crash` have none.
* `ResumeSystem`: of each script's lines, of its runner's steps and of `Resume`: the
  GPU is free in the end and stays so until the script polls. The script itself
  waits for that without a limit, so nothing can be promised otherwise.
* `MttkrpTile`: weak fairness of its steps; a thread block that runs is not stopped.
* `GpuLock`: of the lines of each script and each monitor, of the free GPU and of the end
  of a runner, as above. A call may be made or not, and die or not.
* `FedOpt`: `WF_vars(Next)`, the weakest there is: as long as some rank can go on, some
  rank does. MPI ranks never wait except in collectives, so a rank that is stuck would
  end in a state without a step.
* `BlcoFormat`, `VecSum` and `EarlyStop` are used for safety only.

## 5. Proofs

All theorems are for every value of the constants that satisfies the module's
assumptions.

| theorem | statement |
|---|---|
| `BlcoMttkrpProofs!Typing` | `Spec => []TypeOK` |
| `BlcoMttkrpProofs!StreamedKernelsReadTheirBlocks` | with streaming, from the benchmark's call site: `Spec => []KernelReadsItsBlock` |
| `BlcoMttkrpProofs!KernelsReadTheirBlocks` | `Supported`: `Spec => []KernelReadsItsBlock` |
| `BlcoMttkrpProofs!SupportedIsSafe` | `Supported`: `Spec => []NoFault` |
| `BlcoMttkrpProofs!ResultIsWhole` | `Partitioned`, `Supported`: `Spec => []ResultIsWholeSum` |
| `BlcoMttkrpProofs!CallsAreSums` | `Partitioned`, `Supported`: the safety part of `ImplementsMttkrp` |
| `BlcoFormatProofs!Typing` | `Spec => []TypeOK` |
| `BlcoFormatProofs!FormatLosesNothing` | `Spec => []FormatIsLossless` |
| `BlcoFormatProofs!BlocksCounted` | `Spec => []BlocksAreCounted` |
| `MttkrpTileProofs!TilesAreGrouped` | `Spec => []TileIsGrouped` |
| `MttkrpTileProofs!TileLosesNothing` | `Spec => []NothingIsLost` |
| `GpuLockProofs!OneWaiterActive` | `Spaced`: `Spec => []AtMostOneActive` |
| `GpuLockProofs!StaleMeansStale` | `Spaced`: `Spec => OnlyStaleLocksRemoved` |
| `GpuLockProofs!LockIsDisciplined` | `Spaced`: `Spec => []LockDiscipline` |
| `GpuLockProofs!RefusedByActive` | `Spaced`, no pid reused: `Spec => RefusedOnlyByActive` |
| `GpuLockProofs!DevicesFollowTheMonitor` | `InTurn`: `LockSpec => []LockedWhileWatched` |
| `SplitRunnerProofs!RunnersKeepOrder` | `Serial`: `Safety => []RunnerInv` |
| `SplitRunnerProofs!SkippedIsComplete` | `Serial`: `Safety => []AcceptedIsComplete` |
| `SplitRunnerProofs!DoneIsTrue` | `Serial`: `Safety => []DoneMeansAllDone` |
| `SplitRunnerProofs!SkippedIsFinal` | `Serial`: `Safety => AcceptedIsFinal` |
| `ResumeSystemProofs!WaitersKeepRunnersApart` | `Spaced`: `Safety => RunnersInTurn` |
| `ResumeSystemProofs!SystemRefusesTruly` | `Spaced`, no pid reused: `Safety => RefusalsAreTrue` |
| `ResumeSystemProofs!SystemResultsAreComplete` | `Spaced`: `Safety /\ []together => []R!AcceptedIsComplete` |
| `EarlyStopProofs!Typing` | `Spec => []TypeOK` |
| `EarlyStopProofs!CheckpointIsBest` | `Spec => []BestIsReturned` |
| `EarlyStopProofs!StopsAlike` | `Spec => []SameStop` |
| `EarlyStopProofs!StopsAreTrue` | `Spec => []StopMeansStalled` |
| `EarlyStopProofs!StallsStop` | `Spec => []StallMeansStopped` |
| `FedOptProofs!Typing` | `Spec => []TypeOK` |
| `FedOptProofs!AllDecideAlike` | `Spec => []RanksDecideAlike` |
| `FedOptProofs!LocalStepperRestored` | `Spec => []LocalStepperIsRestored` |
| `FedOptProofs!ReplicasStayEqual` | `Spec => []ReplicasAgree` |
| `FedOptProofs!FailuresAreUndone` | `Spec => []FailedEpochsAreForgotten` |
| `FedOptProofs!FinalModelIsWhole` | `Rounds`: `Spec => []ModelIsWhole` |
| `FedOptProofs!RanksRunOneLoop` | `Rounds`: `Spec => ImplementsGcpSgd` |

The hypotheses:

* `Spaced`, `InTurn`, `Serial`: see the modules in section 2; section 6 says what happens
  without them.
* `Supported`: the benchmark streams or batches, but not both at once (it warns,
  `alto_dev.cu:1867`: the batched kernels follow pointers that are sent only when the tensor
  stays on the device); CP-ALS does neither, since it allocates too little for both
  (section 6). The batched kernels are included where the tensor is resident. Kernel 13 is
  not: it follows null pointers (section 6).
* `Partitioned`: each nonzero is in one place of one block. That is what
  `gen_blcotensor_host` makes of a tensor: `FormatLosesNothing` proves it of `BlcoFormat`, for
tensors of any size.
* `Rounds`: with ADAM as meta step, an epoch has more than one synchronisation
  (`DpIters < EpochIters`). By default it has 250 (`downpour_iters` is 4 and `epoch_iters`
  1000, `Genten_AlgParams.cpp:132` and `:101`).

*Typing.* `TypeOK` is not inductive: `LaunchBlock` reads `HostBlock[b]`, so `b` must be
a block whenever the host launches (`HostInv`); and a thread block must name an
existing device block and partition, which is arithmetic on the grids
(`ThreadBlocksReadDeviceBlocks`: remainders and quotients of the launch index).

*Streams.* `KernelReadsItsBlock` speaks of the head of a queue; a copy behind the head
makes it false for the next kernel unless the order of the queue is known.
The invariant is a discipline of the whole queue, `WellFed(q, mem)`: each kernel of
`q` comes after a copy of its own block with no other copy between them, or has no
copy before it and finds its block in memory. Appending copy and kernel
(`LaunchWellFed`) and taking the head (`TailWellFed`, with `OverwriteHolds` for a copy)
keep it. A tensor that stays on the device is simpler (`ResidentInv`): every block has a
stream of its own and nothing is copied. `SupportedIsSafe` adds that a grid stays inside
`1 .. nnz` (`GridStaysInside`) and that each device block has `max_block_size` elements
(`BenchmarkCapacity`) or those of its own host block (`ResidentCapacity`), the facts that
fail at the other call site (section 6). With `MB = 0` the entries written to `warp_info`
are those it was sized for, so `WarpInfoOverflows` is false while the tensor is resident.

*The sum.* `ResultIsWhole` needs three things. First, the thread blocks of a launch share
its elements out: `GridTiles` says that every grid is a set of `Tiles` of `1 .. nnz`, and
rests on lemmas about division (`CeilCovers`, `ChunkOf`, `DivisionUnique`), because the level 3
grid divides twice and rounds up each time. Second, an account for each stream: `Summed(s)`
is what stream `s` has added in this call, computed from what it still has to do, namely
the blocks launched so far, less those whose kernels wait in its queue, but for the thread
blocks of the running one that are finished. `Progress` says that the queue holds each
block at most once. Every step of host and device leaves `Summed` as it is, except the
start of a call, which empties it, and `RunThreadBlock`, which adds the elements of one
tile, and `PartIsNewToAll` says that no stream has added them before. Third, where the sum
is (`Sums`): in `output`, or spread over the partial matrices of the streams, then in the
merged ones, then in `output`, according to the phase of the call; `OrderInv` fixes the
phase from the kinds of work in the queues (nothing behind a `reduce`, nothing but `zero`
before the first synchronisation, an idle device between calls). With all queues empty
`Summed` is all blocks, and by `Partitioned` that is all nonzeros, once (`CallIsWhole`).
What the matrix holds after several calls is one induction more (`HeldInv`): when call
n + 1 begins, `held` is nothing in CP-ALS, and in the benchmark the first content and
n sums, because the call before has added a whole one (`OneSumMore`). `CallsAreSums`
follows: between the calls the device is idle, so only `BeginCall` and `EndCall` change
what the caller sees.

*The batched launch.* Its one kernel waits on stream 0 and reads the blocks of all streams,
which `Summed` cannot express, so it has an account of its own. Before it the device is idle and
nothing is added yet (`ReadyInv`: no batched kernel uses partial matrices, and each launch follows
the start of a call); while it runs no other work is queued (`BatchInv`), and the result is
what its finished thread blocks have added (`BatchSums`). `SharesOut` says that its thread
blocks tile every device block: for version 1 from `DivisionUnique`, since launch index `g` is
one block and one offset, and from the greatest capacity (`GreatestNumber`: inclusion of
finite sets is well founded), which leaves the smaller blocks thread blocks with nothing to do; for
version 2 because an entry of `warp_info` is again a quotient and a remainder, one for each
tile. The invariant `Account` is that either the account of the streams or that of the launch
holds: `LaunchAll` passes from the first to the second (`LaunchAllBegins`,
`BatchSumsBegin`), `EndCall` back (`BatchEnds`, `BatchSumsEnd`).

*Format.* The three properties speak of the end, or of one pass, and none is inductive.
The proof has two halves, one about bits and one about blocks.

Bits: the places of the modes' bits in the index are ranks in a strict order, by turn and
then by place of the mode (`Ranks`), so the masks share out the first `AllBits` bits and
each mode gets as many as it needs (`TurnsCounted`, `Masks`). What a mask deposits it also
extracts (`Extracted`, `LinearBits`), so the index determines the coordinates
(`LinearIsInjective`). A coordinate is cut in two by the middle of the index, and its upper
bits begin where its lower ones end (`RankOfHalves`, `PextOfHalves`). In the shortened index
the lower bits of the modes lie side by side without touching (`Positions`, `LowBits`), and
all of them within one integer, since their masks share out half of the index. `Decoding`
puts shift, mask and block coordinates together. That a word is a number, and each number up
to the width a word, is proved too and not assumed (`ValueOfWords`, `WordIsInverse`).

Blocks: indices sorted as wholes are sorted by their upper half (`UpperIsMonotone`), so the
nonzeros of one place of the histogram stand together, between two of its prefix sums
(`PrefixFacts`). `FormatInv` says for each line what has been computed, and for the loop
(`Cut`) that the blocks made so far hold `prefix[block] + stride` nonzeros (at the end of a
place, all up to `prefix[block + 1]`) and leave out none of these, that each is of one place
and has its coordinates (`OfOnePlace`), and that their number is that of the parts of the
places behind, and of the strides done at this one (`Made`). `PartsAre` is the arithmetic of
the rounded quotient: while strides remain, fewer blocks than parts are made, and when none
remains, as many. So the array is neither overrun nor left short. Induction is out of the
prover's reach as a theorem of the library; here it is the least number at which a set of
numbers fails to be all of them (`LeastNumber`, `Induct`), and `SumsExist` and `SumsCount`
(a sum of cardinalities is the cardinality of a disjoint union) rest on that.

*Thread block.* The place of a lane is the number of lanes ahead of it in a strict order, by
the first lane of its group and then by lane (`PlaceCounts`, `PlaceOrder`); so places
are a permutation of the lanes (`SortExists`), the lanes of a group have consecutive
ones (`RunsAreWhole`), heads are where groups begin (`HeadsBeginRuns`), and the idle lanes, if
any, are the group that begins last (`IdleLast`). `SortGroups` puts this together. From the
grouped tile follows that a run has elements of one row, all of them and each once
(`RunOfRow`), which nothing has added yet (`RunIsNew`). The account is kept row by row
(`RowIsWhole`): what was added to row *r* is in `output[r]` or in the one stash line *r* can
be in, if that line has its tag (`Held`), and in one of them only. Claiming a line moves the
sum of another row from the stash to the output and keeps the account of both rows
(`ClaimKeepsAccount`); adding a run, the next tile and the last flush keep it as well. `Min` and
`Max` are `CHOOSE` operators; that least elements exist is drawn from well-foundedness of
the subsets of a finite set (`LeastNumber`), since induction itself is out of reach.

*Lock.* `LockDiscipline` says who is named in the pid file, that the lines which take or
give back the lock are run by one process at a time, and that past the probe nobody is
active. It is inductive under `Spaced`; the action property follows from it in one step.
That a refusal is true needs more: the process that answers the probe may have got its
pid, or be about to stop, since the pid file was read. `PidInv` says that without reuse
whoever was read and is alive is a waiter past the start; `Spaced` excludes one that
stops.

*GPU lock.* `LockInv` describes the devices at each line of a call (`DevicesAt`), its backup,
and that all other calls are over or not made (`TurnsInv`); it holds as long as no call
died. Nothing is asked of the waiters, so the proof does not mention them: the
monitor is right about the devices whatever the pid does.

*Runners.* `RunnerInv` is inductive as it stands. Its parts: one runner is running at a time
(`OneRunner`); no manifest stands beside data that is half written (`ExportInv`); a name
refers to a file that was made for it, and to none that a runner is still to make
(`NameInv`); a program in its turn reads whole data and alone writes a file of its own
(`JobInv`); the results before a runner's turn are there (`TurnInv`). The proof has one
lemma for each line that touches the files (`CleanKeeps`, `OpenKeeps`, `WriteKeeps`,
`MoveKeeps`, ...) and shared ones for ends and lines that leave them alone (`StopKeeps`,
`QuietKeeps`). `AcceptedIsFinal` is one step from it.

*The whole system.* `ResumeSystemProofs` instantiates the theorems about the lock, with no
call of the GPU lock, carries the lock's discipline over to the waiters of
`ResumeSystem` (a step of the system is a step of `ResumeWaiter` or leaves its variables),
and adds `SystemInv`: a runner that runs belongs to a waiter at the line `run`, if
signals reach both. As at most one waiter is active, `Resume` finds no other runner, so
each step is one of `SplitRunner` with `Serial = TRUE`; the theorems on runners in turn
then hold of the system by instantiation (`SystemResultsAreComplete`).

*Stopping.* For the checkpoint, `CheckpointInv` adds that a running program has run every
epoch (`Kept`) and that the RMSE of the kept model is a number. For the agreement,
`StopInv` distinguishes the moment before the first epoch (`Untrained`: the four best
values differ, but all are either the first RMSE or far above it) from all later
ones (`Agree`): a clear improvement in the first epoch makes them equal, and equal
counts stay equal. For the types, `Unfinished` says that a program that goes on has
neither used up its patience nor its epochs. That a program stops when and only when it
has stalled relates two running variables to the whole curve: `Anchor(p, a)` names the best
epoch `a` and says that `bad` is the number of judged epochs since, none of which was
better by the tolerance; a step keeps the anchor and adds an epoch to the set that is
counted, or moves the anchor and empties the set (`EpochMovesAnchor`).

*Ranks.* `RanksDecideAlike` says nothing of ranks inside an epoch, and a rank that decided
may be an epoch ahead. `DecisionInv` speaks of pairs: two ranks in the same epoch
(`Level`) agree, have passed the all-reduce both or neither, and hold the same `fest`
behind it; a rank that is ahead (`Ahead`) leaves the other at the verdict it has already
given (`PrevAfter`, `FailsAfter`, `StopsAfter`). The blocks and the steppers do not
matter, and the proof is for every grid. `TypeInv` adds where in an epoch a rank stands
(`Place`), `CurveInv` that the running minimum is the least estimate of the curve
(`LeastBefore`), which is what connects the variables of the loop to `Passed`, and
`CountInv` the exponent of the local stepper.

*The model.* The invariants say of all states what the properties say of some.
`AgreeInv` compares ranks of a group at different places by what they *will* hold when they
have caught up (`NextU`, `NextMeta`, `NextBest`, `NextStepper`): of two ranks
one may have copied a reduced block, or undone an epoch, before the other. `TraceInv` says
for each block and place which epochs its steps may come from; `FailedEpochsAreForgotten`
is one case of it. `MetInv` says which all-reduces of an epoch lie behind a rank, and so
how far apart two ranks of a group can be; `ExactInv` then says which steps are in a block
and not only which may be: all of the rank's own up to now, those of the whole group up to
the last synchronisation. The refinement goes through the rank that is last to decide: a
verdict is a step of `GcpSgd` exactly when it is given by the last rank, which exists as
a least element of a finite set.

`Rounds` was found by this proof. Where an epoch consists of a single round, its steps
arrive in the first meta step, whose rate is zero, and the whole first epoch is missing
in the model that is returned; TLC finds the same with `EpochIters = DpIters = 2` (it
violates `ModelIsWhole` and `ImplementsGcpSgd`).

Only model-checked:

* everything about liveness (`RunnersFinish`, `StartGetsResults`, `Ends`, `AllFinish`,
  `DevicesComeBack`, the `WF` part of `ImplementsMttkrp`), which is outside what the prover
  handles.

## 6. Disagreements

* **Streamed CP-ALS allocates too little** (`blco_cpals_stream`). `cpd_gpu.cu:114` passes
  `do_batching` and `max_block_size` in the wrong order; the benchmark's call
  (`alto_dev.cu:1875`) has them right. `blco.hpp:139` assumes of `send_block_over` that
  "the GPU block has sufficient space".
* **`vecsum` sums in place** (`vector_sum`). `cpd_gpu.hpp:78`: "Sums up a vector. The result
  will be placed in the first entry of the vector". Thread block *b* of `reduce2` writes
  entry *b* of the vector that block 0 still reads (`cpd_gpu.cu:578`). With rank 12 and
  more, `rank * rank` entries take more than one block of 128 threads.
* **A failed epoch does not restore the meta stepper** (`fed_restart`). `AdamStep::setFailed`
  divides the powers of beta back by `beta^epoch_iters`, the number of steps of the local
  stepper; the meta stepper takes one step for each synchronisation. The exponent falls
  below zero and the rate is not a number. The comment in `Genten_GCP_FedOpt.hpp:524` says
  "restart from last epoch".
* **Kernel 13 cannot run** (no run of its own; with `Kernel = 13` in the configuration of
  `blco_resident` TLC finds `NoFault` violated by the first thread block). The solver's
  `README.md:29` lists it: "13 is atomic". `mttkrp_atomic` passes `mode_pos` and
  `mode_masks` of the device block (`alto_dev.cu:1838`), which stay null: "The blocks
  themselves no longer need the masks, parent has them" (`blco.cu:102`).

What the modules also show, and the repository nowhere promises the contrary of, so that
no run keeps it (the constants that exclude it are named):

* Two waiters that start together can both wait: the pid is written ten lines after the
  lock is taken, and in between the lock counts as stale (`Spaced = FALSE`). The exit trap
  of a waiter can remove the lock of one that starts at that moment.
* A waiter can be refused because another program has the pid (`Reuse = TRUE` in
  `resume_system`).
* A GPU lock that is called while the monitor of an earlier call still sleeps backs up the
  restricted permissions, and restores those in the end (`InTurn = FALSE`). A call that
  dies halfway leaves the devices restricted.
* A waiter killed alone leaves its runner alive and its lock stale, and runners overlap
  (`together = FALSE`, for which `RunnersInTurn` asks nothing of the steps).
* The manifest that the sync script brings stands for more data than it brings; the
  programs then fail to open their input and nothing is accepted, which
  `AcceptedIsComplete` shows.
* The first meta step of ADAM has rate zero, since `update()` comes before `setStep()`: the
  first round of every rank is dropped from the model. With one round to an epoch that is
  the first epoch (`Rounds` in section 5).

## 7. Not modelled

* *Numerics*: kernels of cuTC (SGD without locks, ALS, CCD), factor updates and
  normalisation in CP-ALS, gradients and sampling in GenTen, metrics, CSV formatting. No
  exact specification, or none of their own beyond the arithmetic.
* *Divergence inside a warp*: lane 0 sets a stash tag without a barrier; the lanes are
  taken to read it together. The atomic kernels have no sort and no stash.
* *ALTO on the CPU* (partitions and kernels of `alto.hpp`): not used by the GPU path.
* *GenTen core beyond the federated epochs* and *cuTC on several GPUs*: large; see the plan.
* *Autotuning*: driven by measured times.
* *Vendored code* (Kokkos, googletest and others), bindings, drivers, build files: the
  greater part of the repository by lines, and not written for it.

## 8. Plan

1. Done: the modules and theorems above.
2. GenTen's other distributed updates: `Genten_DistKtensorUpdate` (all-gather,
   one-sided) against an abstract "all ranks hold the same rows", and the asynchronous
   iteration; cuTC's exchange between GPUs.
3. `ResumeSystem` with two experiments, and `GpuLock` composed with it instead of with
   the waiters alone.
