\* The benchmark with the tensor resident on the device: short modes take one
\* level 3 kernel for each block, long modes one batched launch.
SPECIFICATION Spec
CONSTANTS
  x1 = x1
  x2 = x2
  x3 = x3
  x4 = x4
  x5 = x5
  x6 = x6
  Nonzero <- SixNonzeros
  BlockCount = 3
  HostBlock <- UnevenBlocks
  MaxBlockSize = 3
  NUM_STREAMS = 2
  TILE_SIZE = 2
  ThreadCf = 1
  Nprtn = 2
  AtomicThreads = 2
  Kernel = 10
  CallSite = "mttkrp_alto_dev"
  StreamData = FALSE
  DoBatching = TRUE
  ModeKinds = {TRUE, FALSE}
  MaxCalls = 2
  Garbage = Garbage
INVARIANTS
  TypeOK
  NoFault
  ResultIsWholeSum
