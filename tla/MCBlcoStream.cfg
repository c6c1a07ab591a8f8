\* The MTTKRP benchmark with streaming: four host blocks over three streams.
SPECIFICATION Spec
CONSTANTS
  x1 = x1
  x2 = x2
  x3 = x3
  x4 = x4
  x5 = x5
  x6 = x6
  Nonzero <- SixNonzeros
  BlockCount = 4
  HostBlock <- FourBlocks
  MaxBlockSize = 2
  NUM_STREAMS = 3
  TILE_SIZE = 1
  ThreadCf = 1
  Nprtn = 2
  AtomicThreads = 2
  Kernel = 10
  CallSite = "mttkrp_alto_dev"
  StreamData = TRUE
  DoBatching = FALSE
  ModeKinds = {TRUE, FALSE}
  MaxCalls = 2
  Garbage = Garbage
INVARIANTS
  NoFault
  ResultIsWholeSum
  KernelReadsItsBlock
PROPERTIES
  ImplementsMttkrp
