\* CP-ALS with streaming: the device blocks are smaller than what is sent.
SPECIFICATION Spec
CONSTANTS
  x1 = x1
  x2 = x2
  x3 = x3
  x4 = x4
  x5 = x5
  x6 = x6
  Nonzero <- FourNonzeros
  BlockCount = 3
  HostBlock <- ThreeBlocks
  MaxBlockSize = 2
  NUM_STREAMS = 2
  TILE_SIZE = 1
  ThreadCf = 1
  Nprtn = 2
  AtomicThreads = 2
  Kernel = 10
  CallSite = "cpals_blco_dev"
  StreamData = TRUE
  DoBatching = FALSE
  ModeKinds = {TRUE}
  MaxCalls = 1
  Garbage = Garbage
INVARIANTS
  NoFault
