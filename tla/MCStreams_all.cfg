SPECIFICATION AllSpec
CONSTANTS
  Which = {"aof", "tcp", "rdma", "relay", "client"}
  B = 2
  Events = {"buffered", "partial", "drop", "nostore"}
  MaxCmds = 3
  MaxSyncs = 2
  BufSize = 3
  MinFlush = 2
  Sizes = {1, 2, 4}
  AofEvents = {"crash", "torn", "short", "close"}
  MaxLogged = 4
  FileSizes = {0, 1, 4, 5, 8, 9}
  ChunkSize = 2
  ImmMod = 8
  MaxRecv = 2
  RdmaFaults = {"ack", "map", "verb", "open", "write", "dies", "own"}
  StreamLen <- MCStreamLen
  Isn <- MCIsn
  Mod = 11
  SegLens = {1, 3}
  MaxPayload = 2
  KernelSlots = 1
  PoolSize = 2
  RingSize = 2
  MaxSegs = 4
  Requests <- MCRequests
  Roles = {"client", "master"}
  InitBuf = 1
  LowRoom = 2
  MaxBuf = 4
  Faults = {"oom", "short", "reset"}
  MaxReqs = 3
INVARIANTS
  LogOrder FileInOrder
  InOrderNoneSkipped NoneForgotten
  StoredBeforeAcked
  ForwardsTheStream NothingSeenIsLost
  RunsInOrder  ClosedByPeer
PROPERTIES
  ImplementsAppendLog RestartRebuilds LoggedReachesFile WriteReturns
  SlaveCatchesUp SyncReturns RingDrains RequestsAnswered EndedIsClosed
\* The commands are bounded, the relay and the server may be stopped.
CHECK_DEADLOCK FALSE
