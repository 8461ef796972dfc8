SPECIFICATION AllSpec
CONSTANTS
  Which = {"tcp"}
  B = 2
  Events = {"drop"}
  MaxCmds = 4
  MaxSyncs = 2
  BufSize = 3
  MinFlush = 2
  Sizes = {1, 2, 4}
  AofEvents = {"crash", "torn", "short", "close"}
  MaxLogged = 4
  FileSizes = {0, 1, 4, 5, 8, 9}
  ChunkSize = 2
  ImmMod = 8
  MaxRecv = 2
  RdmaFaults = {"ack", "open", "write", "dies", "own"}
  StreamLen <- MCStreamLen
  Isn <- MCIsn
  Mod = 11
  SegLens = {1, 3}
  MaxPayload = 2
  KernelSlots = 1
  PoolSize = 2
  RingSize = 2
  MaxSegs = 4
  Requests <- MCRequests
  Roles = {"client", "master"}
  InitBuf = 1
  LowRoom = 2
  MaxBuf = 4
  Faults = {"oom", "short", "reset"}
  MaxReqs = 3
PROPERTY OnlyNewAfterFile
CHECK_DEADLOCK FALSE
