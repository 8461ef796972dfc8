SPECIFICATION AllSpec
CONSTANTS
  Which = {"pool", "ring", "heap", "tree", "skip", "hash", "array", "keep", "recs", "boot"}
  c1 = c1
  c2 = c2
  b1 = b1
  b2 = b2
  b3 = b3
  Pools = {c1, c2}
  Cap <- MCCap
  Blocks = {b1, b2, b3}
  NoBlock = NoBlock
  Grows <- MCGrows
  N = 4
  Items = {1, 2, 3}
  Expiries = {1, 2, 3}
  MaxSize = 6
  MaxPushes = 7
  TreeSize = 8
  LastKey = 5
  Entries = {2, 3, 4}
  Top = 2
  Lens = {1, 2}
  HashKeys = {1, 2, 3, 4, 5}
  Ids = {a, b}
  HashValues <- MCHashValues
  HashOf <- MCHash
  InitSlots = 2
  CellKeys = {1, 2, 3, 4}
  CellValues = {1, 2}
  ArraySize = 3
  Questions <- MCQuestions
  Cut <- MCCut
  Sim <- MCSim
  Threshold = 2
  Exact = 3
  RecIds <- MCRecIds
  IndexSize = 3
  Words = {w}
  Versions = {1, 2}
  MaxPieces = 4
  ArrayKeys = {}
  TreeKeys = {"t"}
  KeepKeys = {"q"}
  Oversize = {"q"}
  TtlOn = TRUE
  AofOn = TRUE
  MaxIndex = 1
  Children = 2
  MaxWrites = 2
  MaxBoots = 2
  MaxSaves = 2
INVARIANTS
  ChunksAccounted NoIdleBlock
  TestsStayValid
  HeapSound
  TreeSorted BrokenOnlyAtCursor
  SkipLookup HashLookup ArrayLookup
  MatchAnswersBest IndexedRecords
  SnapshotSound CleanRestart
PROPERTIES
  ImplementsFifo ResizeHasSlack
\* The heap's pushes and the restarts are bounded.
CHECK_DEADLOCK FALSE
