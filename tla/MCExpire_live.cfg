SPECIFICATION FairUsedSpec
CONSTANTS
  a1 = a1
  a2 = a2
  h1 = h1
  r1 = r1
  c1 = c1
  Keys = {a1, h1}
  KeySets = {{a1, h1}}
  ArrayKeys = {a1}
  HashKeys = {h1}
  CtxKeys = {}
  ArraySize = 1
  TTLArgs <- MCTTLFew
  Sec = 2
  AbsMin = 3
  CmdCap = 1
  DelCap = 1
  Batch = 2
  StartTime = 1
  MaxTime = 2
  MaxTimers = 3
PROPERTIES ExpiredKeysAreDeleted DestroyReturns
CHECK_DEADLOCK FALSE
