SPECIFICATION UsedSpec
CONSTANTS
  a1 = a1
  a2 = a2
  h1 = h1
  r1 = r1
  c1 = c1
  Keys = {a1, a2}
  KeySets = {{a1, a2}}
  ArrayKeys = {a1, a2}
  HashKeys = {}
  CtxKeys = {}
  ArraySize = 1
  TTLArgs <- MCTTLPlain
  Sec = 2
  AbsMin = 3
  CmdCap = 1
  DelCap = 1
  Batch = 2
  StartTime = 1
  MaxTime = 3
  MaxTimers = 2
PROPERTY PermanentKeysStay
CHECK_DEADLOCK FALSE
