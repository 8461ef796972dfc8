SPECIFICATION UsedSpec
CONSTANTS
  a1 = a1
  h1 = h1
  r1 = r1
  a2 = a2
  c1 = c1
  Keys = {r1, c1, a1, a2}
  KeySets = {{r1, c1}, {a1, a2}}
  ArrayKeys = {a1, a2}
  HashKeys = {c1}
  CtxKeys = {c1}
  ArraySize = 1
  TTLArgs <- MCTTLTimed
  Sec = 2
  AbsMin = 3
  CmdCap = 1
  DelCap = 1
  Batch = 2
  StartTime = 1
  MaxTime = 3
  MaxTimers = 3
INVARIANTS EveryTTLHasTimer NeverEarly LogMatchesStore
PROPERTY TimerDeletesOnlyExpired
SYMMETRY MCSymmetry
CHECK_DEADLOCK FALSE
