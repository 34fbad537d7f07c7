SPECIFICATION Spec
CONSTANTS
  Replicas = {p1, p2}
  Procs = {p1, p2}
  SuspendAt = 2
  Keks = {k1, k2}
  Values = {v1, v2}
  Missing = Missing
  Corrupt = Corrupt
  Unbound = Unbound
  NoKey = NoKey
  NoLock = NoLock
  NoSnap = NoSnap
  NoJob = NoJob
SYMMETRY Interchangeable
INVARIANTS TakeoverKeepsMarks TokensReverse StuckOnlyAfterARace
