SPECIFICATION ReadsSpec
CONSTANTS
  Keys = {k1}
  Values = {v1}
  Tombstone = Tombstone
  Writers = {w1}
  Flushers = {f1}
  Free = Free
  Torn = Torn
  MemtableSize = 1
  MaxSeq = 2
  MaxBatch = 2
  MaxCrashes = 1
  IoErrors = FALSE
  TornWrites = FALSE
  Getters = {g1}
  Scanners = {s1}
INVARIANTS
  GetLinearizable
  ScanExactBetweenFlushes
