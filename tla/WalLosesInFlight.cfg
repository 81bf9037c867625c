SPECIFICATION Spec
CONSTANTS
  Keys = {k1}
  Values = {v1}
  Tombstone = Tombstone
  Writers = {w1}
  Flushers = {f1}
  Free = Free
  Torn = Torn
  MemtableSize = 2
  MaxSeq = 3
  MaxBatch = 1
  MaxCrashes = 0
  IoErrors = FALSE
  TornWrites = FALSE
INVARIANT
  WalCoversActive
