SPECIFICATION FairSpec
CONSTANTS
  Keys = {k1}
  Values = {v1}
  Tombstone = Tombstone
  Writers = {w1, w2}
  Flushers = {f1}
  Free = Free
  Torn = Torn
  MemtableSize = 1
  MaxSeq = 3
  MaxBatch = 2
  MaxCrashes = 0
  IoErrors = FALSE
  TornWrites = FALSE
INVARIANT
  FlushProtocol
PROPERTIES
  ImplementsKVStore
  CallsReturn
