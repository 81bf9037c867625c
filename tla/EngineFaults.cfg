SPECIFICATION Spec
CONSTANTS
  Keys = {k1}
  Values = {v1}
  Tombstone = Tombstone
  Writers = {w1}
  Flushers = {f1}
  Free = Free
  Torn = Torn
  MemtableSize = 2
  MaxSeq = 2
  MaxBatch = 2
  MaxCrashes = 2
  IoErrors = TRUE
  TornWrites = TRUE
INVARIANTS
  TypeOK
  FrozenInv
  SeqNamesOneRecord
