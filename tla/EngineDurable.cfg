SPECIFICATION Spec
CONSTANTS
  Keys = {k1, k2}
  Values = {v1}
  Tombstone = Tombstone
  Writers = {w1}
  Flushers = {}
  Free = Free
  Torn = Torn
  MemtableSize = 2
  MaxSeq = 4
  MaxBatch = 2
  MaxCrashes = 2
  IoErrors = FALSE
  TornWrites = FALSE
INVARIANTS
  CrashSafe
  VersionMatchesManifest
PROPERTY
  ImplementsKVStore
