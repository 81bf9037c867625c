SPECIFICATION Spec
CONSTANTS
  Keys = {1, 2, 3}
  Values = {v1}
  Tombstone = Tombstone
  NotFound = NotFound
  BlockSize = 3
  BitsPerKey = 7
  Readers = {r1}
  Capacity = 2
  MaxTables = 2
  MergeKeys = {1, 2, 3}
  SourceCount = 3
  SizeWriters = {w1, w2, w3}
  SizedKeys = {1, 2}
  Sizes = {1, 3}
  Words = 8
  MaxInserts = 4
  Threads = {t1, t2, t3}
INVARIANTS
  TablesReadExactly
  CacheLinked
  MergeIsExact
  CounterAccounts
  NoDeadlock
PROPERTIES
  ImplementsRecency
SYMMETRY AlikeThreads
CHECK_DEADLOCK FALSE
