SPECIFICATION Spec
CONSTANTS
  Keys = {1, 2}
  Values = {v1}
  Tombstone = Tombstone
  Getters = {g1}
  MaxLevels = 2
  L0Trigger = 1
  BaseLevelSize = 0
  MaxPasses = 2
  MaxFlushes = 2
  MaxCrashes = 1
  SlowWriters = FALSE
  MaxFailures = 1
INVARIANTS
  FilesPresent
  GetFromVersion
PROPERTY
  TablesImmutable
