SPECIFICATION Spec
CONSTANTS
  Keys = {1, 2}
  Values = {v1}
  Tombstone = Tombstone
  Getters = {}
  MaxLevels = 3
  L0Trigger = 1
  BaseLevelSize = 1
  MaxPasses = 2
  MaxFlushes = 3
  MaxCrashes = 1
  SlowWriters = FALSE
  MaxFailures = 0
INVARIANT
  VersionIsLogged
PROPERTY
  ImplementsTableStore
