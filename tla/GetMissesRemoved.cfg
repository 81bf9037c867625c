SPECIFICATION Spec
CONSTANTS
  Keys = {1}
  Values = {v1}
  Tombstone = Tombstone
  Getters = {g1}
  MaxLevels = 3
  L0Trigger = 2
  BaseLevelSize = 1
  MaxPasses = 2
  MaxFlushes = 2
  MaxCrashes = 0
  SlowWriters = FALSE
  MaxFailures = 0
INVARIANT
  GetSeesItsVersion
