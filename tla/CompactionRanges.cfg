SPECIFICATION Spec
CONSTANTS
  Keys = {1, 2, 3}
  Values = {}
  Tombstone = Tombstone
  Getters = {}
  MaxLevels = 4
  L0Trigger = 1
  BaseLevelSize = 0
  MaxPasses = 2
  MaxFlushes = 3
  MaxCrashes = 1
  SlowWriters = FALSE
  MaxFailures = 0
INVARIANTS
  LevelsDisjoint
  NewerAbove
