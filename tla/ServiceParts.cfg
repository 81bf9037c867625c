SPECIFICATION ServiceSpec
CONSTANTS
  DocIds = {1, 12}
  QueryTexts <- OneWord
  Metas = {"m1"}
  Bodies <- SomeBodies
  Embed <- LengthOf
  QueryVectors = {0, 1, 3}
  TopKLimits = {1}
  SemanticCapacity = 2
  Reach = 1
  Ttl = 1
  MaxCalls = 4
  MaxTicks = 1
  RankIds = {1, 2, 3}
  RankScores = {1, 2}
  RrfKs = {1, 60}
  Weights = {0, 5, 10}
  TopKs = {2, 3}
  RankTerms = {1, 2}
  Fields = {f1}
  Numbers = {1, 2}
  MaxTextLength = 5
  ChunkSizes = {2, 3}
  Overlaps = {0, 1, 3}
  MinChunkSizes = {0, 1, 3}
  MaxDocuments = 3
  TextLengths = {0, 1, 30}
  Budgets = {0, 40, 60, 100}
  ArgValues = {0, 1}
  MaxExchanges = 2
  Notifiers = {n1, n2}
  Observers = {o1, o2}
  LogLevels = {1, 2}
  MaxRegistered = 2
  MaxMessages = 2
INVARIANTS
  IndexesAgree
  SemanticCacheSound
  RestartKeepsIndex
  
  PromisesKept
  ObserversCatchUp
CHECK_DEADLOCK FALSE
