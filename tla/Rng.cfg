SPECIFICATION MCRngSpec
CONSTANTS
  Callers = {c1, c2, c3}
  SenderIds = {s1, s2}
  Modulus = 8
  MaxMessageNumber = 4
  HalfRange = 8
  ChunkBlocks = 4
  MaxBlocks = 9
  BlockSize = 2
  MaxRequestSize = 4
  MaxRequests = 2
  SeedBlocks = 3
  VRange = 6
  MinReseedSize = 1
  MinInstantiateSize = 2
  MaxSeedSize = 3
  RequestSizes = {1, 2, 3, 7}
  SeedSizes = {1, 2, 4}
  MaxKeys = 4
  Threads = {t1, t2}
  CacheSize = 16
  Align = 4
  MaxGenerate = 2
  Sizes = {6, 12, 17}
  MaxCalls = 6
  StThreads = {t1, t2}
  StKinds = {"ec", "rsa"}
INVARIANT NonceUnique NumbersContiguous MatchesOldCode NoBlockTwice ContinuousTestComplete NoByteTwice FreshAfterReseed
          KeysAreTested
PROPERTY StaysExhausted LockReleased
CHECK_DEADLOCK FALSE
