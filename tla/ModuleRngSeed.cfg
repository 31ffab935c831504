SPECIFICATION ModuleSpec
CONSTANTS
  Threads = {t1, t2}
  CacheSize = 8
  Align = 4
  MaxGenerate = 2
  Sizes = {1, 3, 4, 6, 9}
  MaxCalls = 5
INVARIANTS SeedAsDocumented
CHECK_DEADLOCK FALSE
