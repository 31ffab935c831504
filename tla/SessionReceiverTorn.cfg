SPECIFICATION FairSpec
CONSTANTS
  Threads = {t1, t2}
  Window = 2
  Modulus = 8
  Half = 4
  MaxMessageNumber = 5
  Builds <- TornBuild
PROPERTIES RefusedOnlyReplaysAsDocumented
