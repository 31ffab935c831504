SPECIFICATION FairSpec
CONSTANTS
  Threads = {t1, t2}
  Window = 2
  Modulus = 8
  Half = 4
  MaxMessageNumber = 5
  Builds <- AllBuilds
INVARIANTS NoDoubleAccept MaskExact NoUninitialisedStore PlaintextOnlyOnSuccess
PROPERTIES RefusedOnlyReplays ImplementsFilter CallsReturn
