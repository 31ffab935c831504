SPECIFICATION FairSpec
CONSTANTS
  InputBlockSize = 4
  LengthWords = 1
  WordRange = 16
  NStates = 4
  MaxParallel = 2
  AppendSizes = {3, 9}
  MaxOps = 4
INVARIANT SameAsSerial
PROPERTY Returns
