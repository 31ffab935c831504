SPECIFICATION MCMessagesSpec
CONSTANTS
  InputBlockSize = 4
  LengthWords = 2
  WordRange = 8
  Objects = {a, b}
  Sizes = {3, 5}
  Tags = {0, 1000}
  MaxLength = 8
  HmacKeySizes = {0, 4, 7}
  HmacObjects = {a, b}
  HmacSizes = {1, 3, 5}
  HmacMaxLength = 9
  ResultSize = 1
  CmacBlock = 3
  MarvinWord = 3
  MarvinRange = 9
  MacObjects = {a, b}
  MacSizes = {1, 3, 5}
  MacMaxLength = 10
  ModeBlock = 2
  UnitBlocks = 2
  ParallelTweaks = 2
  TweakRange = 5
  FirstTweaks = {0, 3}
  ModeSizes = {1, 2, 5, 8, 12}
  ModeMax = 14
  BlockSize = 4
  CounterRange = 5
  NonceRange = 2
  CcmCounterRange = 16
  AuthLimit16 = 3
  AuthLimit32 = 6
  ChaChaBlock = 8
  ChaChaRange = 3
  PolyBlock = 2
  PartSizes = {0, 1, 3, 4, 6}
  AuthSizes = {0, 1, 4, 6}
  OneShotSizes = {0, 1, 4, 7, 12, 16, 17}
  Declared = {0, 1, 7, 9, 15}
  Offsets = {0, 3, 8, 13}
  MaxAuth = 7
  MaxStream = 24
SYMMETRY Symmetry
INVARIANT ResultIsReference BlobHoldsOnlyMessage MacsAreReference ModesAreReference AeadIsReference
