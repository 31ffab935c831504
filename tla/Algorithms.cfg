SPECIFICATION MCAlgorithmsSpec
CONSTANTS
  NmByteBits = 1
  NmWordBytes = 3
  DigitWords = 1
  NmMaxDigits = 3
  NmOperands <- MCOperands
  MmModuli <- MCModuli
  MmOperands = {0, 5, 6}
  MmMinOperations = 10
  MmExponents <- MCExponents
  MmMinWindow = 2
  MmWindowCutoff = 5
  MmMultiWindow = 2
  MmBlinding = {1, 2}
  TdWordBits = 12
  TdSpecial <- MCSpecial
  TdGroupSpec <- MCGroupSpec
  TdMinSieve = 32
  TdMaxPrime = 60
  TdReduceCycles = 16
  TdTestCycles = 2
  TdRabinMillerCycles = 200
  TdSizes = {1, 2}
  TdSources <- MCSources
  CtNative = 2
  CtBufferWords = {4, 32}
  CtGroup = 4
  CtInterleave = 2
  CtWideElement = 6
  CtElementSizes = {4, 6}
  CtElements = 8
  CtBlockSize = 4
  CtPadded <- MCPadded
  InputBlockSize = 16
  LengthWords = 1
  WordRange = 1024
  TcResultSizes = {5, 8}
  TcPadRange = 36
  TcHeaderLengths = {3, 4, 13}
  TcMessageLengths = {0, 1, 2, 7, 8, 9, 12, 15, 16, 21, 40}
  TcPadLengths = {0, 1, 2, 7, 8, 15, 17, 34, 35}
  TcFlaws = {"none", "message", "mac first", "mac last", "padding first", "padding last", "pad length",
             "cut one", "cut front", "too short", "all padding"}
  KdByte = 4
  KdMac <- MCMac
  KdResultSize <- MCSizes
  KdChunk = 6
  KdMaxLabel = 2
  KdMaxSeed = 2
  KdKeys <- MCKdKeys
  KdSalts <- MCSalts
  KdLabels <- MCKdLabels
  KdContexts <- MCContexts
  KdIterations = {0, 1, 3}
  KdLengths = {0, 1, 3, 4, 7, 9, 10, 13, 31, 32}
  RpBits = 4
  RpHash <- MCHash
  RpHashSize = 2
  RpMinPS = 2
  RpMaxEncoding = 10
  RpPssZeroes = 2
  RpFF = 15
  RpBC = 12
  RpSequence = 3
  RpOctetString = 4
  RpKeys <- MCRpKeys
  RpMessages <- MCMessages
  RpLabels <- MCLabels
  RpHashes <- MCHashes
  RpOids <- MCOids
  RpOidLists <- MCOidLists
  RpFills = {7}
  RpSeeds <- MCSeeds
  RpSaltSizes = {0, 2}
  RpRooms = {0, 3, 10}
  RpPlaces <- MCPlaces
  RpChanges = {0, 1}
INVARIANT IntIsExact ModElementIsReference SmallDivisorIsRight ConstantTimeIsReference
          TlsRecordIsReference KdfIsReference RsaPaddingIsExact
CHECK_DEADLOCK FALSE
