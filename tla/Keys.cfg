SPECIFICATION MCKeysSpec
CONSTANTS
  ByteBits = 2
  DigitBits = 4
  DlGroups <- MCDlGroups
  DlPrivates <- MCDlPrivates
  DlPublics <- MCDlPublics
  DlHashes <- MCDlHashes
  DlAnyLength = FALSE
  DgMaxBitsP = 5
  DgMaxBitsQ = 4
  DgMinBitsP = 4
  DgMinBitsQ = 3
  DgHashBits = 4
  DgHashAlgs <- MCHashAlgs
  DgSha1 <- MCSha1
  DgNamedPrimes <- MCNamed
  DgNamedMark = 8
  DgCountRange = 8
  DgImports <- MCImports
  EcCurves <- MCCurves
  EcWindow = 3
  EkPrivates <- MCPrivates
  EkPublics <- MCPublics
  EkHashes <- MCEkHashes
  RsSizes = {13, 14}
  RsMinBits = 6
  RsMinPrimeBits = 3
  RsExponents = {0, 2, 7}
  RsImports <- MCRsImports
  RsJunk = {0, 10, 100, 65535}
  Stations <- MCStations
  SaGroups <- MCGroups
  SaMacs <- MCMacs
  SaPasswords = {"first", "later", "never"}
  SaHunt <- MCHunt
  SaExpand <- MCExpand
  SaHmac <- MCHmac
  SaMinCount = 3
  SaCountRange = 6
  SaGiven <- MCGiven
  SaForged <- MCForged
  SaMaxSessions = 1
INVARIANT DlPairIsSound DlPairsWorkTogether DgGroupIsSound
          EcPointIsReference EkPairIsSound
          RsaIsExact SaeHuntedPoint SaeHashedPoint SaeAgreement
CHECK_DEADLOCK FALSE
