CONSTANTS
  z1 = z1
  z2 = z2
  NULL = NULL
  ZStates <- MCZStates
  Docs <- MCDocs
  MinBuf = 1024
  BombAfter = 65536
  MaxFactor = 25
  SizeBits = 24
  UintMax = 4194303
  Methods = {"GZIP_METHOD", "ZLIB_METHOD"}
  Levels = {"HIGH_COMPRESSION", "LOW_COMPRESSION"}
  InChunks = {1000}
  OutChunks = {40000}
  MaxCalls = 2
  StateOverhead = 200
SPECIFICATION Spec
INVARIANTS
  TypeOK
  TotalMatchesLive
  AbandonedOnBomb
  OutputWithinBombBound
  CompleteDocsRestored
