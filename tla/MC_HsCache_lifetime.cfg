CONSTANTS
  k1 = k1
  k2 = k2
  NoEntry = NoEntry
  Invalid = Invalid
  Keys <- MCKeys
  Descs <- MCDescsWrap
  V2Init <- MCV2Init
  MaxDescSize = 50000
  MaxLifetimeSec = 10800
  LifetimeBits = 24
  MaxIntroPoints = 10
  PadMultiple = 10000
  CertLifetime = 194400
  TextLen <- MCTextLen
  ServiceDescs <- MCServiceDescs
  Subcred <- MCSubcred
  EncodeTime = 9000
  EntryOverhead = 100
  MaxEntryLifetime = 7200
  RendPostPeriod = 3600
  MinRemove = {1, 100000}
  ClockStart = 9000
  ClockSteps = {1800, 3600}
  ClockMax = 14400
  MaxInits = 2
SPECIFICATION Spec
INVARIANTS
  LifetimeAsAdvertised
