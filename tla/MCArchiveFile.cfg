SPECIFICATION Spec
CONSTANTS
  U8 = 4
  U16 = 5
  Page = 16
  MaxValue = 3
  Word = 2
  Payloads <- MCPayloads
  Keys <- MCKeys
  MaxEntries = 2
  MaxLen = 80
  MaxLives = 3
  Samples <- MCSamples
CHECK_DEADLOCK FALSE
INVARIANTS
  TypeOK
  RoundTrips
  KillRecoversNewest
  PowerLossWouldBeTold
  ReaderServesOneCheckpoint
CONSTRAINT JudgedReaders
