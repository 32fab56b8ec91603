SPECIFICATION FairSpec
CONSTANTS
  t1 = t1
  t2 = t2
  x = x
  y = y
  h = h
  z = z
  Cell <- MCCell
  Zero = z
  Threads <- MCThreads
  NoThread = NoThread
  Payloads <- MCPayloads
  Headers <- MCHeaders
  HeaderLen = 1
  Limit = 3
  IoErrors = FALSE
  MaxLen = 6
INVARIANTS
  TypeOK
  BufferContinuesFile
  AckedInPlace
  ReadFindsExtent
  SyncCoversAcked
PROPERTY
  ImplementsAppendLog
  EveryCallReturns
