SPECIFICATION FairSpec
CONSTANTS
  t1 = t1
  t2 = t2
  x = x
  y = y
  h = h
  z = z
  Cell <- MCCell
  Zero = z
  Threads <- MCThreads
  NoThread = NoThread
  Payloads <- MCSmallPayloads
  Headers <- MCHeaders
  HeaderLen = 1
  Limit = 3
  IoErrors = TRUE
  MaxLen = 4
INVARIANTS
  AckedInPlace
  ReadFindsExtent
PROPERTY
  EveryCallReturns
