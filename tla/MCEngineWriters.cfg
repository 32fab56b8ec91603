SPECIFICATION Spec
CONSTANTS
  t1 = t1
  t2 = t2
  k1 = k1
  k2 = k2
  a = a
  b = b
  Key = {k1}
  Absent = Absent
  Hash = {a, b}
  NoEntry = NoEntry
  U32 = 16
  Threads = {t1, t2}
  Value <- MCOneChunk
  Retentions <- MCLatest
  Ops <- TwoWriters
  Interval = 20
  Timer = FALSE
  Crashes = TRUE
  Exclusive = TRUE
  MaxChanges = 2
  MaxLog = 4
SYMMETRY SymmetricHashes
CHECK_DEADLOCK FALSE
INVARIANTS
  RefsResolve
  CommittedSurvives
PROPERTY
  ImplementsTensorStore
