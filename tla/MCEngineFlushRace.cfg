SPECIFICATION Spec
CONSTANTS
  t1 = t1
  t2 = t2
  k1 = k1
  k2 = k2
  a = a
  b = b
  Key = {k1}
  Absent = Absent
  Hash = {a, b}
  NoEntry = NoEntry
  U32 = 16
  Threads = {t1, t2}
  Value <- MCOneValue
  Retentions <- MCLatest
  Ops <- WriterAndFlusher
  Interval = 20
  Timer = FALSE
  Crashes = TRUE
  Exclusive = FALSE
  MaxChanges = 3
  MaxLog = 5
CHECK_DEADLOCK FALSE
INVARIANTS
  CommittedSurvives
