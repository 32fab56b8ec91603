SPECIFICATION Spec
CONSTANTS
  t1 = t1
  t2 = t2
  k1 = k1
  k2 = k2
  a = a
  b = b
  Key = {k1, k2}
  Absent = Absent
  Hash = {a, b}
  NoEntry = NoEntry
  U32 = 16
  Threads = {t1}
  Value <- MCTwoValues
  Retentions <- MCLastTwo
  Ops <- OneThread
  Interval = 2
  Timer = TRUE
  Crashes = TRUE
  Exclusive = FALSE
  MaxChanges = 3
  MaxLog = 5
CHECK_DEADLOCK FALSE
INVARIANTS
  TypeOK
  RefsResolve
  CommittedSurvives
  RefcountsCoverVersions
  IndexAgrees
PROPERTY
  ImplementsTensorStore
