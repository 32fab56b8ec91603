SPECIFICATION MaintenanceSpec
CONSTANTS
  t1 = t1
  k1 = k1
  k2 = k2
  a = a
  b = b
  Key = {k1, k2}
  Absent = Absent
  Hash = {a, b}
  NoEntry = NoEntry
  U32 = 16
  Threads = {t1}
  Value <- MCValues
  Retentions <- MCLatest
  Ops <- MCOps
  BulkOps <- MCBulkOps
  Batches <- MCBatches
  Interval = 3
  Timer = FALSE
  Crashes = FALSE
  Exclusive = FALSE
  MaxChanges = 2
  MaxLog = 6
  MaxCompactions = 1
CHECK_DEADLOCK FALSE
INVARIANTS
  TensorsIntact
