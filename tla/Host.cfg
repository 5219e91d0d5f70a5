CONSTANTS
  Writers = {w1}
  Readers = {r1}
  Spaces = {s1, s2}
  Given = Given
  NoSpace = NoSpace
  Policies = {"Fail", "Degrade"}
  Retries = {"Backoff", "Manual"}
  First = 2
  MaxWait = 3
  MaxFails = 2
  Names = {a, b}
  Tasks = {t1, t2}
  Ceiling = 1
  Timeout = 1
  PyThreads = {t1, t2, t3}
  PySurfaces = {"named"}
  PyKinds = {"writer", "reader"}
  MaxBatches = 1
  Jobs = {j1, j2}
  Workers = 2
  NodeSurfaces = {"direct", "named"}
  NodeKinds = {"writer", "reader"}
  Queue = 1
  Batches <- Fitting
SPECIFICATION HostSpec
INVARIANTS DecisionHolds StoredInOneSpace NeverStuck DeliveredOnResolve PinHolds WithinCeiling
PROPERTIES RecallsInSpace ComesBack PoolLetsGo
CHECK_DEADLOCK FALSE
