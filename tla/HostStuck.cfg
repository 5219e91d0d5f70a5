CONSTANTS
  Writers = {w1}
  Readers = {r1}
  Spaces = {s1, s2}
  Given = Given
  NoSpace = NoSpace
  Policies = {"Fail", "Degrade"}
  Retries = {"Backoff", "Manual"}
  First = 1
  MaxWait = 2
  MaxFails = 3
  Names = {a, b}
  Tasks = {t1, t2, t3}
  Ceiling = 1
  Timeout = 1
  PyThreads = {t1, t2, t3}
  PySurfaces = {"direct"}
  PyKinds = {"writer", "reader"}
  MaxBatches = 1
  Jobs = {j1, j2}
  Workers = 2
  NodeSurfaces = {"direct"}
  NodeKinds = {"writer", "reader"}
  Queue = 1
  Batches <- Outrunning
SPECIFICATION HostSpec
INVARIANTS NeverStuck
CHECK_DEADLOCK FALSE
