SPECIFICATION Spec
CONSTANTS
  Changes = {c1}
  Tasks = {t1}
  Requests = {r1}
  Hooks = {}
  Incremental = TRUE
  Overlap = 2
  Lag = 1
  FetchBound = 1
  Interval = 2
  MaxRetries = 0
  BufferCap = 2
  MaxTime = 5
  MaxCrashes = 0
SYMMETRY Symmetry
INVARIANT LateCommitsRefetched
CHECK_DEADLOCK FALSE
