SPECIFICATION Spec
CONSTANTS
  Changes = {c1}
  Tasks = {t1}
  Requests = {r1}
  Hooks = {h1}
  Incremental = TRUE
  Overlap = 3
  Lag = 1
  FetchBound = 1
  Interval = 2
  MaxRetries = 1
  BufferCap = 2
  MaxTime = 4
  MaxCrashes = 0
SYMMETRY Symmetry
INVARIANTS TypeOK NothingSkipped
CHECK_DEADLOCK FALSE
