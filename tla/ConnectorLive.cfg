SPECIFICATION FairSpec
CONSTANTS
  Changes = {c1}
  Tasks = {t1, t2}
  Requests = {}
  Hooks = {}
  Incremental = TRUE
  Overlap = 3
  Lag = 1
  FetchBound = 1
  Interval = 1
  MaxRetries = 0
  BufferCap = 2
  MaxTime = 4
  MaxCrashes = 1
PROPERTIES ImplementsFeed EventuallyDelivered

CHECK_DEADLOCK FALSE
