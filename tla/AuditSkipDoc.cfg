CONSTANTS
  Entries = {1,2}
  Runs = {"r1"}
  Batch = 2
  MaxTime = 1
  MaxFaults = 0
SPECIFICATION FairSpec
PROPERTY EveryEventShipped

