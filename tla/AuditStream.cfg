CONSTANTS
  Entries = {1,2,3}
  Runs = {"r1","r2"}
  Batch = 2
  MaxTime = 2
  MaxFaults = 1
SPECIFICATION FairSpec
INVARIANTS TypeOK OnlyLateSkipped ReshippedOnlyAfterFault
PROPERTIES EventuallyShipped CursorMovesForward
