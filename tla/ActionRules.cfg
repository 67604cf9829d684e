CONSTANTS
  Rules = {r1, r2}
  NoRule = none
  External = {r1}
  Matching = {r1}
  Failing = {r2}
  Runs = {p1}
  Requests = {q1}
  Cooldown = 2
  RunBound = 1
  MaxTime = 3
  MaxFires = 2
  MaxFaults = 1
SPECIFICATION FairSpec
INVARIANTS TypeOK NeverOvercounted  CountsAgree
PROPERTIES DeliveriesSpaced 
CHECK_DEADLOCK FALSE
