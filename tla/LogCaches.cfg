CONSTANTS
  Mappings = {m1, m2}
  NoMapping = none
  Processes = {p1}
  Threads = {t1}
  FrameMax = 1
  MaxTime = 4
  MaxRepairs = 1
  MaxRemaps = 1
  MaxFaults = 1
SPECIFICATION FairSpec
INVARIANTS TypeOK StaleOnlyIfOvertaken
PROPERTY StaleAgesOut
