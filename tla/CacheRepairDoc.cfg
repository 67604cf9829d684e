CONSTANTS
  Mappings = {m1}
  NoMapping = none
  Processes = {p1}
  Threads = {t1}
  FrameMax = 2
  MaxTime = 4
  MaxRepairs = 1
  MaxRemaps = 0
  MaxFaults = 0
SPECIFICATION FairSpec
PROPERTY RepairedDataUsed
