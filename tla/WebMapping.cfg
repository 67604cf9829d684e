CONSTANTS
  Left = Left
  Right = Right
  RowA = RowA
  RowB = RowB
  RowC = RowC
  Projects = {Left, Right}
  Items <- Rows
  GivenMaps <- FourMaps
  ProjectOf <- Owner
  Existing = {RowA, RowC}
  None = none
  MaxClicks <- UploadBudget
  MaxFaults = 0
SPECIFICATION Spec
CHECK_DEADLOCK FALSE
INVARIANT SavedMappingOpens
