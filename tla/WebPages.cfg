CONSTANTS
  Left = Left
  Right = Right
  RowA = RowA
  RowB = RowB
  RowC = RowC
  Projects = {Left, Right}
  Items <- Rows
  GivenMaps <- FourMaps
  ProjectOf <- Owner
  Existing = {RowA, RowC}
  None = none
  MaxClicks <- Budget
  MaxFaults = 1
SPECIFICATION Spec
CHECK_DEADLOCK FALSE
INVARIANTS TypeOK OneSession SettledIsStored  OneSave WidgetsApart LateAnswersDropped ShowsItsLog CanvasKeepsUp EdgesKept DraftFits
