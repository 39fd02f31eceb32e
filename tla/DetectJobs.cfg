SPECIFICATION FairSpec
CONSTANTS
  Jobs = {j1, j2}
  MaxDetects = 1
  MaxPieces = 2
  MaxFindings = 2
  MaxRestarts = 2
INVARIANTS LoadBounded RunOnce ReportIsWhole RowIsConsistent
PROPERTIES EveryCheckSettles
CHECK_DEADLOCK FALSE
