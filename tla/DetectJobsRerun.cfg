SPECIFICATION Spec
CONSTANTS
  Jobs = {j1}
  MaxDetects = 1
  MaxPieces = 1
  MaxFindings = 1
  MaxRestarts = 2
INVARIANTS RerunOverwrites
CHECK_DEADLOCK FALSE
