SPECIFICATION Spec
CONSTANTS
  Novels = {a, b}
  MaxEpisode = 2
  MaxRuns = 3
  MaxPieces = 2
  Names = {x}
  RecentWindow = 1
SYMMETRY Symmetric
INVARIANTS MarkerMeansComplete EvidenceStaysHome GlobalSummaryOnce BackgroundIsStorySoFar
PROPERTIES MarkedWhenTidy ImplementsLedger
CHECK_DEADLOCK FALSE
