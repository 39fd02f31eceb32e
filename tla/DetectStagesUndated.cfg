SPECIFICATION Spec
CONSTANTS
  Pieces = 2
  LastLine = 2
  Claimable <- MCClaimable
  MaxClaims = 1
  Checked = 3
  Chunks <- MCChunks
  Facts <- MCFacts
  ChapterOf <- MCChapterAsTold
  IndexOf <- MCIndexOf
  Evidence <- MCEvidence
  MaxVerdicts = 1
INVARIANT ShownIsPast
CHECK_DEADLOCK FALSE
