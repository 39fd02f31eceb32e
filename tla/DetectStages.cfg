SPECIFICATION Spec
CONSTANTS
  Pieces = 2
  LastLine = 2
  Claimable <- MCClaimable
  MaxClaims = 1
  Checked = 3
  Chunks <- MCChunks
  Facts <- MCFacts
  ChapterOf <- MCChapterOf
  IndexOf <- MCIndexOf
  Evidence <- MCEvidence
  MaxVerdicts = 2
INVARIANTS ClaimsFollowText RefsAreOwn ShownIsPast SilenceIsTold FindingsAreVerdicts FindingsStandUp
CHECK_DEADLOCK FALSE
