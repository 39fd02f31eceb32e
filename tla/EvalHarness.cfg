CONSTANTS
  Tags = {ta}
  WithDraft = {ta}
  Units = 2
  MaxClaims = 1
  Chunks = {c}
  Facts = {f}
  Searches <- FewSearches
  Numbers = {2}
  BatchSizes = {0, 1}
  Wordings = {v1, v2}
  MaxFailures = 1
  MaxCommands = 4
SYMMETRY WordingsAlike
SPECIFICATION Spec
INVARIANTS
  BoughtOnce
  AnswersFit
  StoreLosesNothing
CHECK_DEADLOCK FALSE
