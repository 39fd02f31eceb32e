SPECIFICATION JointFairSpec
CONSTANTS
  MaxToolCalls = 2
  Spare = 2
  MaxParallel = 2
  MaxMessages = 3
  Tenants = {ta, tb}
  Asker = ta
  Absent = none
  Ids = {e1}
  Oversample = 2
  FactLimit = 1
  MaxChapter = 2
  MaxTopK = 2
  MaxHits = 5
  MaxFacts = 2
INVARIANTS BudgetKept EveryCallAnswered BudgetLeavesTurns SearchShowsBestOwn LookupIsExact
PROPERTIES EveryQuestionEnds
CHECK_DEADLOCK FALSE
