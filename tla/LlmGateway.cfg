SPECIFICATION FairSpec
CONSTANTS
  Calls = {c1, c2}
  Slots = 1
  MaxAttempts = 3
  TimeoutMaxAttempts = 2
  Second = 2
  DefaultRetryAfter = 2
  TpmLimit = 1
  MaxReset = 3
INVARIANTS SlotsAreInFlight TimeoutsBounded
PROPERTIES EveryCallReturns RetryAfterSuffices
CHECK_DEADLOCK FALSE
