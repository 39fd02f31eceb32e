SPECIFICATION Spec
CONSTANTS
  Tenants = {a, b}
  NoTenant = NoTenant
  Handlers = {h1, h2}
  MaxEpisode = 2
  MaxJobs = 2
  MaxRestarts = 1
  QueueCap = 3
  SubmitReadMayFail = TRUE
  WorkerReadMayFail = FALSE
SYMMETRY Symmetric
INVARIANTS NoGap DoneIsMarked BacklogBounded InCustody
PROPERTIES SettledStays ImplementsLedger
CHECK_DEADLOCK FALSE
