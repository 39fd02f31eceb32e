SPECIFICATION Spec
CONSTANTS
  Tenants = {a}
  NoTenant = NoTenant
  Handlers = {h1}
  MaxEpisode = 3
  MaxJobs = 2
  MaxRestarts = 0
  QueueCap = 3
  SubmitReadMayFail = FALSE
  WorkerReadMayFail = TRUE
CHECK_DEADLOCK FALSE
INVARIANT NoGap
