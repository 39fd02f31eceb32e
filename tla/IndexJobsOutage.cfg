SPECIFICATION FairSpec
CONSTANTS
  Tenants = {a}
  NoTenant = NoTenant
  Handlers = {h1}
  MaxEpisode = 3
  MaxJobs = 2
  MaxRestarts = 1
  QueueCap = 2
  SubmitReadMayFail = TRUE
  WorkerReadMayFail = TRUE
CHECK_DEADLOCK FALSE
PROPERTIES StopsAtFailure EveryEpisodeSettles
