SPECIFICATION FairSpec
CONSTANTS
  default = default
  cpuLoad = cpuLoad
  Schedulers = {default, cpuLoad}
  Clients = {client}
  Workers = {1, 2, 3}
  NoOne = NoOne
  ThreadCount <- MCThreadCount
  MaxFromShared <- MCMaxFromShared
  Aggressive <- MCAggressive
  HWThreads = {1, 2}
  MaxJobs <- MCMaxJobs
  MaxStops = 1
  MaxCalls = 1
CHECK_DEADLOCK FALSE
INVARIANT SchedulerInv
PROPERTIES JobsGetDone WaitsEnd
