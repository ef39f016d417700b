SPECIFICATION FairLoopSpec
CONSTANTS
  Workflow = {1, 2}
  Job <- MCJob
  Schedules <- MCSchedules
  NoSchedule = NoSchedule
  NoRun = NoRun
  Needs = {1}
  Floor = 1
  HttpTimeout = 1
  Poll = 1
  MaxTime = 1
  MaxVersion = 1
  MaxCrashes = 1
  WatchCatalog = TRUE
  SlowCalls = FALSE
  MaxRuns = 4
  Rejected = {2}
  Batches = 2
  MaxFails = 2
INVARIANTS
  AckedIsReported
  OneReportPerEnd
PROPERTY LoopDrains
