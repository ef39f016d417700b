SPECIFICATION Spec
CONSTANTS
  Workflow = {1, 2, 3}
  Job <- MCJob
  Schedules <- MCSchedules
  NoSchedule = NoSchedule
  NoRun = NoRun
  Needs = {1, 3}
  Floor = 1
  HttpTimeout = 3
  Poll = 1
  MaxTime = 3
  MaxVersion = 1
  MaxCrashes = 0
  WatchCatalog = FALSE
  SlowCalls = FALSE
INVARIANT
  FallbackNeverKilled
