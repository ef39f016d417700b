SPECIFICATION FairSpec
CONSTANTS
  Workflow = {1, 2, 3}
  Job <- MCJob
  Schedules <- MCSchedules
  NoSchedule = NoSchedule
  NoRun = NoRun
  Needs = {1, 3}
  Floor = 1
  HttpTimeout = 3
  Poll = 1
  MaxTime = 3
  MaxVersion = 2
  MaxCrashes = 1
  WatchCatalog = TRUE
  SlowCalls = TRUE
INVARIANTS
  AttemptedOncePerLife
  AcksPaired
  AcksMatchSchedule
  OverrunBounded
  PunctualNeverKilled
PROPERTIES
  ImplementsLedger
  CataloguedIsAnswered
