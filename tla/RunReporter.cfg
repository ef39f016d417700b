SPECIFICATION FairSpec
CONSTANTS
  Report = {r1, r2, r3}
  Rejected = {r3}
  Proc = {p1, p2}
  Batches = 2
  MaxFails = 2
  MaxCrashes = 1
CHECK_DEADLOCK FALSE
INVARIANTS
  NothingLost
  DuplicatesAccounted
  TraceHasNoHole
PROPERTIES
  ImplementsStoreAndForward
  QueuedGetsThrough
