SPECIFICATION FairSpec
CONSTANTS
  Registrars = {r1, r2}
  MaxEdits = 1
  MaxFaults = 1
  MaxNow = 2
CHECK_DEADLOCK FALSE
INVARIANTS
  WatchedIsTheFile
  RegisteredAlone
  OneIdentity
PROPERTIES
  HandWrittenStays
  WatcherCatchesUp
