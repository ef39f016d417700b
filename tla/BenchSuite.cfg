SPECIFICATION FairSpec
CONSTANTS
  Kinds = {"quick", "calibrate", "full", "reference", "prism"}
  Items = 2
  MaxRungs = 2
  Sustained = 1
  PauseLimit = 2
  MaxFaults = 2
CHECK_DEADLOCK FALSE
INVARIANTS
  Unwound
  RowsComplete
  AllOrNothing
PROPERTIES
  SuiteEnds
