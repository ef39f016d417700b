SPECIFICATION RunSpec
CONSTANTS
  MaxPlacements = 2
  Files = {"text", "missing", "garbled"}
  Execs = {"zero", "nonzero", "not found", "hangs", "garbled"}
  Listings = {"down", "unsupported", "error", "unparsable", "empty", "model", "other"}
  Posts = {"object", "value", "text", "error", "hangs"}
CHECK_DEADLOCK FALSE
INVARIANTS
  CheckedIsRun
  KeyOfWhatRan
