SPECIFICATION Spec
CONSTANTS
  Kinds = {"quick", "medium", "full", "reference", "prism"}
  Platforms = {"apple"}
  Roster = {1, 2, 3}
  Reference = 2
  Rungs = {11}
  Foreign = 9
  MediumCount = 2
  Memories = {2}
  MaxChanges = 2
CHECK_DEADLOCK FALSE
INVARIANTS
  LabelTrue
  CellsAccounted
