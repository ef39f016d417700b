SPECIFICATION FairSpec
CONSTANTS
  Policies = {"preserve", "managed"}
  Default = 20
  Floor = 10
  Ceiling = 24
  DefaultReadable = TRUE
  PerWatt = 2
  OperatorLimits = {24, 31}
  Recommended = {37, NoCap}
  NoCap = NoCap
  Exclusive = FALSE
  MaxRefusals = 1
  MaxKills = 1
INVARIANTS
  LeftAsFound
  NoWalkDown
PROPERTIES
  LeftoverHeals
