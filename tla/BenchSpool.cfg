SPECIFICATION FairSpec
CONSTANTS
  Bundle = {b1, b2, b3, b4}
  Unreadable = {}
  Denylisted = {b4}
  Misshapen = {}
  Rejected = {b3}
  Daemon = daemon
  Command = {c1}
  MaxFails = 3
  MaxKills = 1
  MaxChanges = 1
CHECK_DEADLOCK FALSE
INVARIANTS
  ToldTheTruth
  StoredOnce
PROPERTIES
  ImplementsQueue
  QueuedGetsThrough
