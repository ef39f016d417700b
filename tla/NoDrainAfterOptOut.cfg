SPECIFICATION FairSpec
CONSTANTS
  Bundle = {b1, b2}
  Unreadable = {}
  Denylisted = {}
  Misshapen = {}
  Rejected = {}
  Daemon = daemon
  Command = {c1}
  MaxFails = 1
  MaxKills = 0
  MaxChanges = 1
CHECK_DEADLOCK FALSE
PROPERTY
  NoDrainAfterOptOut
