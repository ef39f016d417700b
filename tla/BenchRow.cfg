SPECIFICATION RowSpec
CONSTANTS
  Meters = {"nvml", "no counter", "stuck counter", "apple"}
  Items = 2
  MaxPieces = 2
  Busy = 2
  Idle = 1
  Nap = 2
  Before = 3
  MaxNow = 5
  MaxFaults = 2
CHECK_DEADLOCK FALSE
INVARIANTS
  ItemsShareTheRow
  SentNotInflated
  LatencyIsMeasured
  StreamedAsPlain
