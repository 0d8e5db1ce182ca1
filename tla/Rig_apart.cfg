SPECIFICATION SpanSpec
CONSTANTS
  Kinds = {"fetcher"}
  Threads = 2
  Partitions = 2
  Depths = {9}
  Requested = 1
  MinWindow = 1
  MaxRungs = 1
  MaxFetch = 1
  MaxFaults = 0
INVARIANTS
  LongestCoversAll
CHECK_DEADLOCK FALSE
