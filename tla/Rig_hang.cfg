SPECIFICATION RigSpec
CONSTANTS
  Kinds = {"fetcher"}
  Threads = 2
  Partitions = 2
  Depths = {4}
  Requested = 2
  MinWindow = 2
  MaxRungs = 2
  MaxFetch = 2
  MaxFaults = 1
PROPERTIES
  AlwaysAnswered
CHECK_DEADLOCK FALSE
