SPECIFICATION RigSpec
CONSTANTS
  Kinds = {"fetcher", "inserter"}
  Threads = 2
  Partitions = 3
  Depths = {0, 4}
  Requested = 2
  MinWindow = 2
  MaxRungs = 2
  MaxFetch = 2
  MaxFaults = 2
INVARIANTS
  FitsLongestWindow
  NoPartialFigure
  CauseIsReported
PROPERTIES
  WindowAnswered
CHECK_DEADLOCK FALSE
