SPECIFICATION AccountingSpec
CONSTANTS
  data = data
  control = control
  None = None
  Order <- MCOrder
  Rate <- MCRate
  Jvms = {data}
  Levels = {1, 3}
  Interval = 2
  MaxTime = 5
  MaxSpikes = 0
  MaxGlitches = 0
  MaxPauses = 0
  MaxInserts = 1
  Kinds = {"wrote", "buffered", "unmarked"}
CHECK_DEADLOCK FALSE
INVARIANTS
  AsyncIsRefused
