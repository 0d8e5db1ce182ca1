SPECIFICATION AccountingSpec
CONSTANTS
  data = data
  control = control
  None = None
  Order <- MCOrder
  Rate <- MCRate
  Jvms = {data}
  Levels = {1, 3}
  Interval = 2
  MaxTime = 5
  MaxSpikes = 1
  MaxGlitches = 1
  MaxPauses = 2
  MaxInserts = 2
  Kinds = {"wrote", "silent", "buffered", "unmarked", "running"}
CHECK_DEADLOCK FALSE
INVARIANTS
  WholeArmIsCharged
  PeakIsOfOneInstant
  GcIsOfItsWindow
  ServerFigureIsTheArms
