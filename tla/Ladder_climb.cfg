SPECIFICATION Spec
CONSTANTS
  From = 2
  Step = 2
  IngestMax = 12
  Patience = 2
  Rates = {0, 100, 103, 104, 108}
  NoRung = NoRung
INVARIANTS
  UnderstatedByMargin
  CeilingIsNoFloor
  WinnerLanded
PROPERTIES
  PassEnds
CHECK_DEADLOCK FALSE
