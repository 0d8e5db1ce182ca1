SPECIFICATION Spec
CONSTANTS
  Threads = 2
  First = 1
  Unit = 1
  Rate = 1
  QueueMax = 1
  Seqs = {0, 1}
  MaxBatches = 3
  Horizon = 4
  MaxFaults = 1
  MaxMissing = 2
  MaxAgain = 1
INVARIANTS
  DenseBelowSlowest
  LossIsCaught
  OnlyLossFails
PROPERTIES
  LoadEnds
CHECK_DEADLOCK FALSE
