SPECIFICATION Spec
CONSTANTS
  Threads = 2
  First = 1
  Unit = 1
  Rate = 1
  QueueMax = 1
  Seqs = {0, 1}
  MaxBatches = 3
  Horizon = 4
  MaxFaults = 0
  MaxMissing = 0
  MaxAgain = 0
INVARIANT
  WholeArmIsSpared
CHECK_DEADLOCK FALSE
