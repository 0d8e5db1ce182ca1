SPECIFICATION TopicSpec
CONSTANTS
  Procs = {p}
  Partitions = {2, 3}
  Batches = 4
  Gens = {g1, g2}
  Sample = 1
  GateMax = 1
  MaxLaunches = 2
  MaxEdits = 1
  MaxFaults = 0
  None = None
SYMMETRY Symmetry
INVARIANT RecordedShape
CHECK_DEADLOCK FALSE
