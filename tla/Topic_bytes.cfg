SPECIFICATION TopicSpec
CONSTANTS
  Procs = {p, q}
  Partitions = {1, 2}
  Batches = 3
  Gens = {g1, g2}
  Sample = 1
  GateMax = 1
  MaxLaunches = 3
  MaxEdits = 1
  MaxFaults = 2
  None = None
SYMMETRY Symmetry
PROPERTY
  RightDepthRightBytes
CHECK_DEADLOCK FALSE
