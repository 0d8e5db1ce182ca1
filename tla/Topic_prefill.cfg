SPECIFICATION TopicSpec
CONSTANTS
  Procs = {p, q}
  Partitions = {1, 2}
  Batches = 4
  Gens = {g1, g2}
  Sample = 1
  GateMax = 1
  MaxLaunches = 3
  MaxEdits = 1
  MaxFaults = 1
  None = None
SYMMETRY Symmetry
INVARIANTS
  PublishedIsCorpus
PROPERTIES
  ProducedIsCorpus
  ReusedIsCorpus
CHECK_DEADLOCK FALSE
