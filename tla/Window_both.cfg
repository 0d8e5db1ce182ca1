SPECIFICATION Spec
CONSTANTS
  Modes = {"drain", "sustained"}
  Parts = {jm, tm}
  Corpus = 2
  MaxOffered = 4
  MaxDup = 1
  MaxStall = 2
  DrainMax = 3
  WarmupMax = 4
  WindowLen = 2
  QuiesceMax = 5
  ProbeMax = 4
  WarmupPolls = 3
  Unread = Unread
INVARIANTS
  SettledIsComplete
PROPERTIES
  OpensWarm
  WindowEnds
CHECK_DEADLOCK FALSE
