SPECIFICATION Spec
CONSTANTS
  Modes = {"drain"}
  Parts = {jm, tm}
  Corpus = 2
  MaxOffered = 3
  MaxDup = 1
  MaxStall = 2
  DrainMax = 3
  WarmupMax = 4
  WindowLen = 2
  QuiesceMax = 5
  ProbeMax = 2
  WarmupPolls = 3
  Unread = Unread
INVARIANTS
  DrainExhaustsCorpus
CHECK_DEADLOCK FALSE
