SPECIFICATION Spec
CONSTANTS
  c1 = c1  c2 = c2  c3 = c3  p = p  q = q
  e1 = e1  e2 = e2  e3 = e3
  Procs = {p}
  Envelopes = {e1, e2, e3}
  Caps <- MCCaps
  Corpora = {c1, c2, c3}
  Size <- MCSize
  Formats = {native}
  Figures = {0, 10}  Achieved = {0}
  MaxLaunches = 2
  MaxEdits = 1
  MaxKills = 0
  None = None  Torn = Torn  Dead = Dead
INVARIANT AppliedDescribesCorpus
CHECK_DEADLOCK FALSE
