SPECIFICATION Spec
CONSTANTS
  c1 = c1  c2 = c2  c3 = c3  p = p  q = q
  e1 = e1  e2 = e2  e3 = e3
  Procs = {p}
  Envelopes = {e1, e2}
  Caps <- MCCaps
  Corpora = {c1}
  Size <- MCSize
  Formats = {native}
  Figures = {10}  Achieved = {8}
  MaxLaunches = 2
  MaxEdits = 1
  MaxKills = 0
  None = None  Torn = Torn  Dead = Dead
INVARIANT ProvenUnderOneEnvelope
CHECK_DEADLOCK FALSE
