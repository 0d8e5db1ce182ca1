SPECIFICATION Spec
CONSTANTS
  Procs = {p1, p2, p3}
  Forcers = {}
  Guests = {}
  Sticky = TRUE
  Overlap = TRUE
  MaxCrashes = 0
  MaxFaults = 0
  NoFile = NoFile
  NoPid = NoPid
INVARIANTS
  MutualExclusion
