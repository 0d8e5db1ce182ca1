SPECIFICATION Spec
CONSTANTS
  Procs = {p1, p2}
  Forcers = {}
  Guests = {}
  Sticky = TRUE
  Overlap = FALSE
  MaxCrashes = 1
  MaxFaults = 0
  NoFile = NoFile
  NoPid = NoPid
PROPERTIES
  CrashNeverBlocks
