SPECIFICATION Spec
CONSTANTS
  Procs = {p1, p2, p3}
  Forcers = {p2}
  Guests = {p3}
  Sticky = TRUE
  Overlap = TRUE
  MaxCrashes = 2
  MaxFaults = 1
  NoFile = NoFile
  NoPid = NoPid
PROPERTIES
  LockNotTaken
  ImplementsMutex
  StaleLockReclaimed
