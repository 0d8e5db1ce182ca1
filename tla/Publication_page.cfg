SPECIFICATION Spec
CONSTANTS
  Sweeps = {1, 2}
  Desks = {desk}
  Boxes = {box}
  Catalog <- MCCatalog
  Asks <- MCAsks
  Star = Star
  Groups = {"drain", "sustained"}
  Versions = {1, 2}
  AsBuilt = 1
  Options <- MCOptions
  MaxFaults = 1
  Garbage = Garbage
INVARIANTS
  NothingBarredPublished
  RankedIsReproduced
PROPERTIES
  LossIsSeen
CHECK_DEADLOCK FALSE
