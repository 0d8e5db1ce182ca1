SPECIFICATION Spec
CONSTANTS
  k = k  v = v  s = s
  Arms <- MCArms
  SqlArms = {k}
  Name <- MCName
  Selections <- MCSelections
  Reps = 2
  FailFast = FALSE
  MaxRuns = 2
  MaxKills = 1
  MaxFaults = 1
  NoArm = NoArm
  NoRecord = NoRecord
INVARIANTS
  ObjectsConfined
  RecordIsOwn
  CleanBeforeRecord
  RecordedUnlessPanic
PROPERTIES
  ObjectsOutliveContainers
CHECK_DEADLOCK FALSE
