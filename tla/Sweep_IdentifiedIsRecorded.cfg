SPECIFICATION Spec
CONSTANTS
  k = k  v = v  s = s
  Arms <- MCArms
  SqlArms = {k}
  Name <- MCName
  Selections <- MCSelections
  Reps = 1
  FailFast = FALSE
  MaxRuns = 2
  MaxKills = 0
  MaxFaults = 0
  NoArm = NoArm
  NoRecord = NoRecord
INVARIANTS
  IdentifiedIsRecorded
CHECK_DEADLOCK FALSE
