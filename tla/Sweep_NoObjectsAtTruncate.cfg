SPECIFICATION Spec
CONSTANTS
  k = k  v = v  s = s
  Arms <- MCArms
  SqlArms = {k}
  Name <- MCName
  Selections <- MCSelections
  Reps = 1
  FailFast = FALSE
  MaxRuns = 2
  MaxKills = 1
  MaxFaults = 0
  NoArm = NoArm
  NoRecord = NoRecord
INVARIANTS
  NoObjectsAtTruncate
CHECK_DEADLOCK FALSE
