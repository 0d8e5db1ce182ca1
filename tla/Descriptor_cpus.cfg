\* The run is over once it is recorded or refused.
CHECK_DEADLOCK FALSE
SPECIFICATION Spec
CONSTANTS
  Names <- MCNames
  Ends <- MCEnds
  KnobNames <- MCKnobNames
  Base <- MCBase
  Quantities <- MCQuantities
  Layouts <- MCLayouts
  Envs <- MCEnvs
  Knobs <- MCKnobs
  Rules <- MCRules
  Paths <- MCPaths
  Overrides <- MCOverrides
  HostCpus = 3
  MinMemory = 2
  Page = 2
  MaxEdits = 1
INVARIANT
  EnvelopeIsANumber
