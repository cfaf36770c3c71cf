SPECIFICATION Spec
CONSTANTS
  Inputs <- MCInputs
  MaxRuns = 2
  Tears = TRUE
PROPERTY
  CompletedRunKeepsSource
CHECK_DEADLOCK FALSE
