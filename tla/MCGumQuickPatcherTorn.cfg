SPECIFICATION Spec
CONSTANTS
  Inputs <- MCInputs
  MaxRuns = 3
  Tears = TRUE
INVARIANT TypeOK
INVARIANT PatchesAtMostOnce
INVARIANT VariantMatches
CHECK_DEADLOCK FALSE
