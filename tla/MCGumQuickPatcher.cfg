SPECIFICATION Spec
CONSTANTS
  Inputs <- MCInputs
  MaxRuns = 3
  Tears = FALSE
INVARIANT TypeOK
INVARIANT PatchIdempotent
INVARIANT PatchPlacement
INVARIANT VariantMatches
CHECK_DEADLOCK FALSE
PROPERTY CompletedRunKeepsSource
