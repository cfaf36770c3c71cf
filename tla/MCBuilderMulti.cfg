SPECIFICATION Spec
CONSTANTS
  Configs <- MCConfigs
  TarItems = 2
  CPUs = {1, 8}
  MaxRuns = 3
  Tears = TRUE
INVARIANT TypeOK
INVARIANT BuiltFromCurrentSources
CHECK_DEADLOCK FALSE
