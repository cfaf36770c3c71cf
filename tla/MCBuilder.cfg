SPECIFICATION LiveSpec
CONSTANTS
  Configs <- MCConfigs
  TarItems = 1
  CPUs = {1, 8}
  MaxRuns = 3
  Tears = FALSE
INVARIANT TypeOK
INVARIANT BuiltFromCurrentSources
CHECK_DEADLOCK FALSE
PROPERTY QuickjsAtomic
PROPERTY LastRunCompletes
