SPECIFICATION LiveSpec
CONSTANTS
  Configs <- MCConfigs
  TarItems = 1
  CPUs = {1, 8}
  MaxRuns = 3
  Tears = TRUE
PROPERTY LastRunCompletes
CHECK_DEADLOCK FALSE
