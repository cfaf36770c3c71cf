SPECIFICATION Spec
CONSTANTS
  Configs <- MCConfigs
  TarItems = 1
  CPUs = {1, 8}
  MaxRuns = 3
  Tears = FALSE
INVARIANT BackupsDescribeBuilt
CHECK_DEADLOCK FALSE
