SPECIFICATION Spec
CONSTANTS
  Configs <- MCConfigs
  TarItems = 2
  CPUs = {1, 8}
  MaxRuns = 3
  Tears = FALSE
INVARIANT QuickjsCompleteWhenUsed
CHECK_DEADLOCK FALSE
