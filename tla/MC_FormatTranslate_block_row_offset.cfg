CONSTANTS
  Formats <- MC_Formats
  Desc <- MC_Desc
  YChoices = {0, 4}
  HChoices = {1, 2, 3, 5}
  ZChoices = {0, 1}
  DChoices = {1, 2}
  AllocMayFail = FALSE

SPECIFICATION Spec
CHECK_DEADLOCK FALSE

INVARIANT WritesStayInRegion
