CONSTANTS
  Formats <- MC_Formats
  Desc <- MC_Desc
  YChoices = {0}
  HChoices = {1, 2, 3, 5}
  ZChoices = {0, 1}
  DChoices = {1, 2}
  AllocMayFail = TRUE

SPECIFICATION Spec
CHECK_DEADLOCK FALSE

INVARIANTS
  WritesStayInRegion
  FailureLeavesPrefix
  NoNullCall
  SuccessWithMemoryConvertsRegion
  ComposeIsSequential
  UnswizzleInvertsSwizzle
