CONSTANTS
  VAR0 = 1
  MaxVarying = 2
  NumOut = 2
  NumIn = 2
  ProducerStage = "VS"
  ConsumerStage = "FS"
  DefaultToSmooth = TRUE
  MaxOps = 4
  LocChoices <- MC_LocChoices
  FracChoices <- MC_FracChoices
  TypeChoices <- MC_TypeChoices
  InterpChoices <- MC_InterpChoices
  CentroidChoices = {FALSE}
  AAChoices = {FALSE, TRUE}
  XfbChoices = {FALSE}
SPECIFICATION MC_SpecXfbShared
CHECK_DEADLOCK FALSE
INVARIANT MasksCoverLiveVaryings
