CONSTANTS
  VAR0 = 1
  MaxVarying = 2
  NumOut = 2
  NumIn = 2
  ProducerStage = "TCS"
  ConsumerStage = "TES"
  DefaultToSmooth = TRUE
  MaxOps = 3
  LocChoices = {0, 1, 2, 3, 4}
  FracChoices = {0, 1}
  TypeChoices <- MC_TypeChoices
  InterpChoices = {1}
  CentroidChoices = {FALSE}
  AAChoices = {FALSE}
  XfbChoices = {FALSE}

SPECIFICATION Spec
CHECK_DEADLOCK FALSE

INVARIANT TcsReadBackInOutputsRead

