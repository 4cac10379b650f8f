CONSTANTS
  VAR0 = 1
  MaxVarying = 2
  NumOut = 3
  NumIn = 3
  ProducerStage = "VS"
  ConsumerStage = "FS"
  DefaultToSmooth = TRUE
  MaxOps = 3
  LocChoices = {1, 2}
  FracChoices = {0, 1, 2}
  TypeChoices = {"float", "int", "vec2", "double", "float2"}
  InterpChoices <- MC_InterpChoices
  CentroidChoices = {FALSE}
  AAChoices = {FALSE}
  XfbChoices = {FALSE}

SPECIFICATION MC_SpecMirror
CHECK_DEADLOCK FALSE

INVARIANTS
  TypeOK
  LinkedPairsStayLinked
  MasksCoverLiveVaryings
  IoLocationsAlias
  LinkedIoLocationsAgree

PROPERTY NoLiveVaryingDemoted
