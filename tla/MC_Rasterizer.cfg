CONSTANTS
  Inputs <- MC_Inputs
  GLDefault <- MC_GLDefault
  Drivers <- MC_Drivers
  MAX_TEXTURE_COORD_UNITS = 8
  PntcGeneric = 8
  StippleFactorBits = 8
INIT Init
NEXT Next
INVARIANTS
  OrientationAgrees
  DisabledStateCleared
PROPERTIES
  FaceSelectionSpec
