SPECIFICATION Spec
CONSTANTS
  Shapes <- MCShapes
  Values <- MCValues
  Unrolled = 4
INVARIANTS
  TypeOK
  AppliedOrUntouched
  ArrivesIffHandled
  FelderaMirrors
CHECK_DEADLOCK FALSE
