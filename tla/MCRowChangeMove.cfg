SPECIFICATION Spec
CONSTANTS
  Shapes <- MCUsers
  Values <- MCValues
  Unrolled = 4
INVARIANTS
  EveryChangeArrives
CHECK_DEADLOCK FALSE
