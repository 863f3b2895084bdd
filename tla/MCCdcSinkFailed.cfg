SPECIFICATION Spec
CONSTANTS
  Tables <- MCOneTable
  Keys <- MCKeys
  Feed <- MCPlain
  Arity <- MCArity
  Platforms <- MCFeldera
  MaxCrashes = 0
  MaxDrops = 1
PROPERTIES
  CommittedIsWritten
CHECK_DEADLOCK FALSE
