SPECIFICATION FairSpec
CONSTANTS
  Tables <- MCOneTable
  Keys <- MCKeys
  Feed <- MCPoison
  Arity <- MCArity
  Platforms <- MCBoth
  MaxCrashes = 2
  MaxDrops = 1
PROPERTIES
  Drains
CHECK_DEADLOCK FALSE
