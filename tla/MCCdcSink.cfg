SPECIFICATION Spec
CONSTANTS
  Tables <- MCTables
  Keys <- MCKeys
  Feed <- MCFeed
  Arity <- MCArity
  Platforms <- MCBoth
  MaxCrashes = 1
  MaxDrops = 1
INVARIANTS
  TypeOK
  ConvergesUnlessMissed
CHECK_DEADLOCK FALSE
