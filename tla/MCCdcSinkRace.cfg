SPECIFICATION Spec
CONSTANTS
  Tables <- MCOneTable
  Keys <- MCKeys
  Feed <- MCPlain
  Arity <- MCArity
  Platforms <- MCPostgres
  MaxCrashes = 0
  MaxDrops = 0
INVARIANTS
  NothingMissed
CHECK_DEADLOCK FALSE
