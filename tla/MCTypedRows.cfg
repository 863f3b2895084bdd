SPECIFICATION Spec
CONSTANTS
  Definitions <- MCDefinitions
  Alters <- MCAlters
  Oid <- MCOid
  Sample <- MCSample
  Builds <- MCBuilds
  Reserved <- MCReserved
  MaxAlters = 2
INVARIANTS
  TypeOK
  Understood
  ValuesKept
  PostgresArrives
  FelderaArrives
CHECK_DEADLOCK FALSE
