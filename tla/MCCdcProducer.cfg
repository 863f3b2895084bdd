SPECIFICATION FairSpec
CONSTANTS
  N = 3
  Relations <- MCRelations
  Changes <- MCChanges
  Undecodable <- MCUndecodable
  Unparsable <- MCUnparsable
  CommitLsn <- MCCommitLsn
  EndLsn <- MCEndLsn
  MaxCrashes = 1
INVARIANTS
  TypeOK
  WholeTransactions
  SchemaUnlessLost
PROPERTIES
  Settled
CHECK_DEADLOCK FALSE
