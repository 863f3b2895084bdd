SPECIFICATION Spec
CONSTANTS
  N = 2
  Relations <- MCRelations
  Changes <- MCChangesClean
  Undecodable <- MCNone
  Unparsable <- MCNone
  CommitLsn <- MCCommitLsn
  EndLsn <- MCEndLsn
  MaxCrashes = 2
INVARIANTS
  RestartsFromCheckpoint
CHECK_DEADLOCK FALSE
