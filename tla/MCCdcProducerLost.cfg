SPECIFICATION Spec
CONSTANTS
  N = 2
  Relations <- MCRelations
  Changes <- MCChangesClean
  Undecodable <- MCNone
  Unparsable <- MCNone
  CommitLsn <- MCCommitLsn
  EndLsn <- MCEndLsn
  MaxCrashes = 0
INVARIANTS
  NothingLost
CHECK_DEADLOCK FALSE
