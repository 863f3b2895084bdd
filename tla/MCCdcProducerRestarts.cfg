SPECIFICATION Spec
CONSTANTS
  N = 2
  Relations <- MCRelations
  Changes <- MCChanges2
  Undecodable <- MCUndecodable
  Unparsable <- MCUnparsable
  CommitLsn <- MCCommitLsn
  EndLsn <- MCEndLsn
  MaxCrashes = 2
INVARIANTS
  AckedIsDurable
  NoSilentLoss
  OnceUnlessStale
PROPERTIES
  PublishesAtomically
CHECK_DEADLOCK FALSE
