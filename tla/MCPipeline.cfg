SPECIFICATION PipelineSpec
CONSTANTS
  N = 2
  Relations <- MCRelations
  Changes <- MCChanges
  Undecodable <- MCNone
  Unparsable <- MCNone
  CommitLsn <- MCCommitLsn
  EndLsn <- MCEndLsn
  MaxCrashes = 2
  Effects <- MCEffects
  Keys <- MCKeys
  Platforms <- MCPostgres
  MaxSinkCrashes = 0
  MaxDrops = 0
INVARIANTS
  EndToEnd
PROPERTIES
  NoReturn
VIEW MCView
CHECK_DEADLOCK FALSE
