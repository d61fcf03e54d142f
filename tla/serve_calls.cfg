CONSTANTS
  Nodes <- MCNodes
  NoNode = 0
  Handlers = {"h1"}
  Vaults <- Files
  Batches <- MCBatches
  MaxSessions = 2
  MaxClashes = 1
  MayCancel = TRUE
SPECIFICATION ServerFairSpec
INVARIANTS
  ProjectionsFollowLog
  ReaderContiguous
  RetryAfterRun
  EndReported
  SubmittedValid
  SubmittedFaithful
PROPERTIES
  MigrationWhole
  RequestsAnswered
\* Nobody need submit a run, or start one again.
CHECK_DEADLOCK FALSE
