CONSTANTS
  N = 3
  MaxGates = 1
  MinJoin = 0
  MinPasses = {}
  Nodes <- MCNodes
  NoNode = 0
  Dags <- DependsOnly
  MayPanic = FALSE
  MayBreach = FALSE
  Commands <- AnyCommand
  MayVerifyFail = TRUE
  MaxCrashes = 1
SPECIFICATION ResumeSpec
PROPERTIES
  CachedExitAgrees
\* The run stops when it is complete and nobody asks for it again.
CHECK_DEADLOCK FALSE
