CONSTANTS
  N = 3
  MaxGates = 0
  MinJoin = 0
  MinPasses = {}
  Nodes <- MCNodes
  NoNode = 0
  Dags <- RootAfters
  MayPanic = FALSE
  MayBreach = TRUE
  Commands <- JustResume
  MayVerifyFail = FALSE
  MaxCrashes = 2
SPECIFICATION ResumeFairSpec
INVARIANTS
  ResumedRunIsARun
  CompleteVaultAgrees
PROPERTIES
  NoRework
  RunCompletes
\* The run stops when it is complete and nobody asks for it again.
CHECK_DEADLOCK FALSE
