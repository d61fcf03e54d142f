CONSTANTS
  N = 2
  MaxGates = 0
  MinJoin = 0
  MinPasses = {}
  Nodes <- MCNodes
  NoNode = 0
  Dags <- DependsOnly
  MayPanic = FALSE
  MayBreach = FALSE
  Commands <- JustResume
  MayVerifyFail = FALSE
  MaxCrashes = 2
SPECIFICATION ResumeSpec
INVARIANTS
  OutputSurvives
\* The run stops when it is complete and nobody asks for it again.
CHECK_DEADLOCK FALSE
