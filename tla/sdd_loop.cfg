CONSTANTS
  Nodes <- MCNodes
  NoNode <- NoId
  Dags <- MCDags
  MayPanic = FALSE
  MayBreach = FALSE
  Configured = 0
  MaxCriteria = 40
  Names = {"a.rs", "b.py"}
SPECIFICATION FairSpec
INVARIANTS
  SplitKeepsAll
PROPERTIES
  LoopKept
\* The run stops when every task has been joined.
CHECK_DEADLOCK FALSE
