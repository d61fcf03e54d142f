CONSTANTS
  N = 4
  MaxGates = 3
  MinJoin = 2
  MinPasses = {1, 2}
  Nodes <- MCNodes
  NoNode = 0
  Dags <- AllDags
  MayPanic = TRUE
  MayBreach = TRUE
SPECIFICATION FairSpec
INVARIANTS
  IInv
  EdgeCountedOnce
  DependenciesSettled
  AfterEdgesHold
  QuorumVerdictStands
  NothingRunnableLeft
PROPERTIES
  TerminalStateFinal
  RunContract
\* The run stops when every task has been joined.
CHECK_DEADLOCK FALSE
