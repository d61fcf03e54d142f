CONSTANTS
  Nodes = {n1, n2, n3}
  MayAbort = TRUE
  MaxTokens = 1
SPECIFICATION AwaitFairSpec
INVARIANTS
  HandedInOrder
  NothingSleptThrough
PROPERTIES
  CallReturns
\* A call hangs for ever when the run ends in an error.
CHECK_DEADLOCK FALSE
