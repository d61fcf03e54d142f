CONSTANTS
  Nodes <- MCNodes
  Batches <- MixedBatches
  Limits <- MixedLimits
  Carried <- Resumed
  Usages = {1, NoUsage}
  NoLimit = NoLimit
  NoUsage = NoUsage
  MayTimeout = TRUE
  MayErr = TRUE
SPECIFICATION DispatchFairSpec
INVARIANTS
  ReservationsWithinLimit
  CallsAccounted
  OverspendNoticed
  BreachAnnounced
PROPERTIES
  DispatchEnds
\* The run stops when every task has been joined.
CHECK_DEADLOCK FALSE
