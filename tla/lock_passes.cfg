CONSTANTS
  Pids = {p1, p2, p3}
  Nobody = Nobody
  MayReuse = TRUE
  MaxPasses = 5
SPECIFICATION LockSpec
INVARIANTS
  SerialPassesExclude
PROPERTIES
  AcquireReturns
\* The system rests when every pass has been made.
CHECK_DEADLOCK FALSE
