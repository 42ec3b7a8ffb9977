\* One signalWriter whose system and library calls may fail twice.
CONSTANTS
  b1 = b1
  b2 = b2
  b3 = b3
  Batches <- MCBatches
  NumRows <- MCNumRows
  MaxRows = 3
  Pushers = {p1, p2}
  Flusher = flusher
  Closer = closer
  Nobody = nobody
  NoBatch = nobatch
  MaxFaults = 2
  MaxCrashes = 0
SPECIFICATION Spec
SYMMETRY PusherSymmetry
INVARIANTS
  AcceptedAccounted
  NoDuplicateRows
  OpenBelowLimit
  CommittedRowsExact
  CloseFlushes
\* A collector that has been shut down stops.
CHECK_DEADLOCK FALSE
