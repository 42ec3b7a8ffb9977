\* One signalWriter, a failing call and a crash between any two steps; progress too.
CONSTANTS
  b1 = b1
  b2 = b2
  b3 = b3
  Batches <- MCTwoBatches
  NumRows <- MCNumRows
  MaxRows = 3
  Pushers = {p1, p2}
  Flusher = flusher
  Closer = closer
  Nobody = nobody
  NoBatch = nobatch
  MaxFaults = 1
  MaxCrashes = 1
SPECIFICATION FairSpec
INVARIANTS
  VisibleComplete
PROPERTIES
  VisibleImmutable
  ImplementsTable
  EveryFileLeaves
  EveryPushReturns
\* A collector that has been shut down stops.
CHECK_DEADLOCK FALSE
